--------------------------- MODULE PositionsProofs --------------------------
(***************************************************************************)
(* Proofs about Positions, for every flight, receiver and remark.          *)
(*                                                                         *)
(* First the decoders of Cpr, as lemmas about arithmetic: what two frames, *)
(* or one and a receiver, determine.  The zone index is found because the  *)
(* rounding of the frames and the movement stay below half a zone; the     *)
(* longitude needs that an even and an odd zone count of the same band     *)
(* differ by one.  Then numbers and their bits, for what the parser reads  *)
(* is what the transponder put.  With both, the invariant that cpr holds   *)
(* the frames of the places in origin gives the three properties of the    *)
(* decodes; and what is said is read, one kind of message after another.   *)
(***************************************************************************)
EXTENDS Positions, Recursion, FiniteSetTheorems, SequenceTheorems, TLAPS

-----------------------------------------------------------------------------
(* Remainders, latitudes and zones.                                        *)

(* The sizes in the units of Cpr.                                          *)
LEMMA Sizes == Res = 131072 /\ Quarter = 463994880 /\ LonCircle = 31457280
BY DEF Res, Quarter, LonCircle

(* What \div and % are, as numbers.                                        *)
LEMMA Division ==
  ASSUME NEW a \in Int, NEW d \in Int, d > 0
  PROVE  /\ a \div d \in Int /\ a % d \in Int /\ 0 <= a % d /\ a % d < d
         /\ a = d * (a \div d) + (a % d)
OBVIOUS

(* Any quotient with a remainder below the divisor is the one.             *)
LEMMA DivisionIs ==
  ASSUME NEW a \in Int, NEW d \in Int, NEW q \in Int, NEW r \in Int, 0 <= r, r < d, a = d * q + r
  PROVE  a \div d = q /\ a % d = r
OBVIOUS

(* A number that is at most a quotient.                                    *)
LEMMA BelowQuotient ==
  ASSUME NEW s \in Int, NEW c \in Int, NEW e \in Int, e > 0, s <= c \div e
  PROVE  s * e <= c
<1>1. PICK q \in Int, r \in Int : q = c \div e /\ 0 <= r /\ c = e * q + r
  BY Division
<1>2. s * e <= e * q
  <2>1. PICK k \in Nat : k = q - s
    BY <1>1
  <2>2. e * k >= 0 /\ e * k = e * q - s * e
    BY <2>1
  <2>3. s * e \in Int /\ e * q \in Int /\ e * k \in Int
    OBVIOUS
  <2> QED
    BY <2>2, <2>3
<1> QED
  BY <1>1, <1>2

(* Multiples of the divisor do not matter to a remainder.                  *)
LEMMA RemainderShifts ==
  ASSUME NEW a \in Int, NEW d \in Int, d > 0, NEW k \in Int
  PROVE  (a + d * k) % d = a % d
<1>1. PICK q \in Int, r \in Int : q = a \div d /\ r = a % d /\ 0 <= r /\ r < d /\ a = d * q + r
  BY Division
<1>2. PICK j \in Int : j = q + k
  OBVIOUS
<1>3. a + d * k = d * j + r
  <2>1. d * j = d * q + d * k
    BY <1>2
  <2> QED
    BY <2>1, <1>1
<1>4. a + d * k \in Int
  OBVIOUS
<1> QED
  BY <1>1, <1>3, <1>4, DivisionIs

(* At each latitude there are 1 to 59 longitude zones.                     *)
LEMMA ZoneCount == ASSUME NEW lat \in Int PROVE cpr_nl(lat) \in 1 .. 59
<1>1. DOMAIN Boundaries = 1 .. 58
  BY DEF Boundaries
<1> DEFINE passed == {i \in DOMAIN Boundaries : Boundaries[i] <= Magnitude(lat)}
<1>2. passed \subseteq 1 .. 58
  BY <1>1
<1>3. IsFiniteSet(1 .. 58) /\ Cardinality(1 .. 58) = 58
  <2>1. 1 \in Int /\ 58 \in Int /\ ~(1 > 58) /\ 58 - 1 + 1 = 58
    OBVIOUS
  <2> QED
    BY <2>1, FS_Interval
<1>4. IsFiniteSet(passed) /\ Cardinality(passed) \in Nat /\ Cardinality(passed) <= 58
  <2>1. IsFiniteSet(passed) /\ Cardinality(passed) <= Cardinality(1 .. 58)
    <3> HIDE DEF passed
    <3> QED
      BY <1>2, <1>3, FS_Subset
  <2> HIDE DEF passed
  <2> QED
    BY <2>1, <1>3, FS_CardinalityType
<1> HIDE DEF passed
<1> QED
  BY <1>4 DEF cpr_nl, passed

(* An odd frame has one zone less, except where there is one only.         *)
LEMMA Zones ==
  ASSUME NEW lat \in Int, NEW fflag \in {0, 1}
  PROVE  /\ cpr_n_func(lat, fflag) \in 1 .. 59
         /\ fflag = 0 => cpr_n_func(lat, fflag) = cpr_nl(lat)
         /\ fflag = 1 => cpr_n_func(lat, fflag) = IF cpr_nl(lat) = 1 THEN 1 ELSE cpr_nl(lat) - 1
BY ZoneCount DEF cpr_n_func

(* Frames in the units of their zones, the zones counted in.               *)
LatCode(lat, fflag, scale) ==
  LET step == LatStep(fflag, scale) IN YZ(lat, fflag, scale) + Res * (lat \div (step * Res))

(* The sizes of the zones of latitude.                                     *)
LEMMA Steps ==
  ASSUME NEW fflag \in {0, 1}, NEW scale \in {1, 4}
  PROVE  LatStep(fflag, scale) = IF scale = 4 THEN IF fflag = 0 THEN 236 ELSE 240
                                              ELSE IF fflag = 0 THEN 59 ELSE 60
BY DEF LatStep

(* The code of a latitude is the nearest one.                              *)
LEMMA LatCodeIs ==
  ASSUME NEW lat \in Int, NEW fflag \in {0, 1}, NEW scale \in {1, 4}
  PROVE  LET step == LatStep(fflag, scale)
             code == LatCode(lat, fflag, scale)
         IN  /\ code \in Int
             /\ 2 * step * code <= 2 * lat + step /\ 2 * lat + step < 2 * step * code + 2 * step
             /\ YZ(lat, fflag, scale) % Res = code % Res
             /\ Encoded(lat, fflag, scale) = step * code
<1> DEFINE step == LatStep(fflag, scale)
           code == LatCode(lat, fflag, scale)
<1>1. step \in {59, 60, 236, 240}
  BY Steps
<1>2. PICK w \in Int : w = step * Res /\ w > 0
  BY <1>1, Sizes
<1>3. PICK q \in Int, r \in Int : q = lat \div w /\ r = lat % w /\ 0 <= r /\ r < w /\ lat = w * q + r
  <2>1. lat \div w \in Int /\ lat % w \in Int /\ 0 <= lat % w /\ lat % w < w /\ lat = w * (lat \div w) + (lat % w)
    BY <1>2, Division
  <2> QED
    BY <2>1
<1>4. PICK y \in Int : y = (2 * r + step) \div (2 * step)
  BY <1>1, <1>3
<1>5. y = YZ(lat, fflag, scale) /\ code = y + Res * q
  BY <1>2, <1>3, <1>4 DEF YZ, LatCode
<1> HIDE DEF step, code
<1>6. 2 * step * y <= 2 * r + step /\ 2 * r + step < 2 * step * y + 2 * step
  <2>1. PICK a \in Int, d \in Int : a = 2 * r + step /\ d = 2 * step /\ d > 0
    BY <1>1, <1>3
  <2>2. a = d * y + (a % d) /\ 0 <= a % d /\ a % d < d /\ a % d \in Int
    BY <2>1, <1>4, Division
  <2>3. d * y = 2 * step * y
    BY <2>1, <1>1
  <2> QED
    BY <2>1, <2>2, <2>3, <1>1, <1>3
<1>7. code \in Int /\ y % Res = code % Res
  <2>1. (y + Res * q) % Res = y % Res
    BY RemainderShifts, Sizes
  <2> QED
    BY <2>1, <1>5, Sizes
<1>8. 2 * step * code = 2 * step * y + 2 * (w * q)
  BY <1>1, <1>2, <1>5, Sizes
<1>9. 2 * step * code <= 2 * lat + step /\ 2 * lat + step < 2 * step * code + 2 * step
  BY <1>1, <1>3, <1>6, <1>7, <1>8
<1>10. Encoded(lat, fflag, scale) = step * code
  BY DEF Encoded, LatCode, code, step
<1> QED
  BY <1>5, <1>7, <1>9, <1>10 DEF step, code

(* LatCodeIs as one relation: expanded only where its parts are needed.    *)
LatCoded(lat, fflag, scale, code) ==
  /\ code = LatCode(lat, fflag, scale)
  /\ 2 * LatStep(fflag, scale) * code <= 2 * lat + LatStep(fflag, scale)
  /\ 2 * lat + LatStep(fflag, scale) < 2 * LatStep(fflag, scale) * code + 2 * LatStep(fflag, scale)
  /\ YZ(lat, fflag, scale) % Res = code % Res
  /\ Encoded(lat, fflag, scale) = LatStep(fflag, scale) * code

(* Each latitude has a code.                                               *)
LEMMA LatCodeExists ==
  ASSUME NEW lat \in Int, NEW fflag \in {0, 1}, NEW scale \in {1, 4}
  PROVE  \E code \in Int : LatCoded(lat, fflag, scale, code)
<1>1. LatCode(lat, fflag, scale) \in Int
  BY LatCodeIs
<1>2. LatCoded(lat, fflag, scale, LatCode(lat, fflag, scale))
  BY LatCodeIs DEF LatCoded
<1> QED
  BY <1>1, <1>2

(* An encoded latitude is at most half a step away, and none is beyond a   *)
(* pole.                                                                   *)
LEMMA EncodedIs ==
  ASSUME NEW lat \in Int, NEW fflag \in {0, 1}, NEW scale \in {1, 4}
  PROVE  LET e == Encoded(lat, fflag, scale)
         IN  /\ e \in Int
             /\ e - lat <= 30 * scale /\ lat - e <= 30 * scale
             /\ InRange(lat) => InRange(e)
<1> DEFINE step == LatStep(fflag, scale)
<1>1. step = IF scale = 4 THEN IF fflag = 0 THEN 236 ELSE 240 ELSE IF fflag = 0 THEN 59 ELSE 60
  BY Steps
<1>2. PICK c \in Int : c = LatCode(lat, fflag, scale) /\ Encoded(lat, fflag, scale) = step * c
                       /\ 2 * step * c <= 2 * lat + step /\ 2 * lat + step < 2 * step * c + 2 * step
  BY LatCodeIs
<1>3. PICK e \in Int : e = step * c
  BY <1>1
<1>4. 2 * e <= 2 * lat + step /\ 2 * lat + step < 2 * e + 2 * step
  <2> HIDE DEF step
  <2>1. step \in Int
    BY <1>1
  <2> QED
    BY <1>2, <1>3, <2>1
<1>5. e - lat <= 30 * scale /\ lat - e <= 30 * scale
  <2> HIDE DEF step
  <2> QED
    BY <1>1, <1>4
<1>6. InRange(lat) => InRange(e)
  <2>1. CASE step = 59
    BY <2>1, <1>3, <1>4, Sizes DEF InRange
  <2>2. CASE step = 60
    BY <2>2, <1>3, <1>4, Sizes DEF InRange
  <2>3. CASE step = 236
    BY <2>3, <1>3, <1>4, Sizes DEF InRange
  <2>4. CASE step = 240
    BY <2>4, <1>3, <1>4, Sizes DEF InRange
  <2> HIDE DEF step
  <2> QED
    BY <1>1, <2>1, <2>2, <2>3, <2>4
<1> QED
  BY <1>2, <1>3, <1>5, <1>6

(* Two numbers differ by at most d.                                        *)
Close(a, b, d) == a - b <= d /\ b - a <= d

(* The index of the zone from two frames of latitudes that are close.      *)
LEMMA IndexIs ==
  ASSUME NEW lat0 \in Int, NEW lat1 \in Int, NEW scale \in {1, 4},
         Close(lat0, lat1, scale * (Res \div 2 - 60)),
         NEW even, NEW odd,
         even[1] = YZ(lat0, 0, scale) % Res, odd[1] = YZ(lat1, 1, scale) % Res
  PROVE  LatIndex(even, odd) = 60 * (LatCode(lat1, 1, scale) \div Res) - 59 * (LatCode(lat0, 0, scale) \div Res)
<1>1. PICK c0 \in Int : LatCoded(lat0, 0, scale, c0)
  BY LatCodeExists
<1>8. PICK c1 \in Int : LatCoded(lat1, 1, scale, c1)
  BY LatCodeExists
<1>2. PICK q0 \in Int, q1 \in Int, y0 \in Int, y1 \in Int :
        /\ q0 = c0 \div Res /\ y0 = c0 % Res /\ c0 = Res * q0 + y0
        /\ q1 = c1 \div Res /\ y1 = c1 % Res /\ c1 = Res * q1 + y1
  BY Sizes
<1>3. 59 * c0 - 60 * c1 + 65536 >= 0 /\ 59 * c0 - 60 * c1 + 65536 < 131072
  <2>1. CASE scale = 4
    BY <2>1, <1>1, <1>8, Sizes, Steps DEF Close, LatCoded
  <2>2. CASE scale = 1
    BY <2>2, <1>1, <1>8, Sizes, Steps DEF Close, LatCoded
  <2> QED
    BY <2>1, <2>2
<1>4. 59 * y0 - 60 * y1 + Res \div 2 = Res * (60 * q1 - 59 * q0) + (59 * c0 - 60 * c1 + 65536)
  BY <1>2, Sizes
<1>5. PICK i \in Int : i = 60 * q1 - 59 * q0
  <2>1. 60 * q1 - 59 * q0 \in Int
    OBVIOUS
  <2> QED
    BY <2>1, Zenon
<1>10. PICK t \in Int : t = 59 * c0 - 60 * c1 + 65536
  OBVIOUS
<1>11. PICK u \in Int : u = 59 * y0 - 60 * y1 + Res \div 2
  BY Sizes
<1>12. u = Res * i + t
  BY <1>4, <1>5, <1>10, <1>11
<1>6. u \div Res = i
  BY <1>3, <1>10, <1>12, Sizes, DivisionIs
<1>7. even[1] = y0 /\ odd[1] = y1
  BY <1>1, <1>8, <1>2 DEF LatCoded
<1>9. LatIndex(even, odd) = i
  BY <1>11, <1>6, <1>7 DEF LatIndex
<1> QED
  BY <1>1, <1>8, <1>2, <1>5, <1>9 DEF LatCoded

(* Remainders by the number of zones, 60 and 59.                           *)
LEMMA IndexModulo ==
  ASSUME NEW q0 \in Int, NEW q1 \in Int
  PROVE  /\ (60 * q1 - 59 * q0) % 60 = q0 % 60
         /\ (60 * q1 - 59 * q0) % 59 = q1 % 59
OBVIOUS

(* A latitude from two frames is the one encoded in one of them, but for   *)
(* whole turns of all its zones.                                           *)
LEMMA LatOfIs ==
  ASSUME NEW lat0 \in Int, NEW lat1 \in Int, NEW scale \in {1, 4},
         Close(lat0, lat1, scale * (Res \div 2 - 60)),
         InRange(lat0), InRange(lat1),
         NEW even, NEW odd,
         even[1] = YZ(lat0, 0, scale) % Res, odd[1] = YZ(lat1, 1, scale) % Res,
         NEW fflag \in {0, 1}
  PROVE  LET e == Encoded(IF fflag = 0 THEN lat0 ELSE lat1, fflag, scale)
             l == LatOf(even, odd, fflag, scale)
         IN  IF scale = 4 THEN l = IF e < 0 THEN e + 4 * Quarter ELSE e
             ELSE l = IF e = Quarter THEN 0 ELSE IF e < 0 THEN e + Quarter ELSE e
<1> DEFINE lat == IF fflag = 0 THEN lat0 ELSE lat1
           step == LatStep(fflag, scale)
           count == 60 - fflag
<1>0. PICK c0 \in Int : LatCoded(lat0, 0, scale, c0)
  BY LatCodeExists
<1>1. PICK c1 \in Int : LatCoded(lat1, 1, scale, c1)
  BY LatCodeExists
<1>2. LatIndex(even, odd) = 60 * (c1 \div Res) - 59 * (c0 \div Res)
  BY <1>0, <1>1, IndexIs DEF LatCoded
<1>3. PICK c \in Int : LatCoded(lat, fflag, scale, c) /\ c = (IF fflag = 0 THEN c0 ELSE c1)
  <2>1. CASE fflag = 0
    BY <2>1, <1>0
  <2>2. CASE fflag = 1
    BY <2>2, <1>1
  <2> QED
    BY <2>1, <2>2
<1>4. PICK q \in Int, y \in Int : q = c \div Res /\ y = c % Res /\ c = Res * q + y /\ 0 <= y /\ y < Res
  BY Sizes
<1>5. LatOf(even, odd, fflag, scale) = step * (Res * (q % count) + y)
  <2>1. c0 \div Res \in Int /\ c1 \div Res \in Int
    BY Sizes
  <2>2. CASE fflag = 0
    BY <2>1, <2>2, <1>0, <1>2, <1>3, <1>4, IndexModulo DEF LatOf, LatCoded
  <2>3. CASE fflag = 1
    BY <2>1, <2>3, <1>1, <1>2, <1>3, <1>4, IndexModulo DEF LatOf, LatCoded
  <2> QED
    BY <2>2, <2>3
<1>6. PICK e \in Int : e = Encoded(lat, fflag, scale) /\ e = step * c /\ InRange(e)
  <2>1. lat \in Int /\ InRange(lat)
    OBVIOUS
  <2> HIDE DEF lat
  <2> QED
    BY <2>1, <1>3, EncodedIs DEF LatCoded
<1>7. PICK l \in Int : l = LatOf(even, odd, fflag, scale) /\ l = step * (Res * (q % count) + y)
  <2>1. step \in Int /\ q % count \in Int
    BY Steps
  <2> QED
    BY <2>1, <1>5, Sizes
<1>8. IF scale = 4 THEN l = IF e < 0 THEN e + 4 * Quarter ELSE e
      ELSE l = IF e = Quarter THEN 0 ELSE IF e < 0 THEN e + Quarter ELSE e
  <2>1. CASE fflag = 0 /\ scale = 4
    <3>1. step = 236 /\ count = 60
      BY <2>1, Steps
    <3> HIDE DEF step, count
    <3>2. q \in -15 .. 15
      BY <3>1, <1>4, <1>6, Sizes DEF InRange
    <3> QED
      BY <2>1, <3>1, <3>2, <1>4, <1>6, <1>7, Sizes DEF InRange
  <2>2. CASE fflag = 1 /\ scale = 4
    <3>1. step = 240 /\ count = 59
      BY <2>2, Steps
    <3> HIDE DEF step, count
    <3>2. q \in -15 .. 14
      BY <3>1, <1>4, <1>6, Sizes DEF InRange
    <3> QED
      BY <2>2, <3>1, <3>2, <1>4, <1>6, <1>7, Sizes DEF InRange
  <2>3. CASE fflag = 0 /\ scale = 1
    <3>1. step = 59 /\ count = 60
      BY <2>3, Steps
    <3> HIDE DEF step, count
    <3>2. q \in -60 .. 60
      BY <3>1, <1>4, <1>6, Sizes DEF InRange
    <3> QED
      BY <2>3, <3>1, <3>2, <1>4, <1>6, <1>7, Sizes DEF InRange
  <2>4. CASE fflag = 1 /\ scale = 1
    <3>1. step = 60 /\ count = 59
      BY <2>4, Steps
    <3> HIDE DEF step, count
    <3>2. q \in -59 .. 59
      BY <3>1, <1>4, <1>6, Sizes DEF InRange
    <3> QED
      BY <2>4, <3>1, <3>2, <1>4, <1>6, <1>7, Sizes DEF InRange
  <2> QED
    BY <2>1, <2>2, <2>3, <2>4
<1> QED
  BY <1>6, <1>7, <1>8

(* Both latitudes of an airborne position are as encoded.                  *)
LEMMA AirborneLatIs ==
  ASSUME NEW lat0 \in Int, NEW lat1 \in Int,
         Close(lat0, lat1, 4 * (Res \div 2 - 60)), InRange(lat0), InRange(lat1),
         NEW even, NEW odd,
         even[1] = YZ(lat0, 0, 4) % Res, odd[1] = YZ(lat1, 1, 4) % Res,
         NEW fflag \in {0, 1}
  PROVE  Normalized(LatOf(even, odd, fflag, 4)) = Encoded(IF fflag = 0 THEN lat0 ELSE lat1, fflag, 4)
<1> DEFINE lat == IF fflag = 0 THEN lat0 ELSE lat1
<1>1. PICK e \in Int : e = Encoded(lat, fflag, 4) /\ InRange(e)
  <2>1. lat \in Int /\ InRange(lat)
    OBVIOUS
  <2> HIDE DEF lat
  <2> QED
    BY <2>1, EncodedIs
<1>2. LatOf(even, odd, fflag, 4) = IF e < 0 THEN e + 4 * Quarter ELSE e
  BY <1>1, LatOfIs
<1> QED
  BY <1>1, <1>2, Sizes DEF Normalized, InRange

(* The latitudes of two surface frames are those of lat0 and lat1.         *)
Latitudes(lat0, lat1, even, odd) == even[1] = YZ(lat0, 0, 1) % Res /\ odd[1] = YZ(lat1, 1, 1) % Res

(* Of a surface position they are, if the reference is less than an eighth *)
(* of a circle away.                                                       *)
LEMMA SurfaceLatIs ==
  ASSUME NEW lat0 \in Int, NEW lat1 \in Int, NEW ref \in Int,
         Close(lat0, lat1, Res \div 2 - 60), InRange(lat0), InRange(lat1),
         NEW even, NEW odd,
         Latitudes(lat0, lat1, even, odd), NEW fflag \in {0, 1},
         Close(Encoded(IF fflag = 0 THEN lat0 ELSE lat1, fflag, 1), ref, Quarter \div 2 - 1)
  PROVE  LatQuarter(LatOf(even, odd, fflag, 1), ref) = Encoded(IF fflag = 0 THEN lat0 ELSE lat1, fflag, 1)
<1> USE DEF Latitudes
<1> DEFINE lat == IF fflag = 0 THEN lat0 ELSE lat1
<1>1. PICK e \in Int : e = Encoded(lat, fflag, 1) /\ InRange(e)
  <2>1. lat \in Int /\ InRange(lat)
    OBVIOUS
  <2> HIDE DEF lat
  <2> QED
    BY <2>1, EncodedIs
<1>2. PICK l \in Int : /\ l = LatOf(even, odd, fflag, 1)
                       /\ l = IF e = Quarter THEN 0 ELSE IF e < 0 THEN e + Quarter ELSE e
  <2>1. 1 * (Res \div 2 - 60) = Res \div 2 - 60
    BY Sizes
  <2>2. LatOf(even, odd, fflag, 1) = IF e = Quarter THEN 0 ELSE IF e < 0 THEN e + Quarter ELSE e
    BY <1>1, <2>1, LatOfIs
  <2> QED
    BY <2>2, Sizes
<1>3. Close(e, ref, Quarter \div 2 - 1)
  BY <1>1
<1>4. LatQuarter(l, ref) = e
  BY <1>1, <1>2, <1>3, Sizes DEF LatQuarter, InRange, Close
<1> QED
  BY <1>1, <1>2, <1>4

-----------------------------------------------------------------------------
(* A number of zones times a longitude is in units of which 60 * scale     *)
(* make a step of a code.                                                  *)
LonCoded(v, scale, code) == 60 * scale * code <= v + 30 * scale /\ v + 30 * scale < 60 * scale * code + 60 * scale

(* Each longitude has a code, and a frame carries its remainder.           *)
LEMMA LonCodeExists ==
  ASSUME NEW p, p[1] \in Int, p[2] \in Int, NEW fflag \in {0, 1}, NEW scale \in {1, 4}
  PROVE  \E code \in Int :
           /\ LonCoded(cpr_n_func(Encoded(p[1], fflag, scale), fflag) * p[2], scale, code)
           /\ XZ(p, fflag, scale) % Res = code % Res
<1>1. Encoded(p[1], fflag, scale) \in Int
  BY EncodedIs
<1>2. PICK zones \in 1 .. 59 : zones = cpr_n_func(Encoded(p[1], fflag, scale), fflag)
  BY <1>1, Zones
<1>3. PICK v \in Int : v = zones * p[2] /\ v = p[2] * zones
  OBVIOUS
<1>4. PICK w \in Int : w = 60 * scale * Res /\ w > 0
  BY Sizes
<1>5. PICK q \in Int, r \in Int : q = v \div w /\ r = v % w /\ 0 <= r /\ r < w /\ v = w * q + r
  <2>1. v \div w \in Int /\ v % w \in Int /\ 0 <= v % w /\ v % w < w /\ v = w * (v \div w) + (v % w)
    BY <1>4, Division
  <2> QED
    BY <2>1
<1>6. PICK x \in Int : x = (r + 30 * scale) \div (60 * scale)
  BY <1>5
<1>7. x = XZ(p, fflag, scale)
  BY <1>2, <1>3, <1>4, <1>5, <1>6 DEF XZ
<1>8. PICK code \in Int : code = x + Res * q
  BY Sizes
<1>9. code % Res = x % Res
  BY <1>8, RemainderShifts, Sizes
<1>10. LonCoded(v, scale, code)
  <2>1. CASE scale = 4
    BY <2>1, <1>4, <1>5, <1>6, <1>8, Sizes DEF LonCoded
  <2>2. CASE scale = 1
    BY <2>2, <1>4, <1>5, <1>6, <1>8, Sizes DEF LonCoded
  <2> QED
    BY <2>1, <2>2
<1> QED
  BY <1>2, <1>3, <1>7, <1>9, <1>10

(* b zones in odd frames, a in even ones.                                  *)
OneLess(b, a) == b = a - 1

(* Two longitudes differ by little, d, but for whole circles, k.           *)
Apart(lon0, lon1, a, b, scale, k, d) ==
  /\ lon0 - lon1 = d + LonCircle * k
  /\ d * (a * b) <= 30 * scale * Res - 60 * scale * a
  /\ -(d * (a * b)) <= 30 * scale * Res - 60 * scale * a

(* The difference of two codes, each times the zones of the other, is less *)
(* than half a zone from h times a * b zones.                              *)
Remains(c0, c1, a, b, h) ==
  /\ 0 <= c0 * b - c1 * a - Res * (a * b * h) + Res \div 2
  /\ c0 * b - c1 * a - Res * (a * b * h) + Res \div 2 < Res

(* What is left of the difference of two codes, of longitudes close enough *)
(* to each other but for whole circles, times a * b.                       *)
LEMMA LonDifference ==
  ASSUME NEW a \in Nat, a >= 1, a <= 59, NEW b \in Nat, NEW scale \in {1, 4},
         NEW lon0 \in Int, NEW lon1 \in Int, NEW c0 \in Int, NEW c1 \in Int,
         LonCoded(a * lon0, scale, c0), LonCoded(b * lon1, scale, c1), OneLess(b, a),
         NEW k \in Int, NEW d \in Int, Apart(lon0, lon1, a, b, scale, k, d)
  PROVE  \E h \in Int : Remains(c0, c1, a, b, h)
<1> USE DEF Apart, OneLess
<1> DEFINE g == IF scale = 4 THEN 1 ELSE 4
<1>0. PICK v0 \in Int : v0 = a * lon0
  OBVIOUS
<1>00. PICK v1 \in Int : v1 = b * lon1
  OBVIOUS
<1>10. PICK e0 \in Int : e0 = 60 * scale * c0 - a * lon0 /\ e0 <= 30 * scale /\ -(30 * scale) <= e0
  <2>1. 60 * scale * c0 - v0 \in Int
    OBVIOUS
  <2>2. 60 * scale * c0 - v0 <= 30 * scale /\ -(30 * scale) <= 60 * scale * c0 - v0
    <3>1. CASE scale = 4
      BY <1>0, <3>1 DEF LonCoded
    <3>2. CASE scale = 1
      BY <1>0, <3>2 DEF LonCoded
    <3> QED
      BY <3>1, <3>2
  <2> QED
    BY <1>0, <2>1, <2>2, Zenon
<1>11. PICK e1 \in Int : e1 = 60 * scale * c1 - b * lon1 /\ e1 <= 30 * scale /\ -(30 * scale) <= e1
  <2>1. 60 * scale * c1 - v1 \in Int
    OBVIOUS
  <2>2. 60 * scale * c1 - v1 <= 30 * scale /\ -(30 * scale) <= 60 * scale * c1 - v1
    <3>1. CASE scale = 4
      BY <1>00, <3>1 DEF LonCoded
    <3>2. CASE scale = 1
      BY <1>00, <3>2 DEF LonCoded
    <3> QED
      BY <3>1, <3>2
  <2> QED
    BY <1>00, <2>1, <2>2, Zenon
<1>1. 60 * scale * c0 = a * lon0 + e0 /\ 60 * scale * c1 = b * lon1 + e1
  BY <1>10, <1>11
<1>2. PICK j \in Int : j = a * b * k * g
  <2>1. g \in Int
    OBVIOUS
  <2> QED
    BY <2>1
<1>3. PICK t \in Int : t = c0 * b - c1 * a - Res * j
  BY Sizes
<1>4. 60 * scale * t = d * (a * b) + e0 * b - e1 * a
  <2>1. 60 * scale * (c0 * b - c1 * a) = (a * lon0 + e0) * b - (b * lon1 + e1) * a
    <3>1. 60 * scale * c0 = a * lon0 + e0 /\ 60 * scale * c1 = b * lon1 + e1
      BY <1>1
    <3>2. 60 * scale * (c0 * b - c1 * a) = (60 * scale * c0) * b - (60 * scale * c1) * a
      OBVIOUS
    <3> QED
      BY <3>1, <3>2
  <2>2. (a * lon0 + e0) * b - (b * lon1 + e1) * a = a * b * (lon0 - lon1) + e0 * b - e1 * a
    OBVIOUS
  <2>3. a * b * (lon0 - lon1) = d * (a * b) + a * b * (LonCircle * k)
    BY Sizes
  <2>4. a * b * (LonCircle * k) = 60 * scale * (Res * j)
    <3>1. LonCircle = 60 * scale * (Res * g) /\ g \in Int
      BY Sizes
    <3>2. Res * j = (Res * g) * (a * b * k)
      BY <1>2, <3>1, Sizes
    <3> HIDE DEF g
    <3> QED
      BY <3>1, <3>2, Sizes
  <2>5. 60 * scale * t = 60 * scale * (c0 * b - c1 * a) - 60 * scale * (Res * j)
    BY <1>3, Sizes
  <2> QED
    BY <2>1, <2>2, <2>3, <2>4, <2>5, Sizes
<1>5. PICK h0 \in Int, h1 \in Int : /\ h0 = e0 * b /\ h0 <= 30 * scale * b /\ -(30 * scale * b) <= h0
                                    /\ h1 = e1 * a /\ h1 <= 30 * scale * a /\ -(30 * scale * a) <= h1
  <2>1. e0 * b <= 30 * scale * b /\ -(30 * scale * b) <= e0 * b
    BY <1>10
  <2>2. e1 * a <= 30 * scale * a /\ -(30 * scale * a) <= e1 * a
    BY <1>11
  <2> QED
    BY <2>1, <2>2
<1>6. 60 * scale * t <= 30 * scale * Res - 30 * scale /\ -(60 * scale * t) <= 30 * scale * Res - 30 * scale
  <2>1. PICK x \in Int : x = d * (a * b)
    OBVIOUS
  <2>2. CASE scale = 4
    BY <2>1, <2>2, <1>4, <1>5, Sizes
  <2>3. CASE scale = 1
    BY <2>1, <2>3, <1>4, <1>5, Sizes
  <2> QED
    BY <2>2, <2>3
<1>7. 0 <= t + Res \div 2 /\ t + Res \div 2 < Res
  <2>1. CASE scale = 4
    BY <2>1, <1>6, Sizes
  <2>2. CASE scale = 1
    BY <2>2, <1>6, Sizes
  <2> QED
    BY <2>1, <2>2
<1>8. PICK h \in Int : h = k * g
  <2>1. g \in Int
    OBVIOUS
  <2> QED
    BY <2>1
<1>9. j = a * b * h
  <2>1. g \in Int
    OBVIOUS
  <2> HIDE DEF g
  <2> QED
    BY <2>1, <1>2, <1>8
<1> QED
  BY <1>3, <1>7, <1>8, <1>9, Sizes DEF Remains

(* The index of the zone of a longitude, from the remainders of two codes. *)
LonIndex(c0, c1, a, b) == ((c0 % Res) * b - (c1 % Res) * a + Res \div 2) \div Res

(* The index that is computed from two codes is, modulo the zones of each  *)
(* frame, the zone of its code.                                            *)
IndexFits(c0, c1, a, b) ==
  /\ LonIndex(c0, c1, a, b) % a = (c0 \div Res) % a
  /\ b # 0 => LonIndex(c0, c1, a, b) % b = (c1 \div Res) % b

(* Codes that are close enough have such an index.                         *)
LEMMA LonIndexIs ==
  ASSUME NEW a \in Nat, a >= 1, a <= 59, NEW b \in Nat, OneLess(b, a), NEW c0 \in Int, NEW c1 \in Int, NEW h \in Int,
         Remains(c0, c1, a, b, h)
  PROVE  IndexFits(c0, c1, a, b)
<1> USE DEF OneLess
<1>1. PICK p0 \in Int, y0 \in Int : p0 = c0 \div Res /\ y0 = c0 % Res /\ c0 = Res * p0 + y0
  BY Sizes
<1>2. PICK p1 \in Int, y1 \in Int : p1 = c1 \div Res /\ y1 = c1 % Res /\ c1 = Res * p1 + y1
  BY Sizes
<1>00. PICK j \in Int : j = a * b * h
  <2>1. a * b * h \in Int
    OBVIOUS
  <2> QED
    BY <2>1, Zenon
<1>3. PICK t \in Int : t = c0 * b - c1 * a - Res * j + Res \div 2 /\ 0 <= t /\ t < Res
  <2>1. c0 * b - c1 * a - Res * j + Res \div 2 \in Int
    BY Sizes
  <2> QED
    BY <2>1, <1>00, Zenon DEF Remains
<1>4. PICK m \in Int : m = j - p0 * b + p1 * a
  <2>1. j - p0 * b + p1 * a \in Int
    OBVIOUS
  <2> QED
    BY <2>1, Zenon
<1>5. PICK u \in Int : u = y0 * b - y1 * a + Res \div 2
  <2>1. y0 * b - y1 * a + Res \div 2 \in Int
    BY Sizes
  <2> QED
    BY <2>1, Zenon
<1>6. u = Res * m + t
  <2>1. PICK v0 \in Int : v0 = p0 * b
    OBVIOUS
  <2>2. PICK v1 \in Int : v1 = p1 * a
    OBVIOUS
  <2>3. c0 * b = Res * v0 + y0 * b
    BY <1>1, <2>1, Sizes
  <2>4. c1 * a = Res * v1 + y1 * a
    BY <1>2, <2>2, Sizes
  <2>5. PICK w0 \in Int : w0 = y0 * b
    OBVIOUS
  <2>6. PICK w1 \in Int : w1 = y1 * a
    OBVIOUS
  <2> QED
    BY <2>1, <2>2, <2>3, <2>4, <2>5, <2>6, <1>3, <1>4, <1>5, Sizes
<1>7. u \div Res = m
  BY <1>3, <1>6, Sizes, DivisionIs
<1>8. m = p0 + a * (b * h - p0 + p1) /\ m = p1 + b * (a * h - p0 + p1)
  <2>1. PICK x \in Int : x = a * b * h
    OBVIOUS
  <2>2. a * (b * h - p0 + p1) = a * b * h - a * p0 + a * p1
    OBVIOUS
  <2>3. b * (a * h - p0 + p1) = a * b * h - b * p0 + b * p1
    OBVIOUS
  <2>4. p0 * b = a * p0 - p0
    OBVIOUS
  <2>5. p1 * a = b * p1 + p1
    OBVIOUS
  <2> QED
    BY <1>00, <1>4, <2>2, <2>3, <2>4, <2>5
<1>9. m % a = p0 % a
  <2>1. PICK z \in Int : z = b * h - p0 + p1
    <3>1. b * h - p0 + p1 \in Int
      OBVIOUS
    <3> QED
      BY <3>1, Zenon
  <2>2. m = p0 + a * z
    BY <2>1, <1>8
  <2>3. (p0 + a * z) % a = p0 % a
    <3>1. a \in Int /\ a > 0
      OBVIOUS
    <3> QED
      BY ONLY <3>1, p0 \in Int, z \in Int, RemainderShifts
  <2> QED
    BY <2>2, <2>3
<1>10. ASSUME b # 0 PROVE m % b = p1 % b
  <2>0. b \in Int /\ b > 0
    BY <1>10
  <2>1. PICK z \in Int : z = a * h - p0 + p1
    <3>1. a * h - p0 + p1 \in Int
      OBVIOUS
    <3> QED
      BY <3>1, Zenon
  <2>2. m = p1 + b * z
    BY <2>1, <1>8
  <2>3. (p1 + b * z) % b = p1 % b
    <3>1. b \in Int /\ b > 0
      BY <2>0
    <3> QED
      BY ONLY <3>1, p1 \in Int, z \in Int, RemainderShifts
  <2> QED
    BY <2>2, <2>3
<1> QED
  BY <1>1, <1>2, <1>5, <1>7, <1>9, <1>10 DEF LonIndex, IndexFits

(* How far the flight moved, as MovedLittle says.                          *)
LEMMA LeastOfTwo ==
  ASSUME NEW x \in Int, NEW y \in Int
  PROVE  Min({x, y}) = IF x <= y THEN x ELSE y
<1>1. \A z \in {x, y} : (\A w \in {x, y} : z <= w) <=> z = IF x <= y THEN x ELSE y
  OBVIOUS
<1> QED
  BY <1>1 DEF Min

(* MovedLittle's part about longitudes.                                    *)
Moved(lon0, lon1, nl, scale) ==
  LET off == (lon0 - lon1) % LonCircle
  IN  nl > 1 => Min({off, LonCircle - off}) <= (30 * scale * Res - 60 * scale * nl) \div (nl * (nl - 1))

(* Longitudes as MovedLittle has them are apart as LonDifference asks.     *)
LEMMA MovedIs ==
  ASSUME NEW lon0 \in Int, NEW lon1 \in Int, NEW nl \in Nat, nl >= 1, nl <= 59, NEW scale \in Nat, NEW n1 \in Nat,
         OneLess(n1, nl), Moved(lon0, lon1, nl, scale)
  PROVE  \E k \in Int, d \in Int : Apart(lon0, lon1, nl, n1, scale, k, d)
<1> USE DEF Apart, OneLess
<1>1. PICK x \in Int : x = lon0 - lon1
  OBVIOUS
<1>2. PICK q \in Int, off \in Int : q = x \div LonCircle /\ off = x % LonCircle /\ x = LonCircle * q + off
                                    /\ 0 <= off /\ off < LonCircle
  BY Sizes
<1>3. PICK s \in Int : s = Min({off, LonCircle - off}) /\ s = IF off <= LonCircle - off THEN off ELSE LonCircle - off
  <2>1. LonCircle - off \in Int
    BY Sizes
  <2>2. Min({off, LonCircle - off}) = IF off <= LonCircle - off THEN off ELSE LonCircle - off
    BY <2>1, LeastOfTwo
  <2> QED
    BY <2>1, <2>2
<1>4. PICK e \in Int : e = nl * (nl - 1) /\ e >= 0
  OBVIOUS
<1>5. s * e <= 30 * scale * Res - 60 * scale * nl
  <2>1. PICK c \in Int : c = 30 * scale * Res - 60 * scale * nl
    <3>1. 30 * scale * Res - 60 * scale * nl \in Int
      BY Sizes
    <3> QED
      BY <3>1, Zenon
  <2>2. CASE nl = 1
    <3>1. e = 0 /\ s * e = 0
      BY <2>2, <1>4
    <3>2. c >= 0
      BY <2>1, <2>2, Sizes
    <3> QED
      BY <2>1, <3>1, <3>2
  <2>3. CASE nl > 1
    <3>1. e > 0
      BY <2>3, <1>4
    <3>2. s <= c \div e
      BY <1>1, <1>2, <1>3, <1>4, <2>1, <2>3 DEF Moved
    <3> QED
      BY <3>1, <3>2, <2>1, BelowQuotient
  <2> QED
    BY <2>2, <2>3
<1>6. s * e >= 0
  BY <1>2, <1>3, <1>4, Sizes
<1>7. PICK B \in Int : B = 30 * scale * Res - 60 * scale * nl
  <2>1. 30 * scale * Res - 60 * scale * nl \in Int
    BY Sizes
  <2> QED
    BY <2>1, Zenon
<1>8. CASE off <= LonCircle - off
  <2>1. x = off + LonCircle * q
    BY <1>2, Sizes
  <2>2. off * e <= B /\ -(off * e) <= B
    BY <1>8, <1>3, <1>5, <1>6, <1>7
  <2> QED
    BY <2>1, <2>2, <1>1, <1>4, <1>7
<1>9. CASE ~(off <= LonCircle - off)
  <2>1. PICK d \in Int : d = off - LonCircle
    BY Sizes
  <2>2. q + 1 \in Int /\ x = d + LonCircle * (q + 1)
    BY <1>2, <2>1, Sizes
  <2>3. d * e = -(s * e)
    <3>1. d = -s
      BY <1>9, <1>3, <2>1, Sizes
    <3> QED
      BY <3>1
  <2>4. d * e <= B /\ -(d * e) <= B
    <3>1. PICK y \in Int : y = s * e
      OBVIOUS
    <3> QED
      BY <3>1, <2>3, <1>5, <1>6, <1>7
  <2> QED
    BY <2>2, <2>4, <1>1, <1>4, <1>7
<1> QED
  BY <1>8, <1>9

(* The longitude of a frame is the one it encodes, but for whole turns of  *)
(* its zones.                                                              *)
Zoned(lat, nl) == cpr_nl(lat) = nl

(* The encoded latitude of a place is in the band of nl zones.             *)
Band(p, fflag, scale, nl) == Zoned(Encoded(p[1], fflag, scale), nl)

(* The longitude from two frames is the code of the last one's place but   *)
(* for whole circles.                                                      *)
LEMMA LonOfIs ==
  ASSUME NEW p, NEW q, p[1] \in Int, p[2] \in Int, q[1] \in Int, q[2] \in Int, NEW scale \in {1, 4},
         NEW nl \in Nat, nl >= 1, nl <= 59, Band(p, 0, scale, nl), Band(q, 1, scale, nl),
         Moved(p[2], q[2], nl, scale),
         NEW fflag \in {0, 1}, NEW lat \in Int, Zoned(lat, nl),
         NEW even, NEW odd, even[2] = XZ(p, 0, scale) % Res, odd[2] = XZ(q, 1, scale) % Res
  PROVE  \E code \in Int, i \in Int :
           /\ LonCoded(cpr_n_func(lat, fflag) * (IF fflag = 0 THEN p ELSE q)[2], scale, code)
           /\ LonOf(even, odd, fflag, lat, scale) = scale * (code - Res * (cpr_n_func(lat, fflag) * i))
<1>1. PICK c0 \in Int : LonCoded(nl * p[2], scale, c0) /\ XZ(p, 0, scale) % Res = c0 % Res
  <2>1. cpr_n_func(Encoded(p[1], 0, scale), 0) = nl
    BY EncodedIs, Zones DEF Band, Zoned
  <2> QED
    BY <2>1, LonCodeExists
<1>2. PICK n1 \in Nat : n1 >= 1 /\ n1 <= 59 /\ n1 = IF nl = 1 THEN 1 ELSE nl - 1
  OBVIOUS
<1>3. PICK c1 \in Int : LonCoded(n1 * q[2], scale, c1) /\ XZ(q, 1, scale) % Res = c1 % Res
  <2>1. cpr_n_func(Encoded(q[1], 1, scale), 1) = n1
    BY <1>2, EncodedIs, Zones DEF Band, Zoned
  <2> QED
    BY <2>1, LonCodeExists
<1>4. cpr_n_func(lat, fflag) = IF fflag = 0 THEN nl ELSE n1
  BY <1>2, Zones DEF Zoned
<1> DEFINE m == (even[2] * (nl - 1) - odd[2] * nl + Res \div 2) \div Res
<1>5. PICK p0 \in Int, y0 \in Int : p0 = c0 \div Res /\ y0 = c0 % Res /\ c0 = Res * p0 + y0
  BY Sizes
<1>6. PICK p1 \in Int, y1 \in Int : p1 = c1 \div Res /\ y1 = c1 % Res /\ c1 = Res * p1 + y1
  BY Sizes
<1>7. m % nl = p0 % nl /\ m % n1 = p1 % n1
  <2>0. m = (y0 * (nl - 1) - y1 * nl + Res \div 2) \div Res
    BY <1>1, <1>3, <1>5, <1>6
  <2>1. CASE nl = 1
    <3>1. PICK z \in Int : z = m
      <4>1. (y0 * (nl - 1) - y1 * nl + Res \div 2) \div Res \in Int
        BY Sizes
      <4> QED
        BY <2>0, <4>1, Zenon
    <3>2. z % 1 = 0 /\ p0 % 1 = 0 /\ p1 % 1 = 0
      OBVIOUS
    <3> QED
      BY <3>1, <3>2, <2>1, <1>2
  <2>2. CASE nl # 1
    <3>0. PICK x \in Int : x = p[2]
      OBVIOUS
    <3>00. PICK y \in Int : y = q[2]
      OBVIOUS
    <3>2. n1 = nl - 1 /\ n1 # 0
      BY <2>2, <1>2
    <3>20. OneLess(n1, nl) /\ scale \in Nat
      BY <3>2 DEF OneLess
    <3>1. PICK k \in Int, d \in Int : Apart(x, y, nl, n1, scale, k, d)
      <4>1. Moved(x, y, nl, scale)
        BY <3>0, <3>00
      <4> HIDE DEF m
      <4> QED
        BY <4>1, <3>20, <1>2, MovedIs
    <3>10. LonCoded(nl * x, scale, c0) /\ LonCoded(n1 * y, scale, c1)
      BY <3>0, <3>00, <1>1, <1>3
    <3>3. PICK h \in Int : Remains(c0, c1, nl, n1, h)
      BY <3>1, <3>20, <3>10, LonDifference
    <3>6. m = LonIndex(c0, c1, nl, n1)
      BY <3>2, <2>0, <1>5, <1>6 DEF LonIndex
    <3>7. /\ LonIndex(c0, c1, nl, n1) % nl = (c0 \div Res) % nl
          /\ n1 # 0 => LonIndex(c0, c1, nl, n1) % n1 = (c1 \div Res) % n1
      <4>1. IndexFits(c0, c1, nl, n1)
        BY <3>20, <3>3, LonIndexIs
      <4> QED
        BY <4>1 DEF IndexFits
    <3> HIDE DEF m
    <3> QED
      BY <3>2, <3>6, <3>7, <1>5, <1>6
  <2> QED
    BY <2>1, <2>2
<1>8. LonOf(even, odd, fflag, lat, scale) = scale * (Res * (m % cpr_n_func(lat, fflag)) + (IF fflag = 0 THEN even ELSE odd)[2])
  BY DEF LonOf, Zoned
<1> HIDE DEF m
<1>9. PICK n \in Nat, c \in Int, z \in Int, y \in Int :
        /\ n > 0 /\ n = cpr_n_func(lat, fflag) /\ LonCoded(n * (IF fflag = 0 THEN p ELSE q)[2], scale, c)
        /\ c = Res * z + y /\ m % n = z % n /\ (IF fflag = 0 THEN even ELSE odd)[2] = y
  <2>1. CASE fflag = 0
    <3>1. /\ nl > 0 /\ nl = cpr_n_func(lat, fflag) /\ LonCoded(nl * (IF fflag = 0 THEN p ELSE q)[2], scale, c0)
          /\ c0 = Res * p0 + y0 /\ m % nl = p0 % nl /\ (IF fflag = 0 THEN even ELSE odd)[2] = y0
      BY <2>1, <1>1, <1>4, <1>5, <1>7
    <3> QED
      BY <3>1, Zenon
  <2>2. CASE fflag = 1
    <3>1. /\ n1 > 0 /\ n1 = cpr_n_func(lat, fflag) /\ LonCoded(n1 * (IF fflag = 0 THEN p ELSE q)[2], scale, c1)
          /\ c1 = Res * p1 + y1 /\ m % n1 = p1 % n1 /\ (IF fflag = 0 THEN even ELSE odd)[2] = y1
      BY <2>2, <1>2, <1>3, <1>4, <1>6, <1>7
    <3> QED
      BY <3>1, Zenon
  <2> QED
    BY <2>1, <2>2
<1>10. PICK i \in Int, r \in Int : i = z \div n /\ r = z % n /\ z = n * i + r
  <2>0. n \in Int /\ n > 0
    BY <1>9
  <2>1. z \div n \in Int /\ z % n \in Int /\ z = n * (z \div n) + (z % n)
    BY <2>0, Division
  <2> QED
    BY <2>1
<1>11. Res * r + y = c - Res * (n * i)
  <2>1. PICK x \in Int : x = n * i
    OBVIOUS
  <2> QED
    BY <2>1, <1>9, <1>10, Sizes
<1>12. LonOf(even, odd, fflag, lat, scale) = scale * (c - Res * (n * i))
  BY <1>8, <1>9, <1>10, <1>11
<1> QED
  BY <1>9, <1>10, <1>12

(* A longitude changes by whole circles when it is normalized.             *)
LEMMA RenormalizedIs ==
  ASSUME NEW lon \in Int, NEW n \in Nat, n > 0
  PROVE  \E k \in Int : Renormalized(lon, n) = lon + 4 * n * Res * k
<1>1. PICK w \in Int : w = 4 * n * Res /\ w > 0 /\ 2 * w = 2 * (4 * n * Res)
  BY Sizes
<1>2. PICK h \in Int : h = 2 * n * Res
  BY Sizes
<1>3. PICK x \in Int : x = lon + h
  OBVIOUS
<1>4. x \div w \in Int /\ x % w \in Int /\ x = w * (x \div w) + (x % w)
  BY <1>1, Division
<1>5. PICK q \in Int : q = x \div w
  BY <1>4
<1>6. PICK r \in Int : r = x % w /\ x = w * q + r
  BY <1>4, <1>5
<1>7. PICK k \in Int : k = -q
  OBVIOUS
<1>8. Renormalized(lon, n) = r - h
  BY <1>1, <1>2, <1>3, <1>6 DEF Renormalized
<1>9. PICK t \in Int : t = w * q /\ w * k = -t
  BY <1>7
<1>11. x = t + r
  BY <1>6, <1>9
<1>10. r - h = lon + w * k
  BY <1>3, <1>11, <1>9
<1> QED
  BY <1>1, <1>8, <1>10

(* Longitudes, counted 60 times, that differ by little and whole circles.  *)
LEMMA OnCircle ==
  ASSUME NEW x \in Int, NEW e \in Int, NEW k \in Int, NEW circle \in Int, NEW d \in Nat,
         x = e + circle * k, d < circle, e <= d, -d <= e
  PROVE  x % circle <= d \/ x % circle >= circle - d
<1>1. CASE e >= 0
  BY <1>1, DivisionIs
<1>2. CASE e < 0
  <2>1. PICK r \in Int : r = e + circle
    OBVIOUS
  <2>2. PICK j \in Int : j = k - 1
    OBVIOUS
  <2>3. x = circle * j + r
    <3>1. circle * j = circle * k - circle
      BY <2>2
    <3> QED
      BY <3>1, <2>1
  <2>4. x % circle = r
    BY <2>1, <2>3, <1>2, DivisionIs
  <2> QED
    BY <2>1, <2>4
<1> QED
  BY <1>1, <1>2

(* IsAt's part about longitudes.                                           *)
LonIsAt(lon, zones, p2, scale) ==
  LET circle == 240 * zones * Res
      off    == (60 * lon - zones * p2) % circle
  IN  off <= 30 * scale \/ off >= circle - 30 * scale

(* A code of a longitude, but for whole circles, is where it is.           *)
LEMMA LonIs ==
  ASSUME NEW n \in Nat, n > 0, NEW p2 \in Int, NEW scale \in {1, 4}, NEW code \in Int, NEW k \in Int,
         LonCoded(n * p2, scale, code), NEW lon \in Int, lon = scale * code + 4 * n * Res * k
  PROVE  LonIsAt(lon, n, p2, scale)
<1>1. PICK v \in Int : v = n * p2
  OBVIOUS
<1>2. PICK e \in Int : e = 60 * scale * code - v
  <2>1. 60 * scale * code - v \in Int
    OBVIOUS
  <2> QED
    BY <2>1, Zenon
<1>3. e <= 30 * scale /\ -(30 * scale) <= e
  <2>1. CASE scale = 1
    BY <2>1, <1>1, <1>2 DEF LonCoded
  <2>2. CASE scale = 4
    BY <2>2, <1>1, <1>2 DEF LonCoded
  <2> QED
    BY <2>1, <2>2
<1>4. PICK circle \in Int : circle = 240 * n * Res
  BY Sizes
<1>5. circle > 120
  BY <1>4, Sizes
<1>6. PICK x \in Int : x = 60 * lon - v
  OBVIOUS
<1>7. x = e + circle * k
  <2>1. PICK y \in Int : y = n * k
    OBVIOUS
  <2>2. circle * k = 240 * (Res * y)
    BY <1>4, <2>1, Sizes
  <2>3. 4 * n * Res * k = 4 * (Res * y)
    BY <2>1, Sizes
  <2>4. 60 * lon = 60 * scale * code + 240 * (Res * y)
    <3>1. PICK z \in Int : z = scale * code
      OBVIOUS
    <3>2. 60 * scale * code = 60 * z
      BY <3>1
    <3> QED
      BY <2>3, <3>1, <3>2, Sizes
  <2> QED
    BY <1>2, <1>6, <2>2, <2>4, Sizes
<1>8. PICK d \in Nat : d = 30 * scale /\ d <= 120
  OBVIOUS
<1>9. x % circle <= d \/ x % circle >= circle - d
  BY <1>3, <1>5, <1>7, <1>8, OnCircle
<1> QED
  BY <1>1, <1>4, <1>6, <1>8, <1>9 DEF LonIsAt

(* A latitude up to the poles, and a longitude.                            *)
Place(p) == p[1] \in Int /\ p[2] \in Int /\ InRange(p[1])

(* The frames of two places that decode to the latitudes they encode, and  *)
(* to a longitude as the latitude's zones have it.                         *)
LEMMA FixIs ==
  ASSUME NEW lat \in Int, NEW n \in Nat, n > 0, NEW scale \in {1, 4}, NEW fflag \in {0, 1},
         NEW p, p[1] \in Int, p[2] \in Int, lat = Encoded(p[1], fflag, scale),
         NEW lon, LonIsAt(lon, n, p[2], scale)
  PROVE  LET fix == [lat |-> lat, zones |-> n, lon |-> lon]
         IN  fix # None /\ IsAt(fix, p, scale)
<1> DEFINE fix == [lat |-> lat, zones |-> n, lon |-> lon]
<1>1. fix.lat = lat /\ fix.zones = n /\ fix.lon = lon
  OBVIOUS
<1> HIDE DEF fix
<1>2. fix # None
  <2>1. None.zones = 0
    BY DEF None
  <2> QED
    BY <1>1, <2>1
<1>3. Magnitude(lat - p[1]) <= 30 * scale
  <2>1. PICK x \in Int : x = p[1]
    OBVIOUS
  <2>2. PICK e \in Int : e = Encoded(x, fflag, scale) /\ e - x <= 30 * scale /\ x - e <= 30 * scale
    BY EncodedIs
  <2>3. Magnitude(e - x) <= 30 * scale
    BY <2>2 DEF Magnitude
  <2> QED
    BY <2>1, <2>2, <2>3
<1>4. IsAt(fix, p, scale)
  <2>1. LonIsAt(fix.lon, fix.zones, p[2], scale)
    BY <1>1
  <2> QED
    BY <1>1, <1>3, <2>1 DEF IsAt, LonIsAt
<1> QED
  BY <1>2, <1>4 DEF fix

(* Of two airborne frames whose places are close, the decoder gives the    *)
(* place of the last one, and nothing when the places are in different     *)
(* bands.                                                                  *)
LEMMA AirborneDecodeIs ==
  ASSUME NEW p, NEW q, Place(p), Place(q), NEW fflag \in {0, 1},
         NEW even, NEW odd, even = Frame(p, 0, 4), odd = Frame(q, 1, 4), ~(even = <<0, 0>> /\ odd = <<0, 0>>),
         Close(p[1], q[1], 4 * (Res \div 2 - 60)),
         Moved(p[2], q[2], cpr_nl(Encoded((IF fflag = 0 THEN p ELSE q)[1], fflag, 4)), 4)
  PROVE  LET fix == decode_cpr_airborne(even, odd, fflag)
         IN  IF cpr_nl(Encoded(p[1], 0, 4)) = cpr_nl(Encoded(q[1], 1, 4))
             THEN fix # None /\ IsAt(fix, IF fflag = 0 THEN p ELSE q, 4)
             ELSE fix = None
<1> DEFINE last == IF fflag = 0 THEN p ELSE q
           lat(f) == Normalized(LatOf(even, odd, f, 4))
<1>1. even[1] = YZ(p[1], 0, 4) % Res /\ even[2] = XZ(p, 0, 4) % Res
  BY DEF Frame
<1>2. odd[1] = YZ(q[1], 1, 4) % Res /\ odd[2] = XZ(q, 1, 4) % Res
  BY DEF Frame
<1>3. lat(0) = Encoded(p[1], 0, 4) /\ lat(1) = Encoded(q[1], 1, 4)
  BY <1>1, <1>2, AirborneLatIs DEF Place
<1>4. InRange(lat(0)) /\ InRange(lat(1)) /\ lat(0) \in Int /\ lat(1) \in Int
  BY <1>3, EncodedIs DEF Place
<1>5. lat(fflag) = Encoded(last[1], fflag, 4) /\ lat(fflag) \in Int
  BY <1>3, <1>4
<1>6. decode_cpr_airborne(even, odd, fflag) =
        IF cpr_nl(lat(0)) # cpr_nl(lat(1)) THEN None
        ELSE [lat |-> lat(fflag), zones |-> cpr_n_func(lat(fflag), fflag),
              lon |-> Renormalized(LonOf(even, odd, fflag, lat(fflag), 4), cpr_n_func(lat(fflag), fflag))]
  BY <1>4 DEF decode_cpr_airborne
<1>7. ASSUME cpr_nl(lat(0)) = cpr_nl(lat(1))
      PROVE  /\ decode_cpr_airborne(even, odd, fflag) # None
             /\ IsAt(decode_cpr_airborne(even, odd, fflag), last, 4)
  <2> HIDE DEF lat
  <2>1. PICK nl \in Nat : Zoned(lat(fflag), nl) /\ nl >= 1 /\ nl <= 59 /\ cpr_nl(lat(fflag)) = nl
    BY <1>5, ZoneCount DEF Zoned
  <2>2. Band(p, 0, 4, nl) /\ Band(q, 1, 4, nl)
    BY <2>1, <1>3, <1>7 DEF Band, Zoned
  <2>3. Moved(p[2], q[2], nl, 4)
    BY <2>1, <1>5
  <2>4. PICK n \in Nat : n > 0 /\ n = cpr_n_func(lat(fflag), fflag)
    BY <1>5, Zones
  <2>5. PICK code \in Int, i \in Int :
          /\ LonCoded(cpr_n_func(lat(fflag), fflag) * (IF fflag = 0 THEN p ELSE q)[2], 4, code)
          /\ LonOf(even, odd, fflag, lat(fflag), 4) = 4 * (code - Res * (cpr_n_func(lat(fflag), fflag) * i))
    BY <2>1, <2>2, <2>3, <1>1, <1>2, <1>5, LonOfIs DEF Place
  <2>6. PICK v \in Int : v = last[2]
    BY DEF Place
  <2>7. PICK l \in Int : l = LonOf(even, odd, fflag, lat(fflag), 4) /\ l = 4 * (code - Res * (n * i))
    BY <2>4, <2>5, Sizes
  <2>8. PICK k \in Int : Renormalized(l, n) = l + 4 * n * Res * k
    BY <2>4, RenormalizedIs
  <2>9. LonIsAt(Renormalized(l, n), n, v, 4)
    <3>1. PICK h \in Int : h = k - i
      OBVIOUS
    <3>2. PICK x \in Int : x = Renormalized(l, n) /\ x = 4 * code + 4 * n * Res * h
      <4>1. PICK a \in Int : a = n * i
        OBVIOUS
      <4>2. PICK b \in Int : b = n * k
        OBVIOUS
      <4>3. 4 * n * Res * h = 4 * Res * b - 4 * Res * a
        BY <3>1, <4>1, <4>2, Sizes
      <4>4. 4 * n * Res * k = 4 * Res * b
        BY <4>2, Sizes
      <4> QED
        BY <4>1, <4>3, <4>4, <2>7, <2>8, Sizes
    <3>3. LonCoded(n * v, 4, code)
      BY <2>4, <2>5, <2>6
    <3> QED
      BY <3>2, <3>3, <2>4, LonIs
  <2>10. last[1] \in Int /\ last[2] \in Int
    BY DEF Place
  <2> HIDE DEF last
  <2> QED
    BY <2>4, <2>6, <2>7, <2>9, <2>10, <1>5, <1>6, <1>7, FixIs
<1> QED
  BY <1>3, <1>6, <1>7

(* 44 degrees of longitude, and what the rounding of a degree adds.        *)
Within44 == LonCircle - (LonCircle \div 360) * 316

(* A reference is less than that away, but for k whole circles.            *)
Near(p2, ref, k, d) == ref - p2 = d + LonCircle * k /\ d <= Within44 /\ -Within44 <= d

(* A longitude is a code with i quarters of the circle taken off.          *)
Turned(lon, code, n, i) == lon = code - Res * (n * i)

(* The quarter of a longitude is recognised by a reference that is near    *)
(* but for whole circles.                                                  *)
LEMMA QuarterIs ==
  ASSUME NEW n \in Nat, n > 0, NEW p2 \in Int, NEW ref \in Int, NEW code \in Int, NEW i \in Int, NEW k \in Int,
         NEW d \in Int, Near(p2, ref, k, d), LonCoded(n * p2, 1, code),
         NEW l \in Int, Turned(l, code, n, i)
  PROVE  LonQuarter(l, n, ref) = code + 4 * n * Res * k
<1> USE DEF Near, Turned
<1>1. PICK w \in Int : w = 60 * n * Res /\ w > 0
  BY Sizes
<1>2. PICK v \in Int : v = n * p2
  OBVIOUS
<1>3. PICK e \in Int : e = 60 * code - v /\ e <= 30 /\ -30 <= e
  <2>1. 60 * code - v \in Int /\ 60 * code - v <= 30 /\ -30 <= 60 * code - v
    BY <1>2 DEF LonCoded
  <2> QED
    BY <2>1, Zenon
<1>4. PICK a \in Int : a = n * d
  OBVIOUS
<1>5. PICK m \in Int : m = Within44 * n /\ a <= m /\ -m <= a
  BY <1>4, Sizes DEF Within44
<1>6. PICK t \in Int : t = a - e + 30 * n * Res /\ 0 <= t /\ t < w
  <2>1. a - e + 30 * n * Res \in Int
    BY Sizes
  <2>2. 0 <= a - e + 30 * n * Res /\ a - e + 30 * n * Res < w
    BY <1>1, <1>3, <1>5, Sizes DEF Within44
  <2> QED
    BY <2>1, <2>2, Zenon
<1>7. PICK j \in Int : j = 4 * k + i
  OBVIOUS
<1>8. PICK nk \in Int : nk = n * k
  OBVIOUS
<1>9. PICK ni \in Int : ni = n * i
  OBVIOUS
<1>10. w * j = 240 * Res * nk + 60 * Res * ni
  BY <1>1, <1>7, <1>8, <1>9, Sizes
<1>11. ref * n = v + a + 240 * Res * nk
  <2>1. ref = p2 + d + LonCircle * k
    BY Sizes
  <2>2. (p2 + d + LonCircle * k) * n = n * p2 + n * d + LonCircle * (n * k)
    BY Sizes
  <2>3. ref * n = n * p2 + n * d + LonCircle * (n * k)
    BY ONLY <2>1, <2>2
  <2> QED
    BY <2>3, <1>2, <1>4, <1>8, Sizes
<1>12. PICK x \in Int : x = ref * n - 60 * l + 30 * n * Res
  <2>1. ref * n - 60 * l + 30 * n * Res \in Int
    BY Sizes
  <2> QED
    BY <2>1, Zenon
<1>13. x = w * j + t
  <2>1. 60 * l = 60 * code - 60 * Res * ni
    BY <1>9, Sizes
  <2>2. 60 * l \in Int
    OBVIOUS
  <2> QED
    BY <2>1, <2>2, <1>3, <1>6, <1>10, <1>11, <1>12, Sizes
<1>14. x \div w = j
  <2>1. w > 0 /\ 0 <= t /\ t < w
    BY <1>1, <1>6
  <2> QED
    BY <2>1, <1>13, DivisionIs
<1>15. LonQuarter(l, n, ref) = l + n * Res * j
  BY <1>1, <1>12, <1>14 DEF LonQuarter
<1>16. n * Res * j = 4 * Res * nk + Res * ni
  BY <1>7, <1>8, <1>9, Sizes
<1>17. 4 * n * Res * k = 4 * Res * nk
  BY <1>8, Sizes
<1>18. l = code - Res * ni
  BY <1>9
<1> QED
  BY <1>15, <1>16, <1>17, <1>18, Sizes

(* What is less than 44 degrees from the reference, or nearly so.          *)
Beside(p2, ref) ==
  LET off == (p2 - ref) % LonCircle
  IN  off < (LonCircle \div 360) * 44 \/ off > (LonCircle \div 360) * 316

(* Longitudes beside each other are near each other.                       *)
LEMMA NearIs ==
  ASSUME NEW p2 \in Int, NEW ref \in Int, Beside(p2, ref)
  PROVE  \E k \in Int, d \in Int : Near(p2, ref, k, d)
<1> USE DEF Near, Beside
<1>1. PICK x \in Int : x = p2 - ref
  OBVIOUS
<1>2. PICK q \in Int, off \in Int : q = x \div LonCircle /\ off = x % LonCircle /\ x = LonCircle * q + off
                                    /\ 0 <= off /\ off < LonCircle
  BY Sizes
<1>3. CASE off < (LonCircle \div 360) * 44
  <2>1. PICK d \in Int : d = -off
    OBVIOUS
  <2>2. PICK k \in Int : k = -q
    OBVIOUS
  <2>3. ref - p2 = d + LonCircle * k /\ d <= Within44 /\ -Within44 <= d
    BY <2>1, <2>2, <1>1, <1>2, <1>3, Sizes DEF Within44
  <2> QED
    BY <2>3
<1>4. CASE off > (LonCircle \div 360) * 316
  <2>1. PICK d \in Int : d = LonCircle - off
    BY Sizes
  <2>2. PICK k \in Int : k = -q - 1
    OBVIOUS
  <2>3. ref - p2 = d + LonCircle * k /\ d <= Within44 /\ -Within44 <= d
    BY <2>1, <2>2, <1>1, <1>2, <1>4, Sizes DEF Within44
  <2> QED
    BY <2>3
<1> QED
  BY <1>1, <1>2, <1>3, <1>4, Sizes

(* The reference is near the latitude of one of the two frames.            *)
OneNear(a, b, r) == Close(a, r, (Quarter \div 90) * 44) \/ Close(b, r, (Quarter \div 90) * 44)

(* Then both latitudes are decoded as they were encoded, for the frames    *)
(* are close to each other.                                                *)
LEMMA SurfaceLats ==
  ASSUME NEW a \in Int, NEW b \in Int, NEW r \in Int, Close(a, b, Res \div 2 - 60), InRange(a), InRange(b),
         NEW even, NEW odd, Latitudes(a, b, even, odd),
         OneNear(a, b, r)
  PROVE  /\ LatQuarter(LatOf(even, odd, 0, 1), r) = Encoded(a, 0, 1)
         /\ LatQuarter(LatOf(even, odd, 1, 1), r) = Encoded(b, 1, 1)
<1>1. PICK ea \in Int : ea = Encoded(a, 0, 1) /\ ea - a <= 30 /\ a - ea <= 30
  <2>1. PICK e \in Int : e = Encoded(a, 0, 1) /\ e - a <= 30 * 1 /\ a - e <= 30 * 1
    BY EncodedIs
  <2> QED
    BY <2>1
<1>2. PICK eb \in Int : eb = Encoded(b, 1, 1) /\ eb - b <= 30 /\ b - eb <= 30
  <2>1. PICK e \in Int : e = Encoded(b, 1, 1) /\ e - b <= 30 * 1 /\ b - e <= 30 * 1
    BY EncodedIs
  <2> QED
    BY <2>1
<1>3. Close(ea, r, Quarter \div 2 - 1) /\ Close(eb, r, Quarter \div 2 - 1)
  BY <1>1, <1>2, Sizes DEF Close, OneNear
<1>4. LatQuarter(LatOf(even, odd, 0, 1), r) = Encoded(a, 0, 1)
  <2>1. Close(Encoded(IF 0 = 0 THEN a ELSE b, 0, 1), r, Quarter \div 2 - 1)
    BY <1>1, <1>3
  <2> QED
    BY <2>1, SurfaceLatIs
<1>5. LatQuarter(LatOf(even, odd, 1, 1), r) = Encoded(b, 1, 1)
  <2>1. Close(Encoded(IF 1 = 0 THEN a ELSE b, 1, 1), r, Quarter \div 2 - 1)
    BY <1>2, <1>3
  <2>2. Close(Encoded(IF 0 = 0 THEN a ELSE b, 0, 1), r, Quarter \div 2 - 1)
    BY <1>1, <1>3
  <2> QED
    BY <2>1, <2>2, SurfaceLatIs
<1> QED
  BY <1>4, <1>5

(* Of two surface frames whose places are close and in one band, the       *)
(* decoder gives the place of the last one if the reference is less than   *)
(* 44 degrees from it.                                                     *)
LEMMA SurfaceDecodeIs ==
  ASSUME NEW p, NEW q, Place(p), Place(q), NEW ref, ref[1] \in Int, ref[2] \in Int, NEW fflag \in {0, 1},
         Close(p[1], q[1], Res \div 2 - 60),
         Moved(p[2], q[2], cpr_nl(Encoded((IF fflag = 0 THEN p ELSE q)[1], fflag, 1)), 1),
         cpr_nl(Encoded(p[1], 0, 1)) = cpr_nl(Encoded(q[1], 1, 1)),
         Close((IF fflag = 0 THEN p ELSE q)[1], ref[1], (Quarter \div 90) * 44),
         Beside((IF fflag = 0 THEN p ELSE q)[2], ref[2])
  PROVE  LET fix == decode_cpr_surface(ref, Frame(p, 0, 1), Frame(q, 1, 1), fflag)
         IN  fix # None /\ IsAt(fix, IF fflag = 0 THEN p ELSE q, 1)
<1> DEFINE last == IF fflag = 0 THEN p ELSE q
           even == Frame(p, 0, 1)
           odd == Frame(q, 1, 1)
           lat(f) == LatQuarter(LatOf(even, odd, f, 1), ref[1])
<1>1. even[1] = YZ(p[1], 0, 1) % Res /\ even[2] = XZ(p, 0, 1) % Res
  BY DEF Frame
<1>2. odd[1] = YZ(q[1], 1, 1) % Res /\ odd[2] = XZ(q, 1, 1) % Res
  BY DEF Frame
<1> HIDE DEF even, odd
<1>3. lat(0) = Encoded(p[1], 0, 1) /\ lat(1) = Encoded(q[1], 1, 1)
  <2>1. PICK a \in Int : a = p[1]
    BY DEF Place
  <2>2. PICK b \in Int : b = q[1]
    BY DEF Place
  <2>3. PICK r \in Int : r = ref[1]
    OBVIOUS
  <2>4. Latitudes(a, b, even, odd)
    BY <2>1, <2>2, <1>1, <1>2 DEF Latitudes
  <2>5. OneNear(a, b, r)
    BY <2>1, <2>2, <2>3 DEF OneNear
  <2>6. Close(a, b, Res \div 2 - 60) /\ InRange(a) /\ InRange(b)
    BY <2>1, <2>2 DEF Place
  <2>7. LatQuarter(LatOf(even, odd, 0, 1), r) = Encoded(a, 0, 1) /\ LatQuarter(LatOf(even, odd, 1, 1), r) = Encoded(b, 1, 1)
    BY <2>4, <2>5, <2>6, SurfaceLats
  <2> QED
    BY <2>1, <2>2, <2>3, <2>7
<1>4. InRange(lat(0)) /\ InRange(lat(1)) /\ lat(0) \in Int /\ lat(1) \in Int
  BY <1>3, EncodedIs DEF Place
<1>5. lat(fflag) = Encoded(last[1], fflag, 1) /\ lat(fflag) \in Int
  BY <1>3, <1>4
<1> DEFINE n == cpr_n_func(lat(fflag), fflag)
           lon == Renormalized(LonQuarter(LonOf(even, odd, fflag, lat(fflag), 1), n, ref[2]), n)
<1>6. decode_cpr_surface(ref, even, odd, fflag) = [lat |-> lat(fflag), zones |-> n, lon |-> lon]
  BY <1>3, <1>4 DEF decode_cpr_surface
<1>7. n \in Nat /\ n > 0
  BY <1>5, Zones
<1>8. LonIsAt(lon, n, last[2], 1)
  <2> HIDE DEF lat, n
  <2>1. PICK nl \in Nat : Zoned(lat(fflag), nl) /\ nl >= 1 /\ nl <= 59 /\ cpr_nl(lat(fflag)) = nl
    BY <1>5, ZoneCount DEF Zoned
  <2>2. Band(p, 0, 1, nl) /\ Band(q, 1, 1, nl)
    BY <2>1, <1>5 DEF Band, Zoned
  <2>3. Moved(p[2], q[2], nl, 1)
    BY <2>1, <1>5
  <2>5. PICK code \in Int, i \in Int :
          /\ LonCoded(cpr_n_func(lat(fflag), fflag) * (IF fflag = 0 THEN p ELSE q)[2], 1, code)
          /\ LonOf(even, odd, fflag, lat(fflag), 1) = 1 * (code - Res * (cpr_n_func(lat(fflag), fflag) * i))
    BY <2>1, <2>2, <2>3, <1>1, <1>2, <1>5, LonOfIs DEF Place
  <2>6. PICK v \in Int : v = last[2]
    BY DEF Place
  <2>7. PICK l \in Int : l = LonOf(even, odd, fflag, lat(fflag), 1) /\ Turned(l, code, n, i)
    <3>1. code - Res * (n * i) \in Int
      BY <1>7, Sizes
    <3>2. 1 * (code - Res * (n * i)) = code - Res * (n * i)
      BY <3>1
    <3> QED
      BY <2>5, <3>1, <3>2 DEF n, Turned
  <2>8. LonCoded(n * v, 1, code)
    BY <2>5, <2>6 DEF n
  <2>9. PICK r \in Int : r = ref[2]
    OBVIOUS
  <2>10. PICK k \in Int, d \in Int : Near(v, r, k, d)
    BY <2>6, <2>9, NearIs
  <2>11. LonQuarter(l, n, r) = code + 4 * n * Res * k
    BY <2>7, <2>8, <2>10, <1>7, QuarterIs
  <2>12. PICK m \in Int : m = LonQuarter(l, n, r)
    BY <2>11, <1>7, Sizes
  <2>13. PICK h \in Int : Renormalized(m, n) = m + 4 * n * Res * h
    BY <1>7, RenormalizedIs
  <2>14. PICK j \in Int : j = k + h
    OBVIOUS
  <2>15. PICK x \in Int : x = Renormalized(m, n) /\ x = 1 * code + 4 * n * Res * j
    <3>1. PICK a \in Int : a = n * k
      BY <1>7
    <3>2. PICK b \in Int : b = n * h
      BY <1>7
    <3>3. 4 * n * Res * j = 4 * Res * a + 4 * Res * b
      BY <2>14, <3>1, <3>2, <1>7, Sizes
    <3>4. 4 * n * Res * k = 4 * Res * a /\ 4 * n * Res * h = 4 * Res * b
      BY <3>1, <3>2, <1>7, Sizes
    <3> QED
      BY <3>3, <3>4, <2>11, <2>12, <2>13, Sizes
  <2>16. LonIsAt(x, n, v, 1)
    BY <2>15, <2>8, <1>7, LonIs
  <2> QED
    BY <2>6, <2>7, <2>9, <2>12, <2>15, <2>16
<1>9. last[1] \in Int /\ last[2] \in Int
  BY DEF Place
<1> HIDE DEF last, n, lon
<1>10. /\ [lat |-> lat(fflag), zones |-> n, lon |-> lon] # None
       /\ IsAt([lat |-> lat(fflag), zones |-> n, lon |-> lon], last, 1)
  BY <1>5, <1>7, <1>8, <1>9, FixIs
<1> QED
  BY <1>6, <1>10 DEF last, even, odd

(* A zone is the nearest one.                                              *)
LEMMA NearestZoneIs ==
  ASSUME NEW ref \in Int, NEW offset \in Int, NEW w \in Int, w > 0, NEW q \in Int, NEW t \in Int,
         t = 2 * ref + w - 2 * (w * q + offset), 0 <= t, t < 2 * w
  PROVE  NearestZone(ref, offset, w) = q
<1>1. ref \div w \in Int /\ ref % w \in Int /\ ref = w * (ref \div w) + (ref % w)
  BY Division
<1>2. PICK a \in Int : a = ref \div w
  BY <1>1
<1>3. PICK r \in Int : r = ref % w /\ ref = w * a + r
  BY <1>1, <1>2
<1>4. PICK j \in Int : j = q - a
  OBVIOUS
<1>5. PICK x \in Int : x = 2 * r + w - 2 * offset
  OBVIOUS
<1>6. x = (2 * w) * j + t
  <2>1. (2 * w) * j = 2 * (w * q) - 2 * (w * a)
    BY <1>4
  <2>2. PICK y \in Int : y = w * q
    OBVIOUS
  <2>3. PICK z \in Int : z = w * a
    OBVIOUS
  <2> QED
    BY <2>1, <2>2, <2>3, <1>3, <1>5
<1>7. x \div (2 * w) = j
  <2>1. PICK d \in Int : d = 2 * w /\ d > 0
    OBVIOUS
  <2>2. x = d * j + t /\ 0 <= t /\ t < d
    BY <2>1, <1>6
  <2> QED
    BY <2>1, <2>2, DivisionIs
<1> QED
  BY <1>2, <1>3, <1>4, <1>5, <1>7 DEF NearestZone

(* The latitude of a single frame is the encoded one nearest the           *)
(* reference.                                                              *)
LEMMA RelativeLatIs ==
  ASSUME NEW lat \in Int, NEW ref \in Int, InRange(lat), NEW fflag \in {0, 1}, NEW frame,
         frame[1] = YZ(lat, fflag, 4) % Res, NEW r, r[1] = ref,
         Magnitude(lat - ref) < (LatStep(fflag, 4) * Res) \div 2 - 120
  PROVE  /\ RelativeLat(r, frame, fflag, 4) = Encoded(lat, fflag, 4)
         /\ ~(2 * Magnitude(Encoded(lat, fflag, 4) - ref) > LatStep(fflag, 4) * Res)
<1>1. PICK step \in Int : step = LatStep(fflag, 4) /\ step \in {236, 240}
  BY Steps
<1>2. PICK c \in Int : LatCoded(lat, fflag, 4, c)
  BY LatCodeExists
<1>3. PICK e \in Int : /\ e = Encoded(lat, fflag, 4) /\ e - lat <= 30 * 4 /\ lat - e <= 30 * 4 /\ InRange(e)
  BY EncodedIs
<1>4. e = step * c
  BY <1>1, <1>2, <1>3 DEF LatCoded
<1>5. PICK q \in Int : q = c \div Res
  BY Sizes
<1>6. PICK y \in Int : y = c % Res /\ c = Res * q + y
  BY <1>5, Sizes
<1>7. frame[1] = y
  BY <1>2, <1>6 DEF LatCoded
<1>8. PICK w \in Int : w = step * Res /\ w > 0 /\ w \div 2 = (step * Res) \div 2
  BY <1>1, Sizes
<1>9. PICK o \in Int : o = step * y
  BY <1>1
<1>10. e = w * q + o
  BY <1>1, <1>4, <1>6, <1>8, <1>9, Sizes
<1>11. Magnitude(lat - ref) < w \div 2 - 120
  BY <1>1, <1>8
<1>12. lat - ref < w \div 2 - 120 /\ ref - lat < w \div 2 - 120
  BY <1>11, <1>8 DEF Magnitude
<1>13. e - ref < w \div 2 /\ ref - e < w \div 2
  BY <1>3, <1>8, <1>12
<1>14. PICK t \in Int : t = 2 * ref + w - 2 * e /\ 0 <= t /\ t < 2 * w
  <2>1. 0 <= 2 * ref + w - 2 * e /\ 2 * ref + w - 2 * e < 2 * w
    <3>1. 2 * (w \div 2) <= w
      BY <1>8
    <3>2. w \div 2 \in Int
      BY <1>8
    <3> QED
      BY <1>13, <1>8, <3>1, <3>2
  <2> QED
    BY <2>1
<1>15. NearestZone(ref, o, w) = q
  <2>1. t = 2 * ref + w - 2 * (w * q + o) /\ w > 0 /\ 0 <= t /\ t < 2 * w
    BY <1>10, <1>14, <1>8
  <2> QED
    BY <2>1, NearestZoneIs
<1>16. RelativeLat(r, frame, fflag, 4) = Normalized(step * (Res * q + y))
  BY <1>1, <1>7, <1>8, <1>9, <1>15 DEF RelativeLat
<1>17. Normalized(e) = e
  BY <1>3, Sizes DEF Normalized, InRange
<1>18. ~(2 * Magnitude(e - ref) > w)
  <2>1. 2 * (w \div 2) <= w /\ w \div 2 \in Int
    BY <1>8
  <2> QED
    BY <2>1, <1>13, <1>8 DEF Magnitude
<1> QED
  BY <1>1, <1>3, <1>4, <1>6, <1>8, <1>16, <1>17, <1>18

(* So is its longitude.                                                    *)
LEMMA RelativeLonIs ==
  ASSUME NEW n \in Nat, n > 0, n <= 59, NEW lon \in Int, NEW ref \in Int, lon < LonCircle \div 2,
         Magnitude(lon - ref) * n <= 120 * Res - 240,
         NEW code \in Int, LonCoded(n * lon, 4, code), NEW frame, frame[2] = code % Res, NEW r, r[2] = ref
  PROVE  /\ RelativeLon(r, frame, n, 4) = 4 * code
         /\ ~(Magnitude(60 * (4 * code) - n * ref) > 30 * 4 * Res)
<1>1. PICK q \in Int : q = code \div Res
  BY Sizes
<1>2. PICK y \in Int : y = code % Res /\ code = Res * q + y
  BY <1>1, Sizes
<1>3. PICK v \in Int : v = n * lon
  OBVIOUS
<1>4. PICK u \in Int : u = n * ref /\ u = ref * n
  OBVIOUS
<1>5. v - u <= 120 * Res - 240 /\ u - v <= 120 * Res - 240
  <2>1. PICK d \in Int : d = lon - ref
    OBVIOUS
  <2>2. n * d = v - u
    BY <2>1, <1>3, <1>4
  <2>3. CASE d >= 0
    <3>1. Magnitude(d) * n = v - u
      BY <2>2, <2>3 DEF Magnitude
    <3>2. v - u >= 0
      BY <2>2, <2>3
    <3> QED
      BY <3>1, <3>2, <2>1, Sizes
  <2>4. CASE d < 0
    <3>1. Magnitude(d) * n = u - v
      <4>1. Magnitude(d) = -d
        BY <2>4 DEF Magnitude
      <4>2. (-d) * n = -(n * d)
        OBVIOUS
      <4> QED
        BY <4>1, <4>2, <2>2
    <3>2. u - v >= 0
      BY <2>2, <2>4
    <3> QED
      BY <3>1, <3>2, <2>1, Sizes
  <2> QED
    BY <2>3, <2>4
<1>6. 240 * code <= v + 120 /\ v + 120 < 240 * code + 240
  BY <1>3 DEF LonCoded
<1>7. PICK t \in Int : t = 2 * u + 240 * Res - 2 * (240 * code) /\ 0 <= t /\ t < 480 * Res
  <2>1. 2 * u + 240 * Res - 2 * (240 * code) \in Int
    BY Sizes
  <2>2. 0 <= 2 * u + 240 * Res - 2 * (240 * code) /\ 2 * u + 240 * Res - 2 * (240 * code) < 480 * Res
    BY <1>5, <1>6, Sizes
  <2> QED
    BY <2>1, <2>2, Zenon
<1>8. NearestZone(u, 240 * y, 240 * Res) = q
  <2>1. PICK w \in Int : w = 240 * Res /\ w > 0
    BY Sizes
  <2>2. PICK o \in Int : o = 240 * y
    OBVIOUS
  <2>3. t = 2 * u + w - 2 * (w * q + o)
    BY <2>1, <2>2, <1>2, <1>7, Sizes
  <2>4. w > 0 /\ 0 <= t /\ t < 2 * w
    BY <2>1, <1>7, Sizes
  <2>5. NearestZone(u, o, w) = q
    BY <2>3, <2>4, NearestZoneIs
  <2> QED
    BY <2>1, <2>2, <2>5
<1>9. 4 * (Res * NearestZone(r[2] * n, 60 * 4 * frame[2], 60 * 4 * Res) + frame[2]) = 4 * code
  <2>1. frame[2] = y /\ r[2] * n = u
    BY <1>2, <1>4
  <2>2. 60 * 4 * y = 240 * y /\ 60 * 4 * Res = 240 * Res
    BY Sizes
  <2> QED
    BY <2>1, <2>2, <1>2, <1>8
<1>10. ~(4 * code > 2 * n * Res)
  <2>1. lon <= 120 * Res - 1
    BY Sizes
  <2>2. PICK b \in Int : b = n * (120 * Res - 1)
    BY Sizes
  <2>3. v <= b
    BY <2>1, <2>2, <1>3, Sizes
  <2>4. b = 120 * Res * n - n
    BY <2>2, Sizes
  <2> QED
    BY <2>3, <2>4, <1>6, Sizes
<1>11. RelativeLon(r, frame, n, 4) = 4 * code
  BY <1>9, <1>10 DEF RelativeLon
<1>12. ~(Magnitude(60 * (4 * code) - n * ref) > 30 * 4 * Res)
  <2>1. PICK x \in Int : x = 60 * (4 * code) - n * ref
    <3>1. 60 * (4 * code) - n * ref \in Int
      OBVIOUS
    <3> QED
      BY <3>1, Zenon
  <2>2. x <= 120 * Res /\ -x <= 120 * Res
    BY <2>1, <1>4, <1>5, <1>6, Sizes
  <2>3. Magnitude(x) <= 120 * Res
    BY <2>2, Sizes DEF Magnitude
  <2> QED
    BY <2>1, <2>3, Sizes DEF Magnitude
<1> QED
  BY <1>11, <1>12

(* Of one frame whose place is less than half a zone from the reference,   *)
(* the decoder gives the place.                                            *)
LEMMA RelativeDecodeIs ==
  ASSUME NEW p, Place(p), p[2] < LonCircle \div 2, NEW ref, ref[1] \in Int, ref[2] \in Int, NEW fflag \in {0, 1},
         Magnitude(p[1] - ref[1]) < (LatStep(fflag, 4) * Res) \div 2 - 120,
         Magnitude(p[2] - ref[2]) * cpr_n_func(Encoded(p[1], fflag, 4), fflag) <= 120 * Res - 240
  PROVE  LET fix == decode_cpr_relative(ref, Frame(p, fflag, 4), fflag, 4)
         IN  fix # None /\ IsAt(fix, p, 4)
<1> DEFINE frame == Frame(p, fflag, 4)
<1>1. frame[1] = YZ(p[1], fflag, 4) % Res /\ frame[2] = XZ(p, fflag, 4) % Res
  BY DEF Frame
<1> HIDE DEF frame
<1>2. PICK e \in Int : e = Encoded(p[1], fflag, 4) /\ InRange(e)
  BY EncodedIs DEF Place
<1>3. RelativeLat(ref, frame, fflag, 4) = e /\ ~(2 * Magnitude(e - ref[1]) > LatStep(fflag, 4) * Res)
  <2>1. PICK a \in Int : a = p[1]
    BY DEF Place
  <2>2. PICK b \in Int : b = ref[1]
    OBVIOUS
  <2>3. InRange(a) /\ frame[1] = YZ(a, fflag, 4) % Res /\ Magnitude(a - b) < (LatStep(fflag, 4) * Res) \div 2 - 120
    BY <2>1, <2>2, <1>1 DEF Place
  <2>4. /\ RelativeLat(ref, frame, fflag, 4) = Encoded(a, fflag, 4)
        /\ ~(2 * Magnitude(Encoded(a, fflag, 4) - b) > LatStep(fflag, 4) * Res)
    BY <2>2, <2>3, RelativeLatIs
  <2> QED
    BY <2>1, <2>2, <2>4, <1>2
<1>4. PICK n \in Nat : n = cpr_n_func(e, fflag) /\ n > 0 /\ n <= 59
  BY Zones
<1>5. PICK code \in Int : LonCoded(n * p[2], 4, code) /\ XZ(p, fflag, 4) % Res = code % Res
  BY <1>2, <1>4, LonCodeExists DEF Place
<1>6. PICK lon \in Int : lon = RelativeLon(ref, frame, n, 4) /\ lon = 4 * code
                        /\ ~(Magnitude(60 * lon - n * ref[2]) > 30 * 4 * Res)
  <2>1. PICK a \in Int : a = p[2]
    BY DEF Place
  <2>2. PICK b \in Int : b = ref[2]
    OBVIOUS
  <2>3. a < LonCircle \div 2 /\ Magnitude(a - b) * n <= 120 * Res - 240
    BY <2>1, <2>2, <1>2, <1>4
  <2>4. LonCoded(n * a, 4, code) /\ frame[2] = code % Res
    BY <2>1, <1>1, <1>5
  <2>5. /\ RelativeLon(ref, frame, n, 4) = 4 * code
        /\ ~(Magnitude(60 * (4 * code) - n * b) > 30 * 4 * Res)
    BY <2>2, <2>3, <2>4, <1>4, RelativeLonIs
  <2> QED
    BY <2>2, <2>5
<1>7. decode_cpr_relative(ref, frame, fflag, 4) = [lat |-> e, lon |-> lon, zones |-> n]
  BY <1>2, <1>3, <1>4, <1>6 DEF decode_cpr_relative
<1>8. LonIsAt(lon, n, p[2], 4)
  <2>0. PICK k \in Int : k = 0
    OBVIOUS
  <2>1. lon = 4 * code + 4 * n * Res * k
    <3>1. PICK z \in Int : z = 4 * n * Res * k /\ z = 0
      BY <2>0, Sizes
    <3>2. PICK c \in Int : c = 4 * code
      OBVIOUS
    <3>3. lon = c + z
      BY <3>1, <3>2, <1>6
    <3> QED
      BY <3>1, <3>2, <3>3
  <2>2. PICK a \in Int : a = p[2]
    BY DEF Place
  <2>3. LonCoded(n * a, 4, code)
    BY <2>2, <1>5
  <2>4. LonIsAt(lon, n, a, 4)
    BY <2>1, <2>3, <1>4, LonIs
  <2> QED
    BY <2>2, <2>4
<1>9. /\ [lat |-> e, zones |-> n, lon |-> lon] # None
      /\ IsAt([lat |-> e, zones |-> n, lon |-> lon], p, 4)
  BY <1>2, <1>4, <1>8, FixIs DEF Place
<1>10. [lat |-> e, zones |-> n, lon |-> lon] = [lat |-> e, lon |-> lon, zones |-> n]
  OBVIOUS
<1> QED
  BY <1>7, <1>9, <1>10 DEF frame

-----------------------------------------------------------------------------
(* Numbers and their bits: a field that was put is the number that is read.*)

(* The exponents that occur in the fields of a squitter.                   *)
Exp == 0 .. 16

(* An element of a set, that MapThenSumSet takes next.                     *)
Some(s) == CHOOSE x \in s : TRUE

(* Powers of two: each is twice the one before.                            *)
LEMMA Powers ==
  ASSUME NEW x \in Exp
  PROVE  2 ^ x \in Nat /\ 2 ^ x > 0 /\ 2 ^ (x + 1) = 2 * 2 ^ x
<1>1. CASE x = 0 BY <1>1
<1>2. CASE x = 1 BY <1>2
<1>3. CASE x = 2 BY <1>3
<1>4. CASE x = 3 BY <1>4
<1>5. CASE x = 4 BY <1>5
<1>6. CASE x = 5 BY <1>6
<1>7. CASE x = 6 BY <1>7
<1>8. CASE x = 7 BY <1>8
<1>9. CASE x = 8 BY <1>9
<1>10. CASE x = 9 BY <1>10
<1>11. CASE x = 10 BY <1>11
<1>12. CASE x = 11 BY <1>12
<1>13. CASE x = 12 BY <1>13
<1>14. CASE x = 13 BY <1>14
<1>15. CASE x = 14 BY <1>15
<1>16. CASE x = 15 BY <1>16
<1>17. CASE x = 16 BY <1>17
<1> QED
  BY <1>1, <1>2, <1>3, <1>4, <1>5, <1>6, <1>7, <1>8, <1>9, <1>10, <1>11, <1>12, <1>13, <1>14, <1>15, <1>16, <1>17 DEF Exp

(* The sums over the subsets of a set, as MapThenSumSet takes them.        *)
IsSum(g, S) ==
  /\ g \in [SUBSET S -> Nat]
  /\ \A s \in SUBSET S : g[s] = IF s = {} THEN 0 ELSE 2 ^ Some(s) + g[s \ {Some(s)}]

(* Sets of exponents are finite.                                           *)
LEMMA Finite ==
  ASSUME NEW S, S \subseteq Exp
  PROVE  IsFiniteSet(S) /\ Cardinality(S) \in Nat
<1>1. IsFiniteSet(Exp)
  <2>1. 0 \in Int /\ 16 \in Int
    OBVIOUS
  <2> QED
    BY <2>1, FS_Interval DEF Exp
<1>2. IsFiniteSet(S)
  BY <1>1, FS_Subset
<1> QED
  BY <1>2, FS_CardinalityType

(* They get smaller when an element is taken out.                          *)
LEMMA Without ==
  ASSUME NEW S, S \subseteq Exp, NEW x \in S
  PROVE  S \ {x} \subseteq Exp /\ Cardinality(S \ {x}) < Cardinality(S)
<1>1. Cardinality(S \ {x}) = Cardinality(S) - 1
  BY Finite, FS_RemoveElement
<1> QED
  BY <1>1, Finite

(* The number of elements of the subsets of a set.                         *)
Count(S) == [s \in SUBSET S |-> Cardinality(s)]

(* Count is a measure of the subsets of a set.                             *)
LEMMA CountIs == ASSUME NEW S, S \subseteq Exp PROVE Count(S) \in [SUBSET S -> Nat]
<1>1. \A s \in SUBSET S : Cardinality(s) \in Nat
  BY Finite
<1> QED
  BY <1>1 DEF Count

(* Number, a fold over a set in an order that is not known, is a function  *)
(* with the recursion that IsSum states.                                   *)
LEMMA NumberBySteps ==
  ASSUME NEW S, S \subseteq Exp
  PROVE  \E g : IsSum(g, S) /\ Number(S) = g[S]
<1> DEFINE D == SUBSET S
           A == Nat
           iter[s \in SUBSET S] == IF s = {} THEN 0 ELSE LET x == CHOOSE x \in s : TRUE IN 2 ^ x + iter[s \ {x}]
           step(g, s) == IF s = {} THEN 0 ELSE 2 ^ Some(s) + g[s \ {Some(s)}]
           F == [g \in [D -> A] |-> [s \in D |-> step(g, s)]]
           mu == Count(S)
<1>0. ASSUME NEW s \in D, s # {} PROVE Some(s) \in s /\ Some(s) \in Exp /\ s \ {Some(s)} \in D /\
      Cardinality(s \ {Some(s)}) < Cardinality(s)
  <2>1. Some(s) \in s
    BY <1>0 DEF Some
  <2> QED
    BY <2>1, Without
<1>1. F \in [[D -> A] -> [D -> A]]
  <2>1. ASSUME NEW g \in [D -> A], NEW s \in D PROVE step(g, s) \in A
    <3>1. CASE s = {}
      BY <3>1
    <3>2. CASE s # {}
      <4>1. g[s \ {Some(s)}] \in Nat
        BY <1>0, <3>2
      <4>2. 2 ^ Some(s) \in Nat
        BY <1>0, <3>2, Powers
      <4> QED
        BY <4>1, <4>2, <3>2
    <3> QED
      BY <3>1, <3>2
  <2> HIDE DEF step, D, A
  <2> QED
    BY <2>1
<1>2. IsRecursion(D, A, mu, F)
  <2>1. ASSUME NEW g \in [D -> A], NEW h \in [D -> A], NEW d \in D, \A e \in D : mu[e] < mu[d] => g[e] = h[e]
        PROVE  F[g][d] = F[h][d]
    <3>1. d # {} => g[d \ {Some(d)}] = h[d \ {Some(d)}]
      <4> SUFFICES ASSUME d # {} PROVE g[d \ {Some(d)}] = h[d \ {Some(d)}]
        OBVIOUS
      <4>1. d \ {Some(d)} \in D /\ Cardinality(d \ {Some(d)}) < Cardinality(d)
        BY <1>0
      <4>2. mu[d \ {Some(d)}] < mu[d]
        BY <4>1 DEF Count
      <4> QED
        BY <4>1, <4>2, <2>1
    <3>2. step(g, d) = step(h, d)
      BY <3>1
    <3> HIDE DEF step, A, mu, D
    <3> QED
      BY <3>2
  <2>2. mu \in [D -> Nat]
    BY CountIs
  <2> HIDE DEF D, A, mu, F
  <2> QED
    BY <1>1, <2>1, <2>2 DEF IsRecursion
<1>3. PICK f \in [D -> A] : f = F[f]
  <2> HIDE DEF D, mu, F
  <2> QED
    BY <1>2, RecursionHasSolution
<1>4. f = [s \in SUBSET S |-> IF s = {} THEN 0 ELSE LET x == CHOOSE x \in s : TRUE IN 2 ^ x + f[s \ {x}]]
  BY <1>3, Zenon DEF Some
<1>5. iter = [s \in SUBSET S |-> IF s = {} THEN 0 ELSE LET x == CHOOSE x \in s : TRUE IN 2 ^ x + iter[s \ {x}]]
  <2> HIDE DEF F, A
  <2> QED
    BY <1>4, Zenon
<1>6. Number(S) = iter[S]
  BY Zenon DEF Number, MapThenSumSet, MapThenFoldSet
<1> HIDE DEF iter
<1>7. \A s \in D : iter[s] = step(iter, s)
  BY <1>5 DEF Some
<1>8. D \subseteq {s \in D : iter[s] \in Nat}
  <2>1. ASSUME NEW s \in D, \A t \in D : mu[t] < mu[s] => iter[t] \in Nat PROVE iter[s] \in Nat
    <3> HIDE DEF mu
    <3>1. CASE s = {}
      <4>1. iter[s] = 0
        BY <3>1, <1>7
      <4>2. 0 \in Nat
        OBVIOUS
      <4> QED
        BY <4>1, <4>2, Zenon
    <3>2. CASE s # {}
      <4>1. s \ {Some(s)} \in D /\ mu[s \ {Some(s)}] < mu[s]
        BY <1>0, <3>2 DEF Count, mu
      <4>2. iter[s \ {Some(s)}] \in Nat
        BY <4>1, <2>1
      <4>3. 2 ^ Some(s) \in Nat
        BY <1>0, <3>2, Powers
      <4>4. iter[s] = 2 ^ Some(s) + iter[s \ {Some(s)}]
        BY <1>7, <3>2
      <4> QED
        BY <4>2, <4>3, <4>4
    <3> QED
      BY <3>1, <3>2
  <2>2. mu \in [D -> Nat]
    BY CountIs
  <2> DEFINE T == {s \in D : iter[s] \in Nat}
  <2>3. \A d \in D : (\A e \in D : mu[e] < mu[d] => e \in T) => d \in T
    BY <2>1
  <2>4. D \subseteq T
    <3> HIDE DEF T, D, mu
    <3> QED
      BY <2>2, <2>3, MeasureInduction
  <2> QED
    BY <2>4
<1>9. iter \in [SUBSET S -> Nat]
  BY <1>5, <1>8, Zenon
<1> QED
  BY <1>6, <1>7, <1>9 DEF IsSum

(* It does not matter which element is added first.                        *)
LEMMA SumStep ==
  ASSUME NEW S, S \subseteq Exp, NEW g, IsSum(g, S)
  PROVE  \A s \in SUBSET S : \A y \in s : g[s] = 2 ^ y + g[s \ {y}]
<1> DEFINE D == SUBSET S
           mu == Count(S)
           T == {s \in D : \A y \in s : g[s] = 2 ^ y + g[s \ {y}]}
<1>1. ASSUME NEW s \in D, \A t \in D : mu[t] < mu[s] => t \in T, NEW y \in s
      PROVE  g[s] = 2 ^ y + g[s \ {y}]
  <2> DEFINE x == Some(s)
  <2>1. x \in s /\ g[s] = 2 ^ x + g[s \ {x}]
    BY DEF IsSum, Some
  <2>2. CASE x = y
    BY <2>1, <2>2
  <2>3. CASE x # y
    <3>1. s \ {x} \in T /\ s \ {y} \in T
      <4>1. Cardinality(s \ {x}) < Cardinality(s) /\ Cardinality(s \ {y}) < Cardinality(s)
        BY <2>1, Without
      <4>2. mu[s \ {x}] < mu[s] /\ mu[s \ {y}] < mu[s]
        BY <4>1 DEF Count
      <4> HIDE DEF T, x
      <4> QED
        BY <4>2, <1>1
    <3>2. g[s \ {x}] = 2 ^ y + g[(s \ {x}) \ {y}]
      BY <3>1, <2>3
    <3>3. g[s \ {y}] = 2 ^ x + g[(s \ {y}) \ {x}]
      <4> HIDE DEF x
      <4> QED
        BY <3>1, <2>3, <2>1
    <3>4. (s \ {x}) \ {y} = (s \ {y}) \ {x}
      OBVIOUS
    <3>5. PICK n \in Nat : n = g[(s \ {y}) \ {x}]
      BY DEF IsSum
    <3>6. PICK a \in Nat, b \in Nat : a = 2 ^ x /\ b = 2 ^ y
      BY <2>1, Powers
    <3>7. g[s] = a + (b + n) /\ g[s \ {y}] = a + n
      BY <2>1, <3>2, <3>3, <3>4, <3>5, <3>6, Zenon
    <3>8. a + (b + n) = b + (a + n)
      OBVIOUS
    <3> QED
      BY <3>6, <3>7, <3>8, Zenon
  <2> QED
    BY <2>2, <2>3
<1>2. mu \in [D -> Nat]
  BY CountIs
<1>3. \A d \in D : (\A e \in D : mu[e] < mu[d] => e \in T) => d \in T
  <2> HIDE DEF mu
  <2> QED
    BY <1>1
<1>4. D \subseteq T
  <2> HIDE DEF T, D, mu
  <2> QED
    BY <1>2, <1>3, MeasureInduction
<1> QED
  BY <1>4

(* The sums over the subsets of two sets are the same.                     *)
LEMMA SumsAgree ==
  ASSUME NEW S, S \subseteq Exp, NEW T, T \subseteq S, NEW g, IsSum(g, S), NEW h, IsSum(h, T)
  PROVE  g[T] = h[T]
<1> DEFINE D == SUBSET T
           mu == Count(T)
           U == {s \in D : g[s] = h[s]}
<1>1. ASSUME NEW s \in D, \A t \in D : mu[t] < mu[s] => t \in U
      PROVE  g[s] = h[s]
  <2>1. CASE s = {}
    BY <2>1 DEF IsSum
  <2>2. CASE s # {}
    <3> DEFINE x == Some(s)
    <3>1. x \in s
      BY <2>2 DEF Some
    <3>2. s \ {x} \in U
      <4>1. Cardinality(s \ {x}) < Cardinality(s)
        BY <3>1, Without
      <4>2. mu[s \ {x}] < mu[s] /\ s \ {x} \in D
        BY <4>1 DEF Count
      <4> HIDE DEF U, x
      <4> QED
        BY <4>2, <1>1
    <3>3. g[s] = 2 ^ x + g[s \ {x}] /\ h[s] = 2 ^ x + h[s \ {x}]
      BY <2>2 DEF IsSum
    <3> QED
      BY <3>2, <3>3
  <2> QED
    BY <2>1, <2>2
<1>2. mu \in [D -> Nat]
  BY CountIs
<1>3. \A d \in D : (\A e \in D : mu[e] < mu[d] => e \in U) => d \in U
  <2> HIDE DEF mu
  <2> QED
    BY <1>1
<1>4. D \subseteq U
  <2> HIDE DEF U, D, mu
  <2> QED
    BY <1>2, <1>3, MeasureInduction
<1> QED
  BY <1>4

(* The number of a set of exponents, by any one of them.                   *)
LEMMA NumberStep ==
  ASSUME NEW S, S \subseteq Exp
  PROVE  /\ Number(S) \in Nat
         /\ Number({}) = 0
         /\ \A x \in S : Number(S) = 2 ^ x + Number(S \ {x})
<1>1. PICK g : IsSum(g, S) /\ Number(S) = g[S]
  BY NumberBySteps
<1>2. ASSUME NEW T, T \subseteq S PROVE Number(T) = g[T]
  <2>1. PICK h : IsSum(h, T) /\ Number(T) = h[T]
    BY NumberBySteps, <1>2
  <2> QED
    BY <2>1, <1>1, <1>2, SumsAgree
<1>3. Number(S) \in Nat
  BY <1>1 DEF IsSum
<1>4. Number({}) = 0
  <2>1. {} \in SUBSET S /\ Number({}) = g[{}]
    BY <1>2
  <2> QED
    BY <2>1, <1>1 DEF IsSum
<1>5. ASSUME NEW x \in S PROVE Number(S) = 2 ^ x + Number(S \ {x})
  <2>1. g[S] = 2 ^ x + g[S \ {x}]
    BY <1>1, SumStep
  <2>2. Number(S \ {x}) = g[S \ {x}]
    BY <1>2
  <2> QED
    BY <2>1, <2>2, <1>1
<1> QED
  BY <1>3, <1>4, <1>5

(* The exponents below k of the bits of a number.                          *)
BitsOf(n, k) == {e \in Exp : e < k /\ (n \div 2 ^ e) % 2 = 1}

(* One bit more of a number.                                               *)
LEMMA RemainderDoubles ==
  ASSUME NEW n \in Nat, NEW d \in Nat, d > 0
  PROVE  n % (2 * d) = (n % d) + d * ((n \div d) % 2)
<1>1. PICK q \in Int, r \in Int : q = n \div d /\ r = n % d /\ 0 <= r /\ r < d /\ n = d * q + r
  BY Division
<1>2. PICK h \in Int, b \in Int : h = q \div 2 /\ b = q % 2 /\ 0 <= b /\ b < 2 /\ q = 2 * h + b
  BY Division
<1>3. n = (2 * d) * h + (d * b + r)
  <2>1. d * q = (2 * d) * h + d * b
    BY <1>2
  <2> QED
    BY <1>1, <2>1
<1>4. d * b \in Int /\ 0 <= d * b /\ d * b <= d
  <2>1. b = 0 \/ b = 1
    BY <1>2
  <2> QED
    BY <2>1
<1>5. 0 <= d * b + r /\ d * b + r < 2 * d /\ d * b + r \in Int /\ 2 * d \in Int /\ 2 * d > 0
  BY <1>1, <1>4
<1>6. PICK s \in Int, e \in Int : s = d * b + r /\ e = 2 * d
  BY <1>5
<1>7. n = e * h + s /\ 0 <= s /\ s < e /\ e > 0
  BY <1>3, <1>5, <1>6
<1>8. n % e = s
  BY <1>7, DivisionIs
<1>9. n % (2 * d) = r + d * b
  BY <1>6, <1>8, <1>1, <1>4
<1>10. b = (n \div d) % 2 /\ r = n % d
  BY <1>1, <1>2
<1> QED
  BY <1>9, <1>10, Zenon

(* The number that the bits of a number below k make.                      *)
LEMMA NumberOfBits ==
  ASSUME NEW n \in Nat
  PROVE  \A k \in 0 .. 17 : Number(BitsOf(n, k)) = n % 2 ^ k
<1> DEFINE T == {k \in Nat : k <= 17 => Number(BitsOf(n, k)) = n % 2 ^ k}
<1>1. 0 \in T
  <2>1. BitsOf(n, 0) = {}
    BY DEF BitsOf, Exp
  <2>2. Number({}) = 0
    BY NumberStep
  <2>3. n % 2 ^ 0 = 0
    OBVIOUS
  <2> QED
    BY <2>1, <2>2, <2>3
<1>2. ASSUME NEW k \in Nat, k \in T PROVE k + 1 \in T
  <2> SUFFICES ASSUME k + 1 <= 17 PROVE Number(BitsOf(n, k + 1)) = n % 2 ^ (k + 1)
    OBVIOUS
  <2>0. k \in Exp /\ Number(BitsOf(n, k)) = n % 2 ^ k
    BY <1>2 DEF Exp
  <2>1. PICK d \in Nat : d = 2 ^ k /\ d > 0 /\ 2 ^ (k + 1) = 2 * d
    BY <2>0, Powers
  <2>2. n % (2 * d) = (n % d) + d * ((n \div d) % 2)
    BY <2>1, RemainderDoubles
  <2>3. BitsOf(n, k) \subseteq Exp /\ BitsOf(n, k + 1) \subseteq Exp
    BY DEF BitsOf
  <2>4. (n \div d) % 2 = 1 \/ (n \div d) % 2 = 0
    BY <2>1
  <2>5. CASE (n \div d) % 2 = 1
    <3>1. k \in BitsOf(n, k + 1)
      BY <2>0, <2>1, <2>5 DEF BitsOf
    <3>2. BitsOf(n, k + 1) \ {k} = BitsOf(n, k)
      BY <2>0 DEF BitsOf, Exp
    <3>3. Number(BitsOf(n, k + 1)) = d + Number(BitsOf(n, k))
      BY <3>1, <3>2, <2>1, <2>3, NumberStep
    <3>4. PICK r \in Nat : r = n % d
      BY <2>1
    <3>5. n % (2 * d) = r + d
      BY <2>2, <2>5, <3>4
    <3>6. Number(BitsOf(n, k + 1)) = d + r
      BY <3>3, <2>0, <2>1, <3>4, Zenon
    <3>7. r + d = d + r
      OBVIOUS
    <3> QED
      BY <3>5, <3>6, <3>7, <2>1, Zenon
  <2>6. CASE (n \div d) % 2 = 0
    <3>1. BitsOf(n, k + 1) = BitsOf(n, k)
      <4>1. ASSUME NEW e \in Exp, e < k + 1, (n \div 2 ^ e) % 2 = 1 PROVE e < k
        <5>1. e # k
          BY <4>1, <2>6, <2>1
        <5> QED
          BY <5>1, <4>1 DEF Exp
      <4>2. ASSUME NEW e \in Exp, e < k PROVE e < k + 1
        BY <4>2 DEF Exp
      <4> QED
        BY <4>1, <4>2, Zenon DEF BitsOf
    <3>2. PICK r \in Nat : r = n % d
      BY <2>1
    <3>3. n % (2 * d) = r
      BY <2>2, <2>6, <3>2
    <3> QED
      BY <3>1, <3>2, <3>3, <2>0, <2>1, Zenon
  <2> QED
    BY <2>4, <2>5, <2>6
<1>3. Nat \subseteq T
  <2> HIDE DEF T
  <2> QED
    BY <1>1, <1>2, Induction
<1>4. \A k \in Nat : k <= 17 => Number(BitsOf(n, k)) = n % 2 ^ k
  BY <1>3
<1>5. \A k \in 0 .. 17 : k \in Nat /\ k <= 17
  OBVIOUS
<1> QED
  BY <1>4, <1>5, Zenon

(* The bits from f to l of a message are those of a number.                *)
Carries(msg, n, f, l) == \A b \in f .. l : b \in msg <=> (n \div 2 ^ (l - b)) % 2 = 1

(* A field is the number that its bits carry.                              *)
LEMMA FieldIs ==
  ASSUME NEW msg, NEW f \in Int, NEW l \in Int, NEW k \in 0 .. 17, NEW n \in Nat,
         l - f + 1 = k, Carries(msg, n, f, l)
  PROVE  Field(msg, f, l) = Number(BitsOf(n, k))
<1>1. Exponents(msg, f, l) = BitsOf(n, k)
  <2>1. ASSUME NEW b \in msg \cap (f .. l) PROVE l - b \in BitsOf(n, k)
    <3>1. l - b \in Exp /\ l - b < k
      BY DEF Exp
    <3>2. (n \div 2 ^ (l - b)) % 2 = 1
      BY DEF Carries
    <3> QED
      BY <3>1, <3>2 DEF BitsOf
  <2>2. ASSUME NEW e \in BitsOf(n, k) PROVE \E b \in msg \cap (f .. l) : e = l - b
    <3>1. e \in Nat /\ e < k /\ (n \div 2 ^ e) % 2 = 1
      BY DEF BitsOf, Exp
    <3>2. PICK b \in f .. l : b = l - e
      BY <3>1
    <3>3. l - b = e
      BY <3>1, <3>2
    <3>4. b \in msg
      BY <3>1, <3>3 DEF Carries
    <3> QED
      BY <3>3, <3>4
  <2> QED
    BY <2>1, <2>2 DEF Exponents
<1> QED
  BY <1>1 DEF Field

-----------------------------------------------------------------------------
(* The fields of a position.                                               *)

(* The bits of Put are those of its number.                                *)
LEMMA PutCarries ==
  ASSUME NEW msg, NEW n, NEW f \in Int, NEW l \in Int, \A b \in f .. l : b \in msg <=> b \in Put(n, f, l)
  PROVE  Carries(msg, n, f, l)
BY DEF Carries, Put

(* Put sets no bit beside its field.                                       *)
LEMMA PutWithin ==
  ASSUME NEW n, NEW f \in Int, NEW l \in Int
  PROVE  Put(n, f, l) \subseteq f .. l
BY DEF Put

(* The left one of two records that are joined wins.                       *)
LEMMA LeftWins ==
  ASSUME NEW f, NEW g, NEW x \in DOMAIN f
  PROVE  x \in DOMAIN Joined(f, g) /\ Joined(f, g)[x] = f[x]
BY DEF Joined

(* The right one adds what the left one lacks.                             *)
LEMMA RightAdds ==
  ASSUME NEW f, NEW g, NEW x \in DOMAIN g, x \notin DOMAIN f
  PROVE  x \in DOMAIN Joined(f, g) /\ Joined(f, g)[x] = g[x]
BY DEF Joined

(* What Put puts in a field, with other bits around it, is read from it.   *)
Fits(n, k) == n < 2 ^ k

(* A number that fits is the sum of its bits.                              *)
LEMMA NumberBelow ==
  ASSUME NEW n \in Nat, NEW k \in 0 .. 17, Fits(n, k)
  PROVE  Number(BitsOf(n, k)) = n
<1>1. Number(BitsOf(n, k)) = n % 2 ^ k
  BY NumberOfBits
<1>2. 2 ^ k \in Int /\ 2 ^ k > 0
  <2>1. k \in Exp \/ k = 17
    BY DEF Exp
  <2>2. CASE k \in Exp
    BY <2>2, Powers
  <2>3. CASE k = 17
    BY <2>3
  <2> QED
    BY <2>1, <2>2, <2>3
<1>3. PICK d \in Int : d = 2 ^ k /\ d > 0
  BY <1>2
<1>4. n < d
  BY <1>3 DEF Fits
<1>5. n % d = n
  BY <1>4, <1>3
<1> QED
  BY <1>1, <1>3, <1>5, Zenon

(* What was put in a field is read from it, whatever the other bits are.   *)
LEMMA FieldOfPut ==
  ASSUME NEW msg, NEW f \in Int, NEW l \in Int, f <= l, l <= f + 16,
         NEW n \in Nat, Fits(n, l - f + 1), \A b \in f .. l : b \in msg <=> b \in Put(n, f, l)
  PROVE  Field(msg, f, l) = n
<1>1. PICK k \in 0 .. 17 : k = l - f + 1
  OBVIOUS
<1>2. Carries(msg, n, f, l)
  BY PutCarries
<1>3. Field(msg, f, l) = Number(BitsOf(n, k))
  BY <1>1, <1>2, FieldIs
<1> QED
  BY <1>1, <1>3, NumberBelow

(* The two numbers of a frame have 17 bits each.                           *)
LEMMA FrameIs ==
  ASSUME NEW p, p[1] \in Int, p[2] \in Int, NEW fflag \in {0, 1}
  PROVE  \E a \in Nat, b \in Nat : Frame(p, fflag, Airborne) = <<a, b>> /\ a < Res /\ b < Res
<1>1. PICK a \in Int : LatCoded(p[1], fflag, 4, a)
  BY LatCodeExists
<1>2. PICK b \in Int : XZ(p, fflag, 4) % Res = b % Res
  BY LonCodeExists
<1>3. ASSUME NEW x \in Int PROVE x % Res \in Nat /\ x % Res < Res
  BY Sizes
<1>4. Frame(p, fflag, Airborne) = <<a % Res, b % Res>>
  BY <1>1, <1>2 DEF Frame, LatCoded, Airborne
<1> QED
  BY <1>3, <1>4

(* The fields of a squitter with a position are what was put there.        *)
LEMMA PositionFields ==
  ASSUME NEW p, p[1] \in Int, p[2] \in Int, NEW fflag \in {0, 1}
  PROVE  /\ Field(PositionMe(p, fflag), 0, 4) = 11
         /\ Field(PositionMe(p, fflag), 22, 38) = Frame(p, fflag, Airborne)[1]
         /\ Field(PositionMe(p, fflag), 39, 55) = Frame(p, fflag, Airborne)[2]
         /\ 21 \in PositionMe(p, fflag) <=> fflag = 1
<1> DEFINE me == PositionMe(p, fflag)
<1>1. PICK a \in Nat, b \in Nat : Frame(p, fflag, Airborne) = <<a, b>> /\ a < Res /\ b < Res
  BY FrameIs
<1>2. me = Put(11, 0, 4) \cup Put(fflag, 21, 21) \cup Put(a, 22, 38) \cup Put(b, 39, 55)
  BY <1>1 DEF PositionMe
<1>3. /\ Put(11, 0, 4) \subseteq 0 .. 4 /\ Put(fflag, 21, 21) \subseteq 21 .. 21
      /\ Put(a, 22, 38) \subseteq 22 .. 38 /\ Put(b, 39, 55) \subseteq 39 .. 55
  BY PutWithin
<1> HIDE DEF me
<1>4. Field(me, 0, 4) = 11
  <2>1. \A i \in 0 .. 4 : i \in me <=> i \in Put(11, 0, 4)
    BY <1>2, <1>3
  <2>2. Fits(11, 4 - 0 + 1)
    BY DEF Fits
  <2> QED
    BY <2>1, <2>2, FieldOfPut
<1>5. Field(me, 22, 38) = a
  <2>1. \A i \in 22 .. 38 : i \in me <=> i \in Put(a, 22, 38)
    BY <1>2, <1>3
  <2>2. Fits(a, 38 - 22 + 1)
    BY <1>1 DEF Res, Fits
  <2> QED
    BY <2>1, <2>2, FieldOfPut
<1>6. Field(me, 39, 55) = b
  <2>1. \A i \in 39 .. 55 : i \in me <=> i \in Put(b, 39, 55)
    BY <1>2, <1>3
  <2>2. Fits(b, 55 - 39 + 1)
    BY <1>1 DEF Res, Fits
  <2> QED
    BY <2>1, <2>2, FieldOfPut
<1>7. 21 \in me <=> fflag = 1
  <2>1. 21 \in me <=> 21 \in Put(fflag, 21, 21)
    BY <1>2, <1>3
  <2>2. 21 \in Put(fflag, 21, 21) <=> (fflag \div 2 ^ 0) % 2 = 1
    BY DEF Put
  <2>3. (fflag \div 2 ^ 0) % 2 = fflag
    BY 2 ^ 0 = 1
  <2> QED
    BY <2>1, <2>2, <2>3
<1> QED
  BY <1>1, <1>4, <1>5, <1>6, <1>7 DEF me

(* What the parser reads in a squitter with a position.                    *)
LEMMA PositionRead ==
  ASSUME NEW p, p[1] \in Int, p[2] \in Int, NEW fflag \in {0, 1}, NEW m, m = Squitter(PositionMe(p, fflag))
  PROVE  /\ m.cpr_surface = FALSE
         /\ <<m.cpr_lat, m.cpr_lon>> = Frame(p, fflag, Airborne)
         /\ m.cpr_odd <=> fflag = 1
<1> DEFINE me == PositionMe(p, fflag)
           pos == [cpr_surface |-> FALSE, cpr_lat |-> Field(me, 22, 38), cpr_lon |-> Field(me, 39, 55), cpr_odd |-> 21 \in me]
           alt == Altitude(Exponents(me, 8, 19), SquitterAltitude(Exponents(me, 8, 19)))
<1>1. Field(me, 0, 4) = 11
  BY PositionFields
<1>2. m = Joined(pos, alt)
  <2> HIDE DEF me
  <2>1. Squitter(me) = AirbornePosition(me)
    BY <1>1 DEF Squitter
  <2> QED
    BY <2>1 DEF me, AirbornePosition
<1>3. /\ "cpr_surface" \in DOMAIN pos /\ "cpr_lat" \in DOMAIN pos /\ "cpr_lon" \in DOMAIN pos
      /\ "cpr_odd" \in DOMAIN pos
  OBVIOUS
<1>4. m.cpr_surface = pos.cpr_surface /\ m.cpr_lat = pos.cpr_lat /\ m.cpr_lon = pos.cpr_lon /\ m.cpr_odd = pos.cpr_odd
  <2> HIDE DEF pos, alt
  <2> QED
    BY <1>2, <1>3, LeftWins
<1>5. /\ Field(me, 22, 38) = Frame(p, fflag, Airborne)[1]
      /\ Field(me, 39, 55) = Frame(p, fflag, Airborne)[2]
      /\ 21 \in me <=> fflag = 1
  BY PositionFields
<1>6. PICK a \in Nat, b \in Nat : Frame(p, fflag, Airborne) = <<a, b>>
  BY FrameIs
<1> HIDE DEF me
<1>7. <<m.cpr_lat, m.cpr_lon>> = <<a, b>>
  BY <1>4, <1>5, <1>6
<1> QED
  BY <1>4, <1>5, <1>6, <1>7

-----------------------------------------------------------------------------
(* The decodes, as invariants.                                             *)

(* The two kinds of frames.                                                *)
Formats == {"even", "odd"}

(* 1 for an odd frame.                                                     *)
Flag(format) == IF format = "odd" THEN 1 ELSE 0

(* All places.                                                             *)
Globe == (-Quarter .. Quarter) \X (-(LonCircle \div 2) .. LonCircle \div 2 - 1)

(* The flight is somewhere on the globe, and its frames were sent from     *)
(* there.                                                                  *)
PlacesInv ==
  /\ flight \in Flights
  /\ place \in Globe
  /\ latest \in Formats
  /\ DOMAIN origin = Formats /\ \A f \in Formats : origin[f] = <<>> \/ origin[f] \in Globe

(* The stored frames are those of the places they were sent from; one that *)
(* was not received is zeros.                                              *)
FramesInv ==
  /\ DOMAIN cpr = Formats
  /\ \A f \in Formats : cpr[f] = IF origin[f] = <<>> THEN <<0, 0>> ELSE Frame(origin[f], Flag(f), Airborne)

(* The last decodes were made of these frames: nothing that they depend on *)
(* has changed since.                                                      *)
DecodesInv ==
  origin[latest] # <<>> =>
    /\ global = GlobalDecode(cpr, Flag(latest))
    /\ relative = IF R # <<0, 0>>
                  THEN decode_cpr_relative(R, Frame(origin[latest], Flag(latest), Airborne), Flag(latest), Airborne)
                  ELSE None

(* The invariant: cpr, origin and the two results stay in step.            *)
PositionsInv == PlacesInv /\ FramesInv /\ DecodesInv

(* A place on the globe is one that the lemmas about the decoders speak    *)
(* of.                                                                     *)
LEMMA GlobeIs ==
  ASSUME NEW p \in Globe
  PROVE  Place(p) /\ p[2] < LonCircle \div 2 /\ p # <<>>
<1>0. Quarter \in Int /\ LonCircle \div 2 \in Int
  BY Sizes
<1>1. PICK a \in -Quarter .. Quarter, b \in -(LonCircle \div 2) .. LonCircle \div 2 - 1 : p = <<a, b>>
  BY DEF Globe
<1>2. a \in Int /\ b \in Int /\ InRange(a) /\ b < LonCircle \div 2
  <2>1. PICK c \in Int, h \in Int : c = Quarter /\ h = LonCircle \div 2
    BY <1>0, Zenon
  <2>2. a \in -c .. c /\ b \in -h .. h - 1
    BY <2>1
  <2>3. a \in Int /\ b \in Int /\ -c <= a /\ a <= c /\ b < h
    BY <2>2
  <2> QED
    BY <2>1, <2>3 DEF InRange
<1>3. p[1] = a /\ p[2] = b /\ p # <<>>
  BY <1>1
<1> QED
  BY <1>2, <1>3 DEF Place

(* A longitude that wrapped around is on the globe.                        *)
LEMMA WrappedIs ==
  ASSUME NEW lon \in Int
  PROVE  Wrapped(lon) \in -(LonCircle \div 2) .. LonCircle \div 2 - 1
<1>1. PICK c \in Int, h \in Int : c = LonCircle /\ h = LonCircle \div 2 /\ c = 2 * h /\ h > 0
  BY Sizes
<1>2. (lon + h) % c \in Int /\ 0 <= (lon + h) % c /\ (lon + h) % c < c
  BY <1>1, Division
<1>3. Wrapped(lon) = ((lon + h) % c) - h
  BY <1>1 DEF Wrapped
<1> QED
  BY <1>1, <1>2, <1>3

(* Nothing has been sent at first.                                         *)
LEMMA InitPositions == Init => PositionsInv
<1> SUFFICES ASSUME Init PROVE PositionsInv
  OBVIOUS
<1>1. place \in Globe
  BY FlightsAssumption DEF Init, Globe
<1>2. PlacesInv
  BY <1>1 DEF Init, PlacesInv, Formats
<1>3. FramesInv
  BY DEF Init, FramesInv, Formats
<1>4. DecodesInv
  BY DEF Init, DecodesInv
<1> QED
  BY <1>2, <1>3, <1>4 DEF PositionsInv

(* Flying on leaves what was received alone.                               *)
LEMMA FlyPositions == ASSUME PositionsInv, Fly PROVE PositionsInv'
<1>1. PICK move \in FlightOf(flight).moves :
        InRange(place[1] + move[1]) /\ place' = <<place[1] + move[1], Wrapped(place[2] + move[2])>>
  BY DEF Fly
<1>2. PICK a \in Int, b \in Int : a = place[1] + move[1] /\ b = place[2] + move[2]
  <2>1. place[1] \in Int /\ place[2] \in Int
    BY GlobeIs DEF PositionsInv, PlacesInv, Place
  <2>2. move \in Int \X Int
    BY FlightsAssumption DEF PositionsInv, PlacesInv
  <2>3. move[1] \in Int /\ move[2] \in Int
    BY <2>2
  <2> QED
    BY <2>1, <2>3
<1>3. a \in -Quarter .. Quarter /\ Wrapped(b) \in -(LonCircle \div 2) .. LonCircle \div 2 - 1
  <2>1. PICK c \in Int : c = Quarter
    BY Sizes
  <2>2. -c <= a /\ a <= c
    BY <1>1, <1>2, <2>1 DEF InRange
  <2>3. a \in -c .. c
    BY <2>2
  <2>4. Wrapped(b) \in -(LonCircle \div 2) .. LonCircle \div 2 - 1
    BY WrappedIs
  <2> QED
    BY <2>1, <2>3, <2>4, Zenon
<1>4. place' \in Globe
  BY <1>1, <1>2, <1>3 DEF Globe
<1>5. UNCHANGED <<flight, cpr, origin, relative, global, latest>>
  BY DEF Fly
<1>6. PlacesInv'
  BY <1>4, <1>5 DEF PositionsInv, PlacesInv
<1>7. FramesInv'
  BY <1>5 DEF PositionsInv, FramesInv
<1>8. DecodesInv'
  BY <1>5 DEF PositionsInv, DecodesInv, R
<1> QED
  BY <1>6, <1>7, <1>8 DEF PositionsInv

(* A frame that is sent is read as it was encoded and stored under its own *)
(* format.                                                                 *)
LEMMA SendPositions == ASSUME PositionsInv, Send PROVE PositionsInv'
<1>0. PICK format \in Formats : \E m :
        /\ m = Squitter(PositionMe(place, Flag(format)))
        /\ cpr' = Stored(m)
        /\ relative' = RelativeDecode(m, IF m.cpr_odd THEN 1 ELSE 0)
        /\ global' = GlobalDecode(Stored(m), IF m.cpr_odd THEN 1 ELSE 0)
        /\ origin' = [origin EXCEPT ![format] = place]
        /\ latest' = format
  BY DEF Send, Flag, Formats
<1>1. PICK m :
        /\ m = Squitter(PositionMe(place, Flag(format)))
        /\ cpr' = Stored(m)
        /\ relative' = RelativeDecode(m, IF m.cpr_odd THEN 1 ELSE 0)
        /\ global' = GlobalDecode(Stored(m), IF m.cpr_odd THEN 1 ELSE 0)
        /\ origin' = [origin EXCEPT ![format] = place]
        /\ latest' = format
  BY <1>0
<1>2. UNCHANGED <<flight, place>>
  BY DEF Send
<1>3. Flag(format) \in {0, 1} /\ (Flag(format) = 1 <=> format = "odd")
  BY DEF Flag
<1>4. /\ m.cpr_surface = FALSE
      /\ <<m.cpr_lat, m.cpr_lon>> = Frame(place, Flag(format), Airborne)
      /\ m.cpr_odd <=> Flag(format) = 1
  <2>1. place[1] \in Int /\ place[2] \in Int
    BY GlobeIs DEF PositionsInv, PlacesInv, Place
  <2> QED
    BY <2>1, <1>1, <1>3, PositionRead
<1>5. (IF m.cpr_odd THEN 1 ELSE 0) = Flag(format)
  BY <1>3, <1>4
<1>6. /\ DOMAIN cpr' = Formats /\ cpr'[format] = Frame(place, Flag(format), Airborne)
      /\ \A f \in Formats : f # format => cpr'[f] = cpr[f]
  <2>1. DOMAIN cpr = Formats
    BY DEF PositionsInv, FramesInv
  <2>2. cpr' = IF format = "odd" THEN [cpr EXCEPT !["odd"] = Frame(place, Flag(format), Airborne)]
                                 ELSE [cpr EXCEPT !["even"] = Frame(place, Flag(format), Airborne)]
    BY <1>1, <1>3, <1>4 DEF Stored
  <2> QED
    BY <2>1, <2>2 DEF Formats
<1>7. /\ DOMAIN origin' = Formats /\ origin'[format] = place
      /\ \A f \in Formats : f # format => origin'[f] = origin[f]
  BY <1>1 DEF PositionsInv, PlacesInv
<1>8. place \in Globe /\ place # <<>>
  BY GlobeIs DEF PositionsInv, PlacesInv
<1>9. PlacesInv'
  BY <1>1, <1>2, <1>7, <1>8 DEF PositionsInv, PlacesInv
<1>10. FramesInv'
  BY <1>6, <1>7, <1>8 DEF PositionsInv, FramesInv
<1>11. DecodesInv'
  <2>1. latest' = format /\ origin'[format] = place /\ R' = R
    BY <1>1, <1>2, <1>7 DEF R
  <2>2. global' = GlobalDecode(cpr', Flag(format))
    BY <1>1, <1>5
  <2>3. relative' = IF R # <<0, 0>> THEN decode_cpr_relative(R, Frame(place, Flag(format), Airborne), Flag(format), Airborne)
                                    ELSE None
    BY <1>1, <1>4, <1>5 DEF RelativeDecode
  <2> QED
    BY <2>1, <2>2, <2>3 DEF DecodesInv, GlobalDecode
<1> QED
  BY <1>9, <1>10, <1>11 DEF PositionsInv

(* Saying something else changes nothing of it.                            *)
LEMMA SayPositions == ASSUME PositionsInv, Say PROVE PositionsInv'
<1>1. UNCHANGED <<flight, place, cpr, origin, relative, global, latest>>
  BY DEF Say
<1> QED
  BY <1>1 DEF PositionsInv, PlacesInv, FramesInv, DecodesInv, GlobalDecode, R

(* However a flight moves and whichever of its frames are received, the    *)
(* two stored frames are those it sent from where they are said to be      *)
(* from, and the results are of them (update_position).                    *)
THEOREM PositionsInvariant == Spec => []PositionsInv
<1>1. ASSUME PositionsInv, [Next]_vars PROVE PositionsInv'
  <2>1. CASE Fly
    BY <1>1, <2>1, FlyPositions
  <2>2. CASE Send
    BY <1>1, <2>2, SendPositions
  <2>3. CASE Say
    BY <1>1, <2>3, SayPositions
  <2>4. CASE UNCHANGED vars
    BY <1>1, <2>4 DEF vars, PositionsInv, PlacesInv, FramesInv, DecodesInv, GlobalDecode, R
  <2> QED
    BY <1>1, <2>1, <2>2, <2>3, <2>4 DEF Next
<1> QED
  BY InitPositions, <1>1, PTL DEF Spec

(* What MovedLittle says is what the lemmas about the decoders ask for.    *)
LEMMA MovedLittleIs ==
  ASSUME PositionsInv, NEW scale \in {1, 4}, MovedLittle(scale), origin["even"] # <<>>, origin["odd"] # <<>>
  PROVE  /\ Place(origin["even"]) /\ Place(origin["odd"])
         /\ Flag(latest) \in {0, 1}
         /\ origin[latest] = IF Flag(latest) = 0 THEN origin["even"] ELSE origin["odd"]
         /\ Close(origin["even"][1], origin["odd"][1], scale * (Res \div 2 - 60))
         /\ Moved(origin["even"][2], origin["odd"][2], cpr_nl(Encoded(origin[latest][1], Flag(latest), scale)), scale)
<1>1. origin["even"] \in Globe /\ origin["odd"] \in Globe /\ latest \in {"even", "odd"}
  BY DEF PositionsInv, PlacesInv, Formats
<1>2. Place(origin["even"]) /\ Place(origin["odd"])
  BY <1>1, GlobeIs
<1>3. Flag(latest) \in {0, 1} /\ origin[latest] = IF Flag(latest) = 0 THEN origin["even"] ELSE origin["odd"]
  BY <1>1 DEF Flag
<1>4. Magnitude(origin["even"][1] - origin["odd"][1]) <= scale * (Res \div 2 - 60)
  BY DEF MovedLittle
<1>5. Close(origin["even"][1], origin["odd"][1], scale * (Res \div 2 - 60))
  <2>1. PICK a \in Int, b \in Int, d \in Int :
          a = origin["even"][1] /\ b = origin["odd"][1] /\ d = scale * (Res \div 2 - 60)
    <3>1. scale * (Res \div 2 - 60) \in Int
      BY Sizes
    <3> QED
      BY <1>2, <3>1 DEF Place
  <2>2. Magnitude(a - b) <= d
    BY <1>4, <2>1
  <2>3. Close(a, b, d)
    BY <2>2 DEF Close, Magnitude
  <2> QED
    BY <2>1, <2>3
<1>6. Moved(origin["even"][2], origin["odd"][2], cpr_nl(Encoded(origin[latest][1], Flag(latest), scale)), scale)
  BY DEF MovedLittle, Moved, Flag
<1> QED
  BY <1>2, <1>3, <1>5, <1>6

(* The invariant and AirborneDecodeIs.                                     *)
LEMMA GlobalRight == PositionsInv => GlobalDecodeIsRight
<1> SUFFICES ASSUME PositionsInv, Both(Airborne), MovedLittle(Airborne)
             PROVE  IF SameZones(Airborne) THEN global # None /\ IsAt(global, origin[latest], Airborne) ELSE global = None
  BY DEF GlobalDecodeIsRight
<1> DEFINE p == origin["even"]
           q == origin["odd"]
           even == Frame(p, 0, 4)
           odd == Frame(q, 1, 4)
           fflag == Flag(latest)
<1>1. p # <<>> /\ q # <<>> /\ even # <<0, 0>> /\ odd # <<0, 0>>
  BY DEF Both, Known, Airborne
<1>2. /\ Place(p) /\ Place(q) /\ fflag \in {0, 1}
      /\ origin[latest] = IF fflag = 0 THEN p ELSE q
      /\ Close(p[1], q[1], 4 * (Res \div 2 - 60))
      /\ Moved(p[2], q[2], cpr_nl(Encoded(origin[latest][1], fflag, 4)), 4)
  BY <1>1, MovedLittleIs DEF Airborne
<1>3. cpr["even"] = even /\ cpr["odd"] = odd
  BY <1>1 DEF PositionsInv, FramesInv, Formats, Flag, Airborne
<1>4. origin[latest] # <<>>
  BY <1>1, <1>2
<1>5. global = decode_cpr_airborne(even, odd, fflag)
  BY <1>1, <1>3, <1>4 DEF PositionsInv, DecodesInv, GlobalDecode
<1> HIDE DEF p, q, even, odd, fflag
<1>6. IF cpr_nl(Encoded(p[1], 0, 4)) = cpr_nl(Encoded(q[1], 1, 4))
      THEN global # None /\ IsAt(global, IF fflag = 0 THEN p ELSE q, 4)
      ELSE global = None
  BY <1>1, <1>2, <1>5, AirborneDecodeIs DEF even, odd
<1>7. SameZones(Airborne) <=> cpr_nl(Encoded(p[1], 0, 4)) = cpr_nl(Encoded(q[1], 1, 4))
  BY DEF SameZones, Airborne, p, q
<1> QED
  BY <1>2, <1>6, <1>7 DEF Airborne

(* decode_cpr_airborne gives the position of the last frame when the       *)
(* flight moved little between the two, and none when it changed bands.    *)
THEOREM GlobalDecodes == Spec => []GlobalDecodeIsRight
BY PositionsInvariant, GlobalRight, PTL

(* The invariant and RelativeDecodeIs.                                     *)
LEMMA RelativeRight == PositionsInv => RelativeDecodeIsRight
<1> DEFINE p == origin[latest]
           fflag == Flag(latest)
           zones == cpr_n_func(Encoded(p[1], fflag, 4), fflag)
<1> SUFFICES ASSUME PositionsInv, p # <<>>, R # <<0, 0>>,
                    Magnitude(p[1] - R[1]) < (LatStep(fflag, 4) * Res) \div 2 - 120,
                    Magnitude(p[2] - R[2]) <= (120 * Res - 240) \div zones
             PROVE  relative # None /\ IsAt(relative, p, 4)
  BY DEF RelativeDecodeIsRight, Flag, Airborne
<1>1. p \in Globe /\ fflag \in {0, 1}
  BY DEF PositionsInv, PlacesInv, Flag
<1>2. Place(p) /\ p[2] < LonCircle \div 2
  BY <1>1, GlobeIs
<1>3. R[1] \in Int /\ R[2] \in Int
  BY FlightsAssumption DEF PositionsInv, PlacesInv, R
<1>4. relative = decode_cpr_relative(R, Frame(p, fflag, 4), fflag, 4)
  BY DEF PositionsInv, DecodesInv, Airborne
<1>5. Magnitude(p[2] - R[2]) * zones <= 120 * Res - 240
  <2>1. zones \in 1 .. 59
    <3>1. p[1] \in Int
      BY <1>2 DEF Place
    <3> HIDE DEF p, fflag
    <3> QED
      BY <1>1, <3>1, EncodedIs, Zones
  <2>2. PICK s \in Int, e \in Int, c \in Int :
          s = Magnitude(p[2] - R[2]) /\ e = zones /\ e > 0 /\ c = 120 * Res - 240 /\ s <= c \div e
    <3>1. p[2] \in Int
      BY <1>2 DEF Place
    <3> HIDE DEF p, zones
    <3> QED
      BY <2>1, <3>1, <1>3, Sizes DEF Magnitude
  <2> QED
    BY <2>2, BelowQuotient
<1> HIDE DEF p, fflag
<1> QED
  BY <1>1, <1>2, <1>3, <1>4, <1>5, RelativeDecodeIs

(* decode_cpr_relative gives the position of a flight less than half a     *)
(* zone from the receiver.                                                 *)
THEOREM RelativeDecodes == Spec => []RelativeDecodeIsRight
BY PositionsInvariant, RelativeRight, PTL

(* The invariant and SurfaceDecodeIs.                                      *)
LEMMA SurfaceRight == PositionsInv => SurfacePairIsRight
<1> DEFINE p == origin["even"]
           q == origin["odd"]
           fflag == Flag(latest)
           fix == decode_cpr_surface(R, Frame(p, 0, 1), Frame(q, 1, 1), fflag)
<1> SUFFICES ASSUME PositionsInv, Both(Surface), MovedLittle(Surface), SameZones(Surface),
                    Magnitude(origin[latest][1] - R[1]) < (Quarter \div 90) * 44,
                    Beside(origin[latest][2], R[2])
             PROVE  fix # None /\ IsAt(fix, origin[latest], 1)
  BY DEF SurfacePairIsRight, Flag, Surface, Beside
<1>1. p # <<>> /\ q # <<>>
  BY DEF Both, Known
<1>2. /\ Place(p) /\ Place(q) /\ fflag \in {0, 1}
      /\ origin[latest] = IF fflag = 0 THEN p ELSE q
      /\ Close(p[1], q[1], 1 * (Res \div 2 - 60))
      /\ Moved(p[2], q[2], cpr_nl(Encoded(origin[latest][1], fflag, 1)), 1)
  BY <1>1, MovedLittleIs DEF Surface
<1>3. R[1] \in Int /\ R[2] \in Int
  BY FlightsAssumption DEF PositionsInv, PlacesInv, R
<1>4. Close(origin[latest][1], R[1], (Quarter \div 90) * 44)
  <2>1. origin[latest][1] \in Int
    BY <1>2 DEF Place
  <2>2. (Quarter \div 90) * 44 \in Int
    BY Sizes
  <2> QED
    BY <2>1, <2>2, <1>3 DEF Close, Magnitude
<1>5. cpr_nl(Encoded(p[1], 0, 1)) = cpr_nl(Encoded(q[1], 1, 1))
  BY DEF SameZones, Surface
<1>6. Close(p[1], q[1], Res \div 2 - 60)
  <2>1. 1 * (Res \div 2 - 60) = Res \div 2 - 60
    BY Sizes
  <2> QED
    BY <1>2, <2>1
<1> HIDE DEF p, q, fflag
<1> QED
  BY <1>2, <1>3, <1>4, <1>5, <1>6, SurfaceDecodeIs

(* decode_cpr_surface finds the right one of the four quarters.            *)
THEOREM SurfacePairs == Spec => []SurfacePairIsRight
BY PositionsInvariant, SurfaceRight, PTL

-----------------------------------------------------------------------------
(* What a squitter says: parsed from its ME field.                         *)

(* An extended squitter is parsed as what is in its ME field.              *)
Extended(msg, me) == me \subseteq 0 .. 55 /\ msg = Shifted(me, 32) \cup Put(17, 0, 4)

(* Its fields are those of the squitter in it.                             *)
LEMMA SquitterIsParsed ==
  ASSUME NEW msg, NEW me, Extended(msg, me)
  PROVE  \A x \in DOMAIN Squitter(me) :
           /\ x \in DOMAIN parse_modes_message(msg, 112)
           /\ parse_modes_message(msg, 112)[x] = Squitter(me)[x]
<1> SUFFICES ASSUME me \subseteq 0 .. 55, msg = Shifted(me, 32) \cup Put(17, 0, 4)
             PROVE  \A x \in DOMAIN Squitter(me) :
                      /\ x \in DOMAIN parse_modes_message(msg, 112)
                      /\ parse_modes_message(msg, 112)[x] = Squitter(me)[x]
  BY DEF Extended
<1>1. Put(17, 0, 4) \subseteq 0 .. 4
  BY PutWithin
<1>2. \A b \in Int : b \in Shifted(me, 32) <=> b - 32 \in me
  BY DEF Shifted
<1>3. \A b \in 0 .. 4 : b \in msg <=> b \in Put(17, 0, 4)
  BY <1>2
<1>4. Field(msg, 0, 4) = 17
  <2>1. Fits(17, 4 - 0 + 1)
    BY DEF Fits
  <2> QED
    BY <2>1, <1>3, FieldOfPut
<1>5. ME(msg) = me
  <2>1. ASSUME NEW b \in me PROVE b \in ME(msg)
    <3>1. b \in Int /\ b + 32 \in 32 .. 87 /\ (b + 32) - 32 = b
      OBVIOUS
    <3>2. b + 32 \in msg
      BY DEF Shifted
    <3>3. (b + 32) + (-32) = b
      BY <3>1
    <3> QED
      BY <3>1, <3>2, <3>3 DEF ME, Shifted
  <2>2. ASSUME NEW b \in ME(msg) PROVE b \in me
    <3>1. PICK c \in msg \cap (32 .. 87) : b = c + (-32)
      BY DEF ME, Shifted
    <3>2. c \in Int /\ c \notin Put(17, 0, 4) /\ b = c - 32
      BY <3>1, <1>1
    <3> QED
      BY <3>2, <1>2
  <2> QED
    BY <2>1, <2>2
<1>6. ParseDf(msg, Field(msg, 0, 4)) = Squitter(me)
  BY <1>4, <1>5 DEF ParseDf
<1>7. parse_modes_message(msg, 112) = Joined(Squitter(me), AirGround(msg))
  BY <1>6 DEF parse_modes_message
<1> QED
  BY <1>7, LeftWins

-----------------------------------------------------------------------------
(* Altitude.                                                               *)

(* A squitter with an altitude in steps of 25 feet.                        *)
AltitudeMe(n) == Put(11, 0, 4) \cup Put(n \div 16, 8, 14) \cup {15} \cup Put(n % 16, 16, 19)

(* Two sets with the same elements.                                        *)
LEMMA SameSet ==
  ASSUME NEW S, NEW A, A \subseteq S, NEW B, B \subseteq S, \A e \in S : e \in A <=> e \in B
  PROVE  A = B
OBVIOUS

(* The bit of a number with an exponent is one.                            *)
HasBit(n, e) == (n \div 2 ^ e) % 2 = 1

(* Put sets the bit of an exponent where the number has it.                *)
LEMMA PutHas ==
  ASSUME NEW n, NEW f \in Int, NEW l \in Int, NEW b \in f .. l, NEW e, e = l - b
  PROVE  b \in Put(n, f, l) <=> HasBit(n, e)
BY DEF Put, HasBit

(* So does BitsOf.                                                         *)
LEMMA BitsHave ==
  ASSUME NEW n, NEW k \in 0 .. 17, NEW e \in Int
  PROVE  e \in BitsOf(n, k) <=> e >= 0 /\ e < k /\ HasBit(n, e)
<1>1. e \in Exp /\ e < k <=> e >= 0 /\ e < k
  BY DEF Exp
<1>2. e \in BitsOf(n, k) <=> e \in Exp /\ e < k /\ HasBit(n, e)
  BY Zenon DEF BitsOf, HasBit
<1> QED
  BY <1>1, <1>2, Zenon

(* The bits of a number from those of its sixteenth and of what is left.   *)
Sixteenth(n, h, r) == n = 16 * h + r /\ 0 <= r /\ r < 16

(* The bits of a quotient and of a remainder by 16 are those of the        *)
(* number.                                                                 *)
LEMMA SixteenthBits ==
  ASSUME NEW n \in Nat, NEW h \in Nat, NEW r \in Nat, Sixteenth(n, h, r)
  PROVE  /\ \A d \in 0 .. 11 : HasBit(h, d) <=> HasBit(n, d + 4)
         /\ \A e \in 0 .. 3 : HasBit(r, e) <=> HasBit(n, e)
<1>0. HasBit(h, 0) <=> HasBit(n, 4)
  BY DEF HasBit, Sixteenth
<1>1. HasBit(h, 1) <=> HasBit(n, 5)
  BY DEF HasBit, Sixteenth
<1>2. HasBit(h, 2) <=> HasBit(n, 6)
  BY DEF HasBit, Sixteenth
<1>3. HasBit(h, 3) <=> HasBit(n, 7)
  BY DEF HasBit, Sixteenth
<1>4. HasBit(h, 4) <=> HasBit(n, 8)
  BY DEF HasBit, Sixteenth
<1>5. HasBit(h, 5) <=> HasBit(n, 9)
  BY DEF HasBit, Sixteenth
<1>6. HasBit(h, 6) <=> HasBit(n, 10)
  BY DEF HasBit, Sixteenth
<1>7. HasBit(h, 7) <=> HasBit(n, 11)
  BY DEF HasBit, Sixteenth
<1>8. HasBit(h, 8) <=> HasBit(n, 12)
  BY DEF HasBit, Sixteenth
<1>9. HasBit(h, 9) <=> HasBit(n, 13)
  BY DEF HasBit, Sixteenth
<1>10. HasBit(h, 10) <=> HasBit(n, 14)
  BY DEF HasBit, Sixteenth
<1>11. HasBit(h, 11) <=> HasBit(n, 15)
  BY DEF HasBit, Sixteenth
<1>12. HasBit(r, 0) <=> HasBit(n, 0)
  BY DEF HasBit, Sixteenth
<1>13. HasBit(r, 1) <=> HasBit(n, 1)
  BY DEF HasBit, Sixteenth
<1>14. HasBit(r, 2) <=> HasBit(n, 2)
  BY DEF HasBit, Sixteenth
<1>15. HasBit(r, 3) <=> HasBit(n, 3)
  BY DEF HasBit, Sixteenth
<1>16. \A d \in 0 .. 11 : d = 0 \/ d = 1 \/ d = 2 \/ d = 3 \/ d = 4 \/ d = 5 \/ d = 6 \/ d = 7 \/ d = 8 \/
      d = 9 \/ d = 10 \/ d = 11
  OBVIOUS
<1>17. \A e \in 0 .. 3 : e = 0 \/ e = 1 \/ e = 2 \/ e = 3
  OBVIOUS
<1>18. ASSUME NEW d \in 0 .. 11 PROVE HasBit(h, d) <=> HasBit(n, d + 4)
  BY <1>0, <1>1, <1>2, <1>3, <1>4, <1>5, <1>6, <1>7, <1>8, <1>9, <1>10, <1>11, <1>16
<1>19. ASSUME NEW e \in 0 .. 3 PROVE HasBit(r, e) <=> HasBit(n, e)
  BY <1>12, <1>13, <1>14, <1>15, <1>17
<1> QED
  BY <1>18, <1>19

(* The bits of an altitude in steps of 25 feet, as SquitterAltitude puts   *)
(* them together.                                                          *)
AltitudeBits(alt) == Shifted(alt \cap (5 .. 11), -1) \cup (alt \cap (0 .. 3))

(* They are at their places in the ME field.                               *)
LEMMA AltitudeBitsIn ==
  ASSUME NEW me, NEW alt, alt = Exponents(me, 8, 19)
  PROVE  /\ AltitudeBits(alt) \subseteq 0 .. 10
         /\ \A e \in 4 .. 10 : e \in AltitudeBits(alt) <=> 18 - e \in me
         /\ \A e \in 0 .. 3 : e \in AltitudeBits(alt) <=> 19 - e \in me
<1>1. ASSUME NEW e \in 0 .. 11 PROVE e \in alt <=> 19 - e \in me
  <2>1. \A b \in 8 .. 19 : e = 19 - b <=> b = 19 - e
    OBVIOUS
  <2>2. 19 - e \in 8 .. 19
    OBVIOUS
  <2> QED
    BY <2>1, <2>2 DEF Exponents
<1>2. alt \subseteq 0 .. 11
  BY DEF Exponents
<1>3. ASSUME NEW e \in AltitudeBits(alt) PROVE (e \in 4 .. 10 /\ e + 1 \in alt) \/ (e \in 0 .. 3 /\ e \in alt)
  <2>1. CASE e \in Shifted(alt \cap (5 .. 11), -1)
    <3>1. PICK x \in alt \cap (5 .. 11) : e = x + (-1)
      BY <2>1 DEF Shifted
    <3>2. e \in 4 .. 10 /\ e + 1 = x
      BY <3>1
    <3> QED
      BY <3>1, <3>2
  <2>2. CASE e \in alt \cap (0 .. 3)
    BY <2>2
  <2> QED
    BY <2>1, <2>2 DEF AltitudeBits
<1>4. ASSUME NEW e \in 4 .. 10, e + 1 \in alt PROVE e \in AltitudeBits(alt)
  <2>1. e + 1 \in alt \cap (5 .. 11) /\ e = (e + 1) + (-1)
    BY <1>4
  <2>2. e \in Shifted(alt \cap (5 .. 11), -1)
    BY <2>1 DEF Shifted
  <2> QED
    BY <2>2 DEF AltitudeBits
<1>5. ASSUME NEW e \in 0 .. 3, e \in alt PROVE e \in AltitudeBits(alt)
  BY <1>5 DEF AltitudeBits
<1>6. AltitudeBits(alt) \subseteq 0 .. 10
  BY <1>3
<1>7. ASSUME NEW e \in 4 .. 10 PROVE e \in AltitudeBits(alt) <=> 18 - e \in me
  <2>1. e + 1 \in 0 .. 11 /\ 19 - (e + 1) = 18 - e /\ e \notin 0 .. 3
    OBVIOUS
  <2>2. e + 1 \in alt <=> 18 - e \in me
    BY <2>1, <1>1
  <2> QED
    BY <2>1, <2>2, <1>3, <1>4
<1>8. ASSUME NEW e \in 0 .. 3 PROVE e \in AltitudeBits(alt) <=> 19 - e \in me
  <2>1. e \in 0 .. 11 /\ e \notin 4 .. 10
    OBVIOUS
  <2> QED
    BY <2>1, <1>1, <1>3, <1>5
<1> QED
  BY <1>6, <1>7, <1>8

(* The bits beside the Q bit make the number that was put.                 *)
LEMMA AltitudeNumber ==
  ASSUME NEW n \in Nat, Fits(n, 11), NEW me, me = AltitudeMe(n)
  PROVE  Number(AltitudeBits(Exponents(me, 8, 19))) = n
<1>1. PICK h \in Nat, r \in Nat : h = n \div 16 /\ r = n % 16 /\ Sixteenth(n, h, r)
  BY DEF Sixteenth
<1>2. me = Put(11, 0, 4) \cup Put(h, 8, 14) \cup {15} \cup Put(r, 16, 19)
  BY <1>1 DEF AltitudeMe
<1>3. Put(11, 0, 4) \subseteq 0 .. 4 /\ Put(h, 8, 14) \subseteq 8 .. 14 /\ Put(r, 16, 19) \subseteq 16 .. 19
  BY PutWithin
<1>4. ASSUME NEW e \in 4 .. 10 PROVE 18 - e \in me <=> HasBit(n, e)
  <2>1. 18 - e \in me <=> 18 - e \in Put(h, 8, 14)
    BY <1>2, <1>3
  <2>2. PICK d \in 0 .. 6 : d = e - 4 /\ e = d + 4 /\ d = 14 - (18 - e)
    OBVIOUS
  <2>3. 18 - e \in Put(h, 8, 14) <=> HasBit(h, d)
    <3>1. 18 - e \in 8 .. 14
      OBVIOUS
    <3> QED
      BY <3>1, <2>2, PutHas
  <2>4. HasBit(h, d) <=> HasBit(n, d + 4)
    BY <1>1, SixteenthBits
  <2> QED
    BY <2>1, <2>2, <2>3, <2>4
<1>5. ASSUME NEW e \in 0 .. 3 PROVE 19 - e \in me <=> HasBit(n, e)
  <2>1. 19 - e \in me <=> 19 - e \in Put(r, 16, 19)
    BY <1>2, <1>3
  <2>2. 19 - e \in 16 .. 19 /\ e = 19 - (19 - e)
    OBVIOUS
  <2>3. 19 - e \in Put(r, 16, 19) <=> HasBit(r, e)
    BY <2>2, PutHas
  <2>4. HasBit(r, e) <=> HasBit(n, e)
    BY <1>1, SixteenthBits
  <2> QED
    BY <2>1, <2>3, <2>4
<1>6. PICK raw : raw = AltitudeBits(Exponents(me, 8, 19))
  OBVIOUS
<1>7. /\ raw \subseteq 0 .. 10
      /\ \A e \in 4 .. 10 : e \in raw <=> 18 - e \in me
      /\ \A e \in 0 .. 3 : e \in raw <=> 19 - e \in me
  BY <1>6, AltitudeBitsIn
<1>8. ASSUME NEW e \in 0 .. 10 PROVE e \in raw <=> e \in BitsOf(n, 11)
  <2>1. e \in raw <=> HasBit(n, e)
    <3>1. e \in 4 .. 10 \/ e \in 0 .. 3
      OBVIOUS
    <3> QED
      BY <3>1, <1>4, <1>5, <1>7
  <2>2. e \in BitsOf(n, 11) <=> HasBit(n, e)
    BY BitsHave
  <2> QED
    BY <2>1, <2>2
<1>9. raw = BitsOf(n, 11)
  <2>1. BitsOf(n, 11) \subseteq 0 .. 10
    BY DEF BitsOf, Exp
  <2>2. \A e \in 0 .. 10 : e \in raw <=> e \in BitsOf(n, 11)
    BY <1>8
  <2>3. raw \subseteq 0 .. 10
    BY <1>7
  <2> QED
    BY <2>1, <2>2, <2>3, Zenon
<1>10. Number(BitsOf(n, 11)) = n
  BY NumberBelow
<1> QED
  BY <1>6, <1>9, <1>10

(* An altitude in steps of 25 feet is read as it was sent.                 *)
LEMMA AltitudeIsRead ==
  ASSUME NEW n \in Nat, Fits(n, 11), NEW me, me = AltitudeMe(n)
  PROVE  /\ me \subseteq 0 .. 55
         /\ "baro_alt" \in DOMAIN Squitter(me)
         /\ Squitter(me)["baro_alt"] = 25 * n - 1000
<1>1. PICK h \in Int, r \in Int : me = Put(11, 0, 4) \cup Put(h, 8, 14) \cup {15} \cup Put(r, 16, 19)
  BY DEF AltitudeMe
<1>2. Put(11, 0, 4) \subseteq 0 .. 4 /\ Put(h, 8, 14) \subseteq 8 .. 14 /\ Put(r, 16, 19) \subseteq 16 .. 19
  BY PutWithin
<1>3. me \subseteq 0 .. 55
  BY <1>1, <1>2
<1>4. Field(me, 0, 4) = 11
  <2>1. \A i \in 0 .. 4 : i \in me <=> i \in Put(11, 0, 4)
    BY <1>1, <1>2
  <2>2. Fits(11, 4 - 0 + 1)
    BY DEF Fits
  <2> QED
    BY <2>1, <2>2, FieldOfPut
<1>5. PICK alt : alt = Exponents(me, 8, 19)
  OBVIOUS
<1> DEFINE pos == [cpr_surface |-> FALSE, cpr_lat |-> Field(me, 22, 38), cpr_lon |-> Field(me, 39, 55), cpr_odd |-> 21 \in me]
<1>7. Squitter(me) = Joined(pos, Altitude(alt, SquitterAltitude(alt)))
  <2>1. Squitter(me) = AirbornePosition(me)
    BY <1>4 DEF Squitter
  <2> QED
    BY <2>1, <1>5 DEF AirbornePosition
<1>8. 4 \in alt
  <2>1. 15 \in me \cap (8 .. 19) /\ 4 = 19 - 15
    BY <1>1
  <2> QED
    BY <2>1, <1>5 DEF Exponents
<1>9. SquitterAltitude(alt) = n * 25 - 1000
  <2>1. Number(AltitudeBits(alt)) = n
    BY <1>5, AltitudeNumber
  <2> QED
    BY <1>8, <2>1 DEF SquitterAltitude, AltitudeBits
<1>10. PICK v \in Int : v = n * 25 - 1000 /\ v = 25 * n - 1000 /\ v # -9999
  OBVIOUS
<1>11. Altitude(alt, SquitterAltitude(alt)) = [baro_alt |-> v]
  BY <1>8, <1>9, <1>10 DEF Altitude, INVALID_ALTITUDE
<1>12. "baro_alt" \notin DOMAIN pos
  OBVIOUS
<1> HIDE DEF pos
<1>13. "baro_alt" \in DOMAIN [baro_alt |-> v] /\ [baro_alt |-> v]["baro_alt"] = v
  OBVIOUS
<1>14. "baro_alt" \in DOMAIN Squitter(me) /\ Squitter(me)["baro_alt"] = v
  BY <1>7, <1>11, <1>12, <1>13, RightAdds
<1> QED
  BY <1>3, <1>10, <1>14

-----------------------------------------------------------------------------
(* Squawk.                                                                 *)

(* Four octal digits.                                                      *)
IsSquawk(sq) == sq \in [1 .. 4 -> 0 .. 7]

(* The digits are the hex digits of a number.                              *)
SquawkNumber(sq) == sq[1] * 4096 + sq[2] * 256 + sq[3] * 16 + sq[4]

(* A pulse of an identity code, and the bit of the squawk it stands for.   *)

(* Where decode_id13 puts each of the twelve pulses.                       *)
LEMMA PulseIs ==
  /\ DOMAIN Pulse = (0 .. 12) \ {6}
  /\ Pulse[0] = 2
  /\ Pulse[1] = 10
  /\ Pulse[2] = 1
  /\ Pulse[3] = 9
  /\ Pulse[4] = 0
  /\ Pulse[5] = 8
  /\ Pulse[7] = 14
  /\ Pulse[8] = 6
  /\ Pulse[9] = 13
  /\ Pulse[10] = 5
  /\ Pulse[11] = 12
  /\ Pulse[12] = 4
<1> DEFINE to == <<2, 10, 1, 9, 0, 8, 0, 14, 6, 13, 5, 12, 4>>
<1>1. ASSUME NEW x \in (0 .. 12) \ {6} PROVE Pulse[x] = to[x + 1]
  BY DEF Pulse
<1>2. DOMAIN Pulse = (0 .. 12) \ {6}
  BY DEF Pulse
<1>3. Pulse[0] = 2
  <2>1. Pulse[0] = to[0 + 1]
    BY <1>1
  <2> QED
    BY <2>1
<1>4. Pulse[1] = 10
  <2>1. Pulse[1] = to[1 + 1]
    BY <1>1
  <2> QED
    BY <2>1
<1>5. Pulse[2] = 1
  <2>1. Pulse[2] = to[2 + 1]
    BY <1>1
  <2> QED
    BY <2>1
<1>6. Pulse[3] = 9
  <2>1. Pulse[3] = to[3 + 1]
    BY <1>1
  <2> QED
    BY <2>1
<1>7. Pulse[4] = 0
  <2>1. Pulse[4] = to[4 + 1]
    BY <1>1
  <2> QED
    BY <2>1
<1>8. Pulse[5] = 8
  <2>1. Pulse[5] = to[5 + 1]
    BY <1>1
  <2> QED
    BY <2>1
<1>9. Pulse[7] = 14
  <2>1. Pulse[7] = to[7 + 1]
    BY <1>1
  <2> QED
    BY <2>1
<1>10. Pulse[8] = 6
  <2>1. Pulse[8] = to[8 + 1]
    BY <1>1
  <2> QED
    BY <2>1
<1>11. Pulse[9] = 13
  <2>1. Pulse[9] = to[9 + 1]
    BY <1>1
  <2> QED
    BY <2>1
<1>12. Pulse[10] = 5
  <2>1. Pulse[10] = to[10 + 1]
    BY <1>1
  <2> QED
    BY <2>1
<1>13. Pulse[11] = 12
  <2>1. Pulse[11] = to[11 + 1]
    BY <1>1
  <2> QED
    BY <2>1
<1>14. Pulse[12] = 4
  <2>1. Pulse[12] = to[12 + 1]
    BY <1>1
  <2> QED
    BY <2>1
<1> QED
  BY <1>2, <1>3, <1>4, <1>5, <1>6, <1>7, <1>8, <1>9, <1>10, <1>11, <1>12, <1>13, <1>14

(* The bits of the squawk, by the pulses of its code.                      *)
LEMMA DecodedPulses ==
  ASSUME NEW ac
  PROVE  /\ decode_id13(ac) \subseteq {0, 1, 2, 4, 5, 6, 8, 9, 10, 12, 13, 14}
         /\ 0 \in decode_id13(ac) <=> 4 \in ac
         /\ 1 \in decode_id13(ac) <=> 2 \in ac
         /\ 2 \in decode_id13(ac) <=> 0 \in ac
         /\ 4 \in decode_id13(ac) <=> 12 \in ac
         /\ 5 \in decode_id13(ac) <=> 10 \in ac
         /\ 6 \in decode_id13(ac) <=> 8 \in ac
         /\ 8 \in decode_id13(ac) <=> 5 \in ac
         /\ 9 \in decode_id13(ac) <=> 3 \in ac
         /\ 10 \in decode_id13(ac) <=> 1 \in ac
         /\ 12 \in decode_id13(ac) <=> 11 \in ac
         /\ 13 \in decode_id13(ac) <=> 9 \in ac
         /\ 14 \in decode_id13(ac) <=> 7 \in ac
<1>1. \A x \in DOMAIN Pulse : x = 0 \/ x = 1 \/ x = 2 \/ x = 3 \/ x = 4 \/ x = 5 \/ x = 7 \/ x = 8 \/ x = 9 \/
      x = 10 \/ x = 11 \/ x = 12
  <2>1. \A x \in (0 .. 12) \ {6} : x = 0 \/ x = 1 \/ x = 2 \/ x = 3 \/ x = 4 \/ x = 5 \/ x = 7 \/ x = 8 \/
        x = 9 \/ x = 10 \/ x = 11 \/ x = 12
    OBVIOUS
  <2> QED
    BY <2>1, PulseIs
<1>2. \A e : e \in decode_id13(ac) <=> \E x \in DOMAIN Pulse : x \in ac /\ Pulse[x] = e
  BY DEF decode_id13
<1>3. decode_id13(ac) \subseteq {0, 1, 2, 4, 5, 6, 8, 9, 10, 12, 13, 14}
  BY <1>1, <1>2, PulseIs
<1>4. 0 \in decode_id13(ac) <=> 4 \in ac
  BY <1>1, <1>2, PulseIs
<1>5. 1 \in decode_id13(ac) <=> 2 \in ac
  BY <1>1, <1>2, PulseIs
<1>6. 2 \in decode_id13(ac) <=> 0 \in ac
  BY <1>1, <1>2, PulseIs
<1>7. 4 \in decode_id13(ac) <=> 12 \in ac
  BY <1>1, <1>2, PulseIs
<1>8. 5 \in decode_id13(ac) <=> 10 \in ac
  BY <1>1, <1>2, PulseIs
<1>9. 6 \in decode_id13(ac) <=> 8 \in ac
  BY <1>1, <1>2, PulseIs
<1>10. 8 \in decode_id13(ac) <=> 5 \in ac
  BY <1>1, <1>2, PulseIs
<1>11. 9 \in decode_id13(ac) <=> 3 \in ac
  BY <1>1, <1>2, PulseIs
<1>12. 10 \in decode_id13(ac) <=> 1 \in ac
  BY <1>1, <1>2, PulseIs
<1>13. 12 \in decode_id13(ac) <=> 11 \in ac
  BY <1>1, <1>2, PulseIs
<1>14. 13 \in decode_id13(ac) <=> 9 \in ac
  BY <1>1, <1>2, PulseIs
<1>15. 14 \in decode_id13(ac) <=> 7 \in ac
  BY <1>1, <1>2, PulseIs
<1> QED
  BY <1>3, <1>4, <1>5, <1>6, <1>7, <1>8, <1>9, <1>10, <1>11, <1>12, <1>13, <1>14, <1>15

(* The pulses that a transponder sends for a squawk.                       *)
LEMMA DigitsAre ==
  ASSUME NEW sq, IsSquawk(sq)
  PROVE  /\ Digits(sq) \subseteq 0 .. 12
         /\ 12 \in Digits(sq) <=> HasBit(sq[4], 2)
         /\ 11 \in Digits(sq) <=> HasBit(sq[2], 2)
         /\ 10 \in Digits(sq) <=> HasBit(sq[4], 1)
         /\ 9 \in Digits(sq) <=> HasBit(sq[2], 1)
         /\ 8 \in Digits(sq) <=> HasBit(sq[4], 0)
         /\ 7 \in Digits(sq) <=> HasBit(sq[2], 0)
         /\ 5 \in Digits(sq) <=> HasBit(sq[1], 2)
         /\ 4 \in Digits(sq) <=> HasBit(sq[3], 2)
         /\ 3 \in Digits(sq) <=> HasBit(sq[1], 1)
         /\ 2 \in Digits(sq) <=> HasBit(sq[3], 1)
         /\ 1 \in Digits(sq) <=> HasBit(sq[1], 0)
         /\ 0 \in Digits(sq) <=> HasBit(sq[3], 0)
<1> DEFINE bit(d, n) == (sq[d] \div n) % 2
           pulses == <<bit(3, 1), bit(1, 1), bit(3, 2), bit(1, 2), bit(3, 4), bit(1, 4), 0,
                       bit(2, 1), bit(4, 1), bit(2, 2), bit(4, 2), bit(2, 4), bit(4, 4)>>
<1>1. Digits(sq) = {i \in 0 .. 12 : pulses[i + 1] = 1}
  BY DEF Digits
<1>2. \A d \in 1 .. 4 : /\ bit(d, 1) = 1 <=> HasBit(sq[d], 0)
                        /\ bit(d, 2) = 1 <=> HasBit(sq[d], 1)
                        /\ bit(d, 4) = 1 <=> HasBit(sq[d], 2)
  BY DEF HasBit
<1> HIDE DEF bit
<1>3. 12 \in Digits(sq) <=> HasBit(sq[4], 2)
  BY <1>1, <1>2
<1>4. 11 \in Digits(sq) <=> HasBit(sq[2], 2)
  BY <1>1, <1>2
<1>5. 10 \in Digits(sq) <=> HasBit(sq[4], 1)
  BY <1>1, <1>2
<1>6. 9 \in Digits(sq) <=> HasBit(sq[2], 1)
  BY <1>1, <1>2
<1>7. 8 \in Digits(sq) <=> HasBit(sq[4], 0)
  BY <1>1, <1>2
<1>8. 7 \in Digits(sq) <=> HasBit(sq[2], 0)
  BY <1>1, <1>2
<1>9. 5 \in Digits(sq) <=> HasBit(sq[1], 2)
  BY <1>1, <1>2
<1>10. 4 \in Digits(sq) <=> HasBit(sq[3], 2)
  BY <1>1, <1>2
<1>11. 3 \in Digits(sq) <=> HasBit(sq[1], 1)
  BY <1>1, <1>2
<1>12. 2 \in Digits(sq) <=> HasBit(sq[3], 1)
  BY <1>1, <1>2
<1>13. 1 \in Digits(sq) <=> HasBit(sq[1], 0)
  BY <1>1, <1>2
<1>14. 0 \in Digits(sq) <=> HasBit(sq[3], 0)
  BY <1>1, <1>2
<1> HIDE DEF pulses
<1> QED
  BY <1>1, <1>3, <1>4, <1>5, <1>6, <1>7, <1>8, <1>9, <1>10, <1>11, <1>12, <1>13, <1>14

(* The bits of a squawk's number are those of its four digits.             *)
LEMMA SquawkHas ==
  ASSUME NEW sq, IsSquawk(sq), NEW n \in Nat, n = SquawkNumber(sq)
  PROVE  /\ Fits(n, 16)
         /\ ~HasBit(n, 3) /\ ~HasBit(n, 7) /\ ~HasBit(n, 11) /\ ~HasBit(n, 15)
         /\ (HasBit(n, 12) <=> HasBit(sq[1], 0)) /\ (HasBit(n, 13) <=> HasBit(sq[1], 1))
         /\ (HasBit(n, 14) <=> HasBit(sq[1], 2))
         /\ (HasBit(n, 8) <=> HasBit(sq[2], 0)) /\ (HasBit(n, 9) <=> HasBit(sq[2], 1))
         /\ (HasBit(n, 10) <=> HasBit(sq[2], 2))
         /\ (HasBit(n, 4) <=> HasBit(sq[3], 0)) /\ (HasBit(n, 5) <=> HasBit(sq[3], 1))
         /\ (HasBit(n, 6) <=> HasBit(sq[3], 2))
         /\ (HasBit(n, 0) <=> HasBit(sq[4], 0)) /\ (HasBit(n, 1) <=> HasBit(sq[4], 1))
         /\ (HasBit(n, 2) <=> HasBit(sq[4], 2))
<1>1. PICK a \in Nat, b \in Nat, c \in Nat, d \in Nat :
        /\ a = sq[1] /\ b = sq[2] /\ c = sq[3] /\ d = sq[4]
        /\ a < 8 /\ b < 8 /\ c < 8 /\ d < 8
  <2>1. sq \in [1 .. 4 -> 0 .. 7]
    BY DEF IsSquawk
  <2>2. sq[1] \in 0 .. 7 /\ sq[2] \in 0 .. 7 /\ sq[3] \in 0 .. 7 /\ sq[4] \in 0 .. 7
    BY <2>1
  <2>3. \A x \in 0 .. 7 : x \in Nat /\ x < 8
    OBVIOUS
  <2> QED
    BY <2>2, <2>3, Zenon
<1>2. PICK h2 \in Nat : h2 = 16 * a + b
  OBVIOUS
<1>3. PICK h3 \in Nat : h3 = 16 * h2 + c
  OBVIOUS
<1>4. Sixteenth(h2, a, b) /\ Sixteenth(h3, h2, c) /\ Sixteenth(n, h3, d)
  <2>1. n = 16 * h3 + d
    BY <1>1, <1>2, <1>3 DEF SquawkNumber
  <2> QED
    BY <1>1, <1>2, <1>3, <2>1 DEF Sixteenth
<1>5. Fits(n, 16)
  BY <1>1 DEF Fits, SquawkNumber
<1>6. \A x \in Nat : x < 8 => ~HasBit(x, 3)
  BY DEF HasBit
<1> HIDE DEF SquawkNumber
<1>7. /\ \A e \in 0 .. 3 : HasBit(n, e) <=> HasBit(d, e)
      /\ \A e \in 0 .. 3 : HasBit(n, e + 4) <=> HasBit(c, e)
      /\ \A e \in 0 .. 3 : HasBit(n, e + 8) <=> HasBit(b, e)
      /\ \A e \in 0 .. 3 : HasBit(n, e + 12) <=> HasBit(a, e)
  <2>1. /\ \A e \in 0 .. 11 : HasBit(h3, e) <=> HasBit(n, e + 4)
        /\ \A e \in 0 .. 3 : HasBit(d, e) <=> HasBit(n, e)
    BY <1>4, SixteenthBits
  <2>2. /\ \A e \in 0 .. 11 : HasBit(h2, e) <=> HasBit(h3, e + 4)
        /\ \A e \in 0 .. 3 : HasBit(c, e) <=> HasBit(h3, e)
    BY <1>4, SixteenthBits
  <2>3. /\ \A e \in 0 .. 11 : HasBit(a, e) <=> HasBit(h2, e + 4)
        /\ \A e \in 0 .. 3 : HasBit(b, e) <=> HasBit(h2, e)
    BY <1>4, SixteenthBits
  <2>4. ASSUME NEW e \in 0 .. 3 PROVE HasBit(n, e + 4) <=> HasBit(c, e)
    <3>1. e \in 0 .. 11
      OBVIOUS
    <3> QED
      BY <3>1, <2>1, <2>2
  <2>5. ASSUME NEW e \in 0 .. 3 PROVE HasBit(n, e + 8) <=> HasBit(b, e)
    <3>1. e \in 0 .. 11 /\ e + 4 \in 0 .. 11 /\ (e + 4) + 4 = e + 8
      OBVIOUS
    <3>2. HasBit(h3, e + 4) <=> HasBit(n, e + 8)
      BY <3>1, <2>1
    <3> QED
      BY <3>1, <3>2, <2>2, <2>3
  <2>6. ASSUME NEW e \in 0 .. 3 PROVE HasBit(n, e + 12) <=> HasBit(a, e)
    <3>1. e \in 0 .. 11 /\ e + 4 \in 0 .. 11 /\ e + 8 \in 0 .. 11 /\ (e + 4) + 4 = e + 8 /\ (e + 8) + 4 = e + 12
      OBVIOUS
    <3>2. HasBit(h3, e + 8) <=> HasBit(n, e + 12)
      BY <3>1, <2>1
    <3>3. HasBit(h2, e + 4) <=> HasBit(h3, e + 8)
      BY <3>1, <2>2
    <3>4. HasBit(a, e) <=> HasBit(h2, e + 4)
      BY <3>1, <2>3
    <3> QED
      BY <3>2, <3>3, <3>4
  <2> QED
    BY <2>1, <2>4, <2>5, <2>6
<1>8. ~HasBit(a, 3) /\ ~HasBit(b, 3) /\ ~HasBit(c, 3) /\ ~HasBit(d, 3)
  BY <1>1, <1>6
<1>9. \A e \in {0, 1, 2, 3} : e \in 0 .. 3
  OBVIOUS
<1> HIDE DEF HasBit
<1>10. (HasBit(n, 12) <=> HasBit(a, 0)) /\ (HasBit(n, 13) <=> HasBit(a, 1)) /\
      (HasBit(n, 14) <=> HasBit(a, 2)) /\ (HasBit(n, 15) <=> HasBit(a, 3))
  <2>1. 0 + 12 = 12 /\ 1 + 12 = 13 /\ 2 + 12 = 14 /\ 3 + 12 = 15
    OBVIOUS
  <2> QED
    BY <2>1, <1>7, <1>9
<1>11. (HasBit(n, 8) <=> HasBit(b, 0)) /\ (HasBit(n, 9) <=> HasBit(b, 1)) /\
      (HasBit(n, 10) <=> HasBit(b, 2)) /\ (HasBit(n, 11) <=> HasBit(b, 3))
  <2>1. 0 + 8 = 8 /\ 1 + 8 = 9 /\ 2 + 8 = 10 /\ 3 + 8 = 11
    OBVIOUS
  <2> QED
    BY <2>1, <1>7, <1>9
<1>12. (HasBit(n, 4) <=> HasBit(c, 0)) /\ (HasBit(n, 5) <=> HasBit(c, 1)) /\ (HasBit(n, 6) <=> HasBit(c, 2)) /\
      (HasBit(n, 7) <=> HasBit(c, 3))
  <2>1. 0 + 4 = 4 /\ 1 + 4 = 5 /\ 2 + 4 = 6 /\ 3 + 4 = 7
    OBVIOUS
  <2> QED
    BY <2>1, <1>7, <1>9
<1>13. (HasBit(n, 0) <=> HasBit(d, 0)) /\ (HasBit(n, 1) <=> HasBit(d, 1)) /\ (HasBit(n, 2) <=> HasBit(d, 2)) /\
      (HasBit(n, 3) <=> HasBit(d, 3))
  BY <1>7, <1>9
<1> QED
  BY <1>1, <1>5, <1>8, <1>10, <1>11, <1>12, <1>13

(* The code that decode_id13 takes out of a message in which the digits    *)
(* have been put from bit f on.                                            *)
Codes(ac, sq) == \A x \in 0 .. 12 : x \in ac <=> 12 - x \in Digits(sq)

(* The number of a decoded code is that of the squawk.                     *)
LEMMA SquawkIsDecoded ==
  ASSUME NEW sq, IsSquawk(sq), NEW n \in Nat, n = SquawkNumber(sq), NEW ac, Codes(ac, sq)
  PROVE  decode_id13(ac) = BitsOf(n, 16) /\ Number(decode_id13(ac)) = n
<1>1. (0 \in ac <=> 12 \in Digits(sq)) /\ (1 \in ac <=> 11 \in Digits(sq)) /\
      (2 \in ac <=> 10 \in Digits(sq)) /\ (3 \in ac <=> 9 \in Digits(sq)) /\ (4 \in ac <=> 8 \in Digits(sq)) /\
      (5 \in ac <=> 7 \in Digits(sq)) /\ (7 \in ac <=> 5 \in Digits(sq)) /\ (8 \in ac <=> 4 \in Digits(sq)) /\
      (9 \in ac <=> 3 \in Digits(sq)) /\ (10 \in ac <=> 2 \in Digits(sq)) /\
      (11 \in ac <=> 1 \in Digits(sq)) /\ (12 \in ac <=> 0 \in Digits(sq))
  <2>1. 0 \in 0 .. 12 /\ 12 - 0 = 12 /\ 1 \in 0 .. 12 /\ 12 - 1 = 11 /\ 2 \in 0 .. 12 /\ 12 - 2 = 10 /\
        3 \in 0 .. 12 /\ 12 - 3 = 9 /\ 4 \in 0 .. 12 /\ 12 - 4 = 8 /\ 5 \in 0 .. 12 /\ 12 - 5 = 7 /\
        7 \in 0 .. 12 /\ 12 - 7 = 5 /\ 8 \in 0 .. 12 /\ 12 - 8 = 4 /\ 9 \in 0 .. 12 /\ 12 - 9 = 3 /\
        10 \in 0 .. 12 /\ 12 - 10 = 2 /\ 11 \in 0 .. 12 /\ 12 - 11 = 1 /\ 12 \in 0 .. 12 /\ 12 - 12 = 0
    OBVIOUS
  <2> QED
    BY <2>1 DEF Codes
<1>2. 0 \in decode_id13(ac) <=> HasBit(n, 0)
  BY <1>1, DecodedPulses, DigitsAre, SquawkHas
<1>3. 1 \in decode_id13(ac) <=> HasBit(n, 1)
  BY <1>1, DecodedPulses, DigitsAre, SquawkHas
<1>4. 2 \in decode_id13(ac) <=> HasBit(n, 2)
  BY <1>1, DecodedPulses, DigitsAre, SquawkHas
<1>5. 3 \in decode_id13(ac) <=> HasBit(n, 3)
  <2>1. 3 \notin {0, 1, 2, 4, 5, 6, 8, 9, 10, 12, 13, 14}
    OBVIOUS
  <2> QED
    BY <2>1, DecodedPulses, SquawkHas
<1>6. 4 \in decode_id13(ac) <=> HasBit(n, 4)
  BY <1>1, DecodedPulses, DigitsAre, SquawkHas
<1>7. 5 \in decode_id13(ac) <=> HasBit(n, 5)
  BY <1>1, DecodedPulses, DigitsAre, SquawkHas
<1>8. 6 \in decode_id13(ac) <=> HasBit(n, 6)
  BY <1>1, DecodedPulses, DigitsAre, SquawkHas
<1>9. 7 \in decode_id13(ac) <=> HasBit(n, 7)
  <2>1. 7 \notin {0, 1, 2, 4, 5, 6, 8, 9, 10, 12, 13, 14}
    OBVIOUS
  <2> QED
    BY <2>1, DecodedPulses, SquawkHas
<1>10. 8 \in decode_id13(ac) <=> HasBit(n, 8)
  BY <1>1, DecodedPulses, DigitsAre, SquawkHas
<1>11. 9 \in decode_id13(ac) <=> HasBit(n, 9)
  BY <1>1, DecodedPulses, DigitsAre, SquawkHas
<1>12. 10 \in decode_id13(ac) <=> HasBit(n, 10)
  BY <1>1, DecodedPulses, DigitsAre, SquawkHas
<1>13. 11 \in decode_id13(ac) <=> HasBit(n, 11)
  <2>1. 11 \notin {0, 1, 2, 4, 5, 6, 8, 9, 10, 12, 13, 14}
    OBVIOUS
  <2> QED
    BY <2>1, DecodedPulses, SquawkHas
<1>14. 12 \in decode_id13(ac) <=> HasBit(n, 12)
  BY <1>1, DecodedPulses, DigitsAre, SquawkHas
<1>15. 13 \in decode_id13(ac) <=> HasBit(n, 13)
  BY <1>1, DecodedPulses, DigitsAre, SquawkHas
<1>16. 14 \in decode_id13(ac) <=> HasBit(n, 14)
  BY <1>1, DecodedPulses, DigitsAre, SquawkHas
<1>17. 15 \in decode_id13(ac) <=> HasBit(n, 15)
  <2>1. 15 \notin {0, 1, 2, 4, 5, 6, 8, 9, 10, 12, 13, 14}
    OBVIOUS
  <2> QED
    BY <2>1, DecodedPulses, SquawkHas
<1>18. \A e \in 0 .. 15 : e = 0 \/ e = 1 \/ e = 2 \/ e = 3 \/ e = 4 \/ e = 5 \/ e = 6 \/ e = 7 \/ e = 8 \/
      e = 9 \/ e = 10 \/ e = 11 \/ e = 12 \/ e = 13 \/ e = 14 \/ e = 15
  OBVIOUS
<1>19. \A e \in 0 .. 15 : e \in decode_id13(ac) <=> HasBit(n, e)
  BY <1>18, <1>2, <1>3, <1>4, <1>5, <1>6, <1>7, <1>8, <1>9, <1>10, <1>11, <1>12, <1>13, <1>14, <1>15, <1>16, <1>17
<1>20. \A e \in 0 .. 15 : e \in BitsOf(n, 16) <=> HasBit(n, e)
  <2>1. \A e \in 0 .. 15 : e \in Int /\ e >= 0 /\ e < 16
    OBVIOUS
  <2>2. 16 \in 0 .. 17
    OBVIOUS
  <2> QED
    BY <2>1, <2>2, BitsHave
<1>21. decode_id13(ac) \subseteq 0 .. 15
  <2>1. {0, 1, 2, 4, 5, 6, 8, 9, 10, 12, 13, 14} \subseteq 0 .. 15
    OBVIOUS
  <2> QED
    BY <2>1, DecodedPulses, Zenon
<1>22. BitsOf(n, 16) \subseteq 0 .. 15
  BY DEF BitsOf, Exp
<1>23. decode_id13(ac) = BitsOf(n, 16)
  <2>1. \A e \in 0 .. 15 : e \in decode_id13(ac) <=> e \in BitsOf(n, 16)
    BY <1>19, <1>20
  <2> QED
    BY <2>1, <1>21, <1>22, SameSet
<1>24. Number(BitsOf(n, 16)) = n
  <2>1. 16 \in 0 .. 17 /\ Fits(n, 16)
    BY SquawkHas
  <2> QED
    BY <2>1, NumberBelow
<1> QED
  BY <1>23, <1>24

(* Pulses that were sent in 13 bits of a message are the code there.       *)
LEMMA CodesIn ==
  ASSUME NEW sq, NEW f \in Nat, NEW l \in Nat, l = f + 12, NEW msg,
         \A b \in f .. l : b \in msg <=> b - f \in Digits(sq)
  PROVE  Codes(Exponents(msg, f, l), sq)
<1>1. ASSUME NEW x \in 0 .. 12 PROVE x \in Exponents(msg, f, l) <=> 12 - x \in Digits(sq)
  <2>1. \A b \in f .. l : x = l - b <=> b = l - x
    OBVIOUS
  <2>2. l - x \in f .. l /\ (l - x) - f = 12 - x
    OBVIOUS
  <2>3. x \in Exponents(msg, f, l) <=> l - x \in msg
    BY <2>1, <2>2 DEF Exponents
  <2>4. l - x \in msg <=> (l - x) - f \in Digits(sq)
    BY <2>2
  <2> QED
    BY <2>2, <2>3, <2>4, Zenon
<1> QED
  BY <1>1 DEF Codes

(* Elements of a set that has been moved.                                  *)
LEMMA ShiftedIs ==
  ASSUME NEW S, S \subseteq Int, NEW by \in Int, NEW b \in Int
  PROVE  b \in Shifted(S, by) <=> b - by \in S
<1>1. \A x \in Int : b = x + by <=> x = b - by
  OBVIOUS
<1> QED
  BY <1>1 DEF Shifted

(* A squawk that was sent in a surveillance reply.                         *)
LEMMA SquawkIsRead ==
  ASSUME NEW sq, IsSquawk(sq), NEW msg, msg = Shifted(Digits(sq), 19) \cup Put(5, 0, 4)
  PROVE  LET m == parse_modes_message(msg, 56)
         IN  "squawk" \in DOMAIN m /\ Number(m["squawk"]) = SquawkNumber(sq)
<1>1. Put(5, 0, 4) \subseteq 0 .. 4
  BY PutWithin
<1>2. Digits(sq) \subseteq 0 .. 12 /\ Digits(sq) \subseteq Int
  <2>1. Digits(sq) \subseteq 0 .. 12
    BY DigitsAre
  <2>2. \A x \in 0 .. 12 : x \in Int
    OBVIOUS
  <2> QED
    BY <2>1, <2>2
<1>3. Shifted(Digits(sq), 19) \subseteq 19 .. 31
  <2>1. ASSUME NEW x \in Digits(sq) PROVE x + 19 \in 19 .. 31
    <3>1. x \in 0 .. 12
      BY <1>2
    <3> QED
      BY <3>1
  <2> QED
    BY <2>1 DEF Shifted
<1>4. Field(msg, 0, 4) = 5
  <2>1. \A i \in 0 .. 4 : i \in msg <=> i \in Put(5, 0, 4)
    BY <1>3
  <2>2. Fits(5, 4 - 0 + 1)
    BY DEF Fits
  <2> QED
    BY <2>1, <2>2, FieldOfPut
<1>5. Codes(Exponents(msg, 19, 31), sq)
  <2>1. ASSUME NEW b \in 19 .. 31 PROVE b \in msg <=> b - 19 \in Digits(sq)
    <3>1. b \in msg <=> b \in Shifted(Digits(sq), 19)
      BY <1>1
    <3>2. b \in Int
      OBVIOUS
    <3> QED
      BY <1>2, <3>1, <3>2, ShiftedIs
  <2> QED
    BY <2>1, CodesIn
<1>6. PICK ac : ac = Exponents(msg, 19, 31) /\ Codes(ac, sq)
  BY <1>5
<1>7. ParseDf(msg, 5) = [squawk |-> decode_id13(ac)]
  BY <1>6 DEF ParseDf
<1>8. parse_modes_message(msg, 56) = Joined([squawk |-> decode_id13(ac)], AirGround(msg))
  BY <1>4, <1>7 DEF parse_modes_message
<1>9. "squawk" \in DOMAIN [squawk |-> decode_id13(ac)] /\ [squawk |-> decode_id13(ac)]["squawk"] = decode_id13(ac)
  OBVIOUS
<1>10. PICK m : m = parse_modes_message(msg, 56) /\ "squawk" \in DOMAIN m /\ m["squawk"] = decode_id13(ac)
  BY <1>8, <1>9, LeftWins
<1>11. PICK n \in Nat : n = SquawkNumber(sq)
  BY DEF IsSquawk, SquawkNumber
<1>12. Number(decode_id13(ac)) = n
  BY <1>6, <1>11, SquawkIsDecoded
<1> QED
  BY <1>10, <1>11, <1>12

-----------------------------------------------------------------------------
(* Emergency.                                                              *)

(* An aircraft status with an emergency and a squawk.                      *)
EmergencyMe(e, sq) == Put(28, 0, 4) \cup {7} \cup Put(e, 8, 10) \cup Shifted(Digits(sq), 11)

(* A 1 in the three bits of a subtype.                                     *)
LEMMA OneOfThree == Put(1, 5, 7) = {7}
<1>1. Put(1, 5, 7) \subseteq 5 .. 7
  BY PutWithin
<1>2. 5 \in Put(1, 5, 7) <=> HasBit(1, 2)
  BY PutHas
<1>3. 6 \in Put(1, 5, 7) <=> HasBit(1, 1)
  BY PutHas
<1>4. 7 \in Put(1, 5, 7) <=> HasBit(1, 0)
  BY PutHas
<1>5. ~HasBit(1, 2) /\ ~HasBit(1, 1) /\ HasBit(1, 0)
  BY DEF HasBit
<1>6. \A b \in 5 .. 7 : b = 5 \/ b = 6 \/ b = 7
  OBVIOUS
<1> QED
  BY <1>1, <1>2, <1>3, <1>4, <1>5, <1>6

(* Both are read as they were sent: a squawk of zeros is taken for none,   *)
(* and so are the emergencies 0 and 7.                                     *)
LEMMA EmergencyIsRead ==
  ASSUME NEW e \in 0 .. 7, NEW sq, IsSquawk(sq), NEW me, me = EmergencyMe(e, sq)
  PROVE  /\ me \subseteq 0 .. 55
         /\ SquawkNumber(sq) # 0 => /\ "squawk" \in DOMAIN Squitter(me)
                                    /\ Number(Squitter(me)["squawk"]) = SquawkNumber(sq)
         /\ e \in 1 .. 6 => "emergency" \in DOMAIN Squitter(me) /\ Squitter(me)["emergency"] = e
<1>1. Put(28, 0, 4) \subseteq 0 .. 4 /\ Put(e, 8, 10) \subseteq 8 .. 10
  BY PutWithin
<1>2. Digits(sq) \subseteq 0 .. 12 /\ Digits(sq) \subseteq Int
  <2>1. Digits(sq) \subseteq 0 .. 12
    BY DigitsAre
  <2>2. \A x \in 0 .. 12 : x \in Int
    OBVIOUS
  <2> QED
    BY <2>1, <2>2
<1>3. Shifted(Digits(sq), 11) \subseteq 11 .. 23
  <2>1. ASSUME NEW x \in Digits(sq) PROVE x + 11 \in 11 .. 23
    <3>1. x \in 0 .. 12
      BY <1>2
    <3> QED
      BY <3>1
  <2> QED
    BY <2>1 DEF Shifted
<1>4. me = Put(28, 0, 4) \cup {7} \cup Put(e, 8, 10) \cup Shifted(Digits(sq), 11)
  BY DEF EmergencyMe
<1>5. me \subseteq 0 .. 55
  BY <1>1, <1>3, <1>4
<1>6. Field(me, 0, 4) = 28
  <2>1. \A i \in 0 .. 4 : i \in me <=> i \in Put(28, 0, 4)
    BY <1>1, <1>3, <1>4
  <2>2. Fits(28, 4 - 0 + 1)
    BY DEF Fits
  <2> QED
    BY <2>1, <2>2, FieldOfPut
<1>7. Field(me, 5, 7) = 1
  <2>1. Put(1, 5, 7) = {7}
    BY OneOfThree
  <2>2. \A i \in 5 .. 7 : i \in me <=> i \in Put(1, 5, 7)
    BY <1>1, <1>3, <1>4, <2>1
  <2>3. Fits(1, 7 - 5 + 1)
    BY DEF Fits
  <2> QED
    BY <2>2, <2>3, FieldOfPut
<1>8. Field(me, 8, 10) = e
  <2>1. \A i \in 8 .. 10 : i \in me <=> i \in Put(e, 8, 10)
    BY <1>1, <1>3, <1>4
  <2>2. Fits(e, 10 - 8 + 1)
    BY DEF Fits
  <2> QED
    BY <2>1, <2>2, FieldOfPut
<1>9. Codes(Exponents(me, 11, 23), sq)
  <2>1. ASSUME NEW b \in 11 .. 23 PROVE b \in me <=> b - 11 \in Digits(sq)
    <3>1. b \in me <=> b \in Shifted(Digits(sq), 11)
      BY <1>1, <1>4
    <3>2. b \in Int
      OBVIOUS
    <3> QED
      BY <1>2, <3>1, <3>2, ShiftedIs
  <2> QED
    BY <2>1, CodesIn
<1>10. PICK ac : ac = Exponents(me, 11, 23) /\ Codes(ac, sq)
  BY <1>9
<1> DEFINE urgent == IF e \in 1 .. 6 THEN [emergency |-> e] ELSE Nothing
<1>11. Squitter(me) = Joined(urgent, Squawk(ac))
  <2>1. Squitter(me) = AircraftStatus(me, 28, 1)
    BY <1>6, <1>7 DEF Squitter
  <2> QED
    BY <2>1, <1>8, <1>10 DEF AircraftStatus
<1>12. "squawk" \notin DOMAIN urgent
  BY DEF Nothing
<1>13. e \in 1 .. 6 => "emergency" \in DOMAIN urgent /\ urgent["emergency"] = e
  OBVIOUS
<1> HIDE DEF urgent
<1>14. e \in 1 .. 6 => "emergency" \in DOMAIN Squitter(me) /\ Squitter(me)["emergency"] = e
  BY <1>11, <1>13, LeftWins
<1>15. PICK n \in Nat : n = SquawkNumber(sq)
  BY DEF IsSquawk, SquawkNumber
<1>16. n # 0 => "squawk" \in DOMAIN Squitter(me) /\ Number(Squitter(me)["squawk"]) = n
  <2> SUFFICES ASSUME n # 0 PROVE "squawk" \in DOMAIN Squitter(me) /\ Number(Squitter(me)["squawk"]) = n
    OBVIOUS
  <2>1. Number(decode_id13(ac)) = n
    BY <1>10, <1>15, SquawkIsDecoded
  <2>2. ac # {}
    <3>1. decode_id13({}) = {}
      BY DEF decode_id13
    <3>2. Number({}) = 0
      BY NumberStep
    <3> QED
      BY <3>1, <3>2, <2>1
  <2>3. Squawk(ac) = [squawk |-> decode_id13(ac)]
    BY <2>2 DEF Squawk
  <2>4. "squawk" \in DOMAIN [squawk |-> decode_id13(ac)] /\ [squawk |-> decode_id13(ac)]["squawk"] = decode_id13(ac)
    OBVIOUS
  <2>5. "squawk" \in DOMAIN Squitter(me) /\ Squitter(me)["squawk"] = decode_id13(ac)
    BY <1>11, <1>12, <2>3, <2>4, RightAdds
  <2> QED
    BY <2>1, <2>5
<1> QED
  BY <1>5, <1>14, <1>15, <1>16

-----------------------------------------------------------------------------
(* Callsign.                                                               *)

(* A name of n characters, and what is said of one character.              *)
IsChar(c) == c \in Nat /\ c # 0 /\ Fits(c, 6)

(* A name of n characters, without blanks at its ends.                     *)
IsName(name, n) ==
  /\ name \in Seq(Nat) /\ Len(name) = n
  /\ \A i \in 1 .. n : IsChar(name[i])
  /\ name[1] # Space /\ name[n] # Space

(* A function into a set is one into a larger set.                         *)
LEMMA IntoMore == ASSUME NEW A, NEW S, NEW T, S \subseteq T, NEW f \in [A -> S] PROVE f \in [A -> T]
OBVIOUS

(* What RemarksAssumption says of a callsign is that it is a name.         *)
LEMMA NamesAre ==
  ASSUME NEW name, NEW n \in 1 .. 8, name \in [1 .. n -> 1 .. 63], Space \notin {name[1], name[n]}
  PROVE  IsName(name, n)
<1>1. \A c \in 1 .. 63 : IsChar(c)
  <2> SUFFICES ASSUME NEW c \in Nat, c >= 1, c <= 63 PROVE IsChar(c)
    OBVIOUS
  <2> QED
    BY DEF IsChar, Fits
<1>2. name \in [1 .. n -> Nat]
  <2>1. 1 .. 63 \subseteq Nat
    OBVIOUS
  <2> QED
    BY <2>1, IntoMore, Zenon
<1>3. name \in Seq(Nat) /\ Len(name) = n
  BY <1>2
<1>4. \A i \in 1 .. n : name[i] \in 1 .. 63
  OBVIOUS
<1>5. \A i \in 1 .. n : IsChar(name[i])
  BY <1>1, <1>4, Zenon
<1>6. name[1] # Space /\ name[n] # Space
  OBVIOUS
<1> QED
  BY <1>3, <1>5, <1>6 DEF IsName

(* The characters that are sent.                                           *)
LEMMA PaddedIs ==
  ASSUME NEW name, NEW n \in 1 .. 8, IsName(name, n)
  PROVE  /\ DOMAIN Padded(name) = 1 .. 8
         /\ \A i \in 1 .. 8 : IsChar(Padded(name)[i])
         /\ \A i \in 1 .. n : Padded(name)[i] = name[i]
         /\ \A i \in 1 .. 8 : i > n => Padded(name)[i] = Space
<1>1. IsChar(Space)
  BY DEF IsChar, Space, Fits
<1>2. Len(name) = n /\ \A i \in 1 .. n : IsChar(name[i])
  BY DEF IsName
<1>3. ASSUME NEW i \in 1 .. 8, i <= n PROVE Padded(name)[i] = name[i]
  BY <1>2, <1>3 DEF Padded
<1>4. ASSUME NEW i \in 1 .. 8, i > n PROVE Padded(name)[i] = Space
  BY <1>2, <1>4 DEF Padded
<1>5. ASSUME NEW i \in 1 .. 8 PROVE IsChar(Padded(name)[i])
  <2>1. CASE i <= n
    <3>1. i \in 1 .. n
      BY <2>1
    <3> QED
      BY <1>2, <1>3, <2>1, <3>1
  <2>2. CASE i > n
    BY <1>1, <1>4, <2>2
  <2> QED
    BY <2>1, <2>2
<1>6. \A i \in 1 .. n : i \in 1 .. 8 /\ i <= n
  OBVIOUS
<1> QED
  BY <1>3, <1>4, <1>5, <1>6 DEF Padded

(* An identification with a name.                                          *)
CallsignMe(name) == Put(4, 0, 4) \cup UNION {Put(Padded(name)[i], 2 + 6 * i, 7 + 6 * i) : i \in 1 .. 8}

(* Each of the eight characters is read from its six bits.                 *)
LEMMA CharacterIsRead ==
  ASSUME NEW name, NEW n \in 1 .. 8, IsName(name, n), NEW me, me = CallsignMe(name)
  PROVE  /\ me \subseteq 0 .. 55
         /\ Field(me, 0, 4) = 4
         /\ \A i \in 1 .. 8 : Field(me, 2 + 6 * i, 7 + 6 * i) = Padded(name)[i]
<1> DEFINE P(i) == Put(Padded(name)[i], 2 + 6 * i, 7 + 6 * i)
<1>1. \A b : b \in me <=> b \in Put(4, 0, 4) \/ \E i \in 1 .. 8 : b \in P(i)
  BY DEF CallsignMe
<1>2. Put(4, 0, 4) \subseteq 0 .. 4
  BY PutWithin
<1>3. ASSUME NEW i \in 1 .. 8 PROVE P(i) \subseteq 2 + 6 * i .. 7 + 6 * i
  BY PutWithin
<1> HIDE DEF P
<1>4. ASSUME NEW b \in me PROVE b \in 0 .. 55
  <2>1. CASE b \in Put(4, 0, 4)
    BY <1>2, <2>1
  <2>2. CASE \E i \in 1 .. 8 : b \in P(i)
    <3>1. PICK i \in 1 .. 8 : b \in P(i)
      BY <2>2
    <3>2. b \in 2 + 6 * i .. 7 + 6 * i
      BY <1>3, <3>1
    <3> QED
      BY <3>2
  <2> QED
    BY <1>1, <2>1, <2>2
<1>5. Field(me, 0, 4) = 4
  <2>1. ASSUME NEW b \in 0 .. 4 PROVE b \in me <=> b \in Put(4, 0, 4)
    <3>1. ASSUME NEW i \in 1 .. 8 PROVE b \notin P(i)
      <4>1. b \notin 2 + 6 * i .. 7 + 6 * i
        OBVIOUS
      <4> QED
        BY <1>3, <4>1
    <3> QED
      BY <1>1, <3>1
  <2>2. Fits(4, 4 - 0 + 1)
    BY DEF Fits
  <2> QED
    BY <2>1, <2>2, FieldOfPut
<1>6. ASSUME NEW i \in 1 .. 8 PROVE Field(me, 2 + 6 * i, 7 + 6 * i) = Padded(name)[i]
  <2>1. PICK f \in Int : f = 2 + 6 * i
    OBVIOUS
  <2>2. PICK l \in Int : l = 7 + 6 * i
    OBVIOUS
  <2>3. f <= l /\ l <= f + 16 /\ l - f + 1 = 6
    BY <2>1, <2>2
  <2>4. PICK c : c = Padded(name)[i] /\ IsChar(c)
    BY PaddedIs
  <2>5. P(i) = Put(c, f, l)
    BY <2>1, <2>2, <2>4 DEF P
  <2>6. ASSUME NEW b \in f .. l PROVE b \in me <=> b \in Put(c, f, l)
    <3>1. b \notin Put(4, 0, 4)
      <4>1. b \notin 0 .. 4
        BY <2>1, <2>2
      <4> QED
        BY <1>2, <4>1
    <3>2. ASSUME NEW j \in 1 .. 8, b \in P(j) PROVE j = i
      <4>1. b \in 2 + 6 * j .. 7 + 6 * j
        BY <1>3, <3>2
      <4> QED
        BY <2>1, <2>2, <4>1
    <3> QED
      BY <1>1, <2>5, <3>1, <3>2
  <2>7. Field(me, f, l) = c
    BY <2>3, <2>4, <2>6, FieldOfPut DEF IsChar
  <2> QED
    BY <2>1, <2>2, <2>4, <2>7
<1> QED
  BY <1>4, <1>5, <1>6

(* What is left of the characters when those that are sent in addition are *)
(* taken away.                                                             *)
LEMMA TrimmedIs ==
  ASSUME NEW name, NEW n \in 1 .. 8, IsName(name, n)
  PROVE  Trimmed(Padded(name)) = name
<1> DEFINE chars == Padded(name)
<1> DEFINE ink == {i \in DOMAIN chars : chars[i] # Space}
<1>1. DOMAIN chars = 1 .. 8
  BY PaddedIs
<1>2. \A i \in 1 .. n : chars[i] = name[i]
  BY PaddedIs
<1>3. \A i \in 1 .. 8 : i > n => chars[i] = Space
  BY PaddedIs
<1>4. name[1] # Space /\ name[n] # Space
  BY DEF IsName
<1>5. 1 \in 1 .. 8 /\ 1 \in 1 .. n /\ n \in 1 .. n
  OBVIOUS
<1> HIDE DEF chars
<1>6. 1 \in ink /\ n \in ink
  BY <1>1, <1>2, <1>4, <1>5
<1>7. \A i \in ink : i \in Int /\ 1 <= i /\ i <= n
  BY <1>1, <1>3
<1> HIDE DEF ink
<1>8. Min(ink) = 1
  <2>1. \A y \in ink : 1 <= y
    BY <1>7
  <2>2. \A x \in ink : (\A y \in ink : x <= y) => x = 1
    BY <1>6, <1>7
  <2> QED
    BY <1>6, <2>1, <2>2, Zenon DEF Min
<1>9. Max(ink) = n
  <2>1. \A y \in ink : n >= y
    BY <1>7
  <2>2. \A x \in ink : (\A y \in ink : x >= y) => x = n
    BY <1>6, <1>7
  <2> QED
    BY <1>6, <2>1, <2>2, Zenon DEF Max
<1>10. Trimmed(chars) = SubSeq(chars, 1, n)
  BY <1>6, <1>8, <1>9 DEF Trimmed, ink
<1>11. SubSeq(chars, 1, n) = [i \in 1 .. n |-> chars[i]]
  BY DEF SubSeq
<1>12. name = [i \in 1 .. n |-> name[i]]
  BY DEF IsName
<1>13. [i \in 1 .. n |-> chars[i]] = [i \in 1 .. n |-> name[i]]
  BY <1>2
<1> QED
  BY <1>10, <1>11, <1>12, <1>13 DEF chars

(* A callsign is read as it was sent.                                      *)
LEMMA CallsignIsRead ==
  ASSUME NEW name, NEW n \in 1 .. 8, IsName(name, n), NEW me, me = CallsignMe(name)
  PROVE  /\ me \subseteq 0 .. 55
         /\ "callsign" \in DOMAIN Squitter(me)
         /\ Squitter(me)["callsign"] = name
<1> DEFINE chars == [i \in 1 .. 8 |-> Field(me, 8 + 6 * (i - 1), 8 + 6 * i - 1)]
<1>1. chars = Padded(name)
  <2>1. ASSUME NEW i \in 1 .. 8 PROVE Field(me, 8 + 6 * (i - 1), 8 + 6 * i - 1) = Padded(name)[i]
    <3>1. 8 + 6 * (i - 1) = 2 + 6 * i /\ 8 + 6 * i - 1 = 7 + 6 * i
      OBVIOUS
    <3>2. Field(me, 2 + 6 * i, 7 + 6 * i) = Padded(name)[i]
      BY CharacterIsRead
    <3> QED
      BY <3>1, <3>2
  <2>2. Padded(name) = [i \in 1 .. 8 |-> Padded(name)[i]]
    BY DEF Padded
  <2> QED
    BY <2>1, <2>2
<1>2. \A i \in 1 .. Len(chars) : ~(chars[i] = 0)
  BY <1>1, PaddedIs DEF IsChar
<1>3. SelectInSeq(chars, LAMBDA c : c = 0) = 0
  BY <1>2 DEF SelectInSeq
<1>4. Callsign(me, 8, 8) = Trimmed(chars)
  BY <1>3 DEF Callsign
<1>5. Callsign(me, 8, 8) = name
  BY <1>1, <1>4, TrimmedIs
<1>6. name # <<>>
  BY DEF IsName
<1>7. Squitter(me) = Identification(me)
  <2>1. Field(me, 0, 4) = 4
    BY CharacterIsRead
  <2> QED
    BY <2>1 DEF Squitter
<1>8. Squitter(me) = [callsign |-> name]
  BY <1>5, <1>6, <1>7 DEF Identification
<1>9. me \subseteq 0 .. 55
  BY CharacterIsRead
<1> QED
  BY <1>8, <1>9

-----------------------------------------------------------------------------
(* Speed.                                                                  *)

(* A component of a speed, and the bit that is its sign.                   *)
Knots(v, code) == v \in Int /\ code \in Nat /\ code > 0 /\ code = Magnitude(v) + 1 /\ Fits(code, 10)

(* The bit that says west or south.                                        *)
Sign(v) == IF v < 0 THEN 1 ELSE 0

(* A component below 1023 knots has a code.                                *)
LEMMA KnotsAre == ASSUME NEW v \in Int, Fits(Magnitude(v) + 1, 10) PROVE \E code : Knots(v, code)
<1>1. Magnitude(v) + 1 \in Nat /\ Magnitude(v) + 1 > 0
  BY DEF Magnitude
<1> QED
  BY <1>1 DEF Knots

(* A component is had back from its sign and code.                         *)
LEMMA KnotsBack ==
  ASSUME NEW v, NEW code, Knots(v, code), NEW b, b <=> v < 0
  PROVE  Signed(b, (code - 1) * 1) = v
<1>1. v \in Int /\ code \in Nat /\ code = Magnitude(v) + 1
  BY DEF Knots
<1>2. (code - 1) * 1 = Magnitude(v)
  BY <1>1 DEF Magnitude
<1>3. CASE v < 0
  BY <1>1, <1>2, <1>3 DEF Signed, Magnitude
<1>4. CASE ~(v < 0)
  BY <1>1, <1>2, <1>4 DEF Signed, Magnitude
<1> QED
  BY <1>3, <1>4

(* Of a single bit.                                                        *)
LEMMA SignIs == ASSUME NEW v \in Int, NEW b \in Int PROVE b \in Put(Sign(v), b, b) <=> v < 0
<1>1. b \in b .. b /\ 0 = b - b
  OBVIOUS
<1>2. b \in Put(Sign(v), b, b) <=> HasBit(Sign(v), 0)
  BY <1>1, PutHas
<1>3. HasBit(1, 0) /\ ~HasBit(0, 0)
  BY DEF HasBit
<1> QED
  BY <1>2, <1>3 DEF Sign

(* A velocity squitter of the speed over ground.                           *)
SpeedMe(v, w) ==
  Put(19, 0, 4) \cup {7} \cup Put(Sign(v), 13, 13) \cup Put(Magnitude(v) + 1, 14, 23)
    \cup Put(Sign(w), 24, 24) \cup Put(Magnitude(w) + 1, 25, 34)

(* Both components are read as they were sent.                             *)
LEMMA SpeedIsRead ==
  ASSUME NEW v, NEW c, Knots(v, c), NEW w, NEW d, Knots(w, d), NEW me, me = SpeedMe(v, w)
  PROVE  /\ me \subseteq 0 .. 55
         /\ "gs" \in DOMAIN Squitter(me)
         /\ Squitter(me)["gs"] = <<v, w>>
<1>1. c = Magnitude(v) + 1 /\ d = Magnitude(w) + 1 /\ v \in Int /\ w \in Int
  BY DEF Knots
<1>2. me = Put(19, 0, 4) \cup {7} \cup Put(Sign(v), 13, 13) \cup Put(c, 14, 23)
             \cup Put(Sign(w), 24, 24) \cup Put(d, 25, 34)
  BY <1>1 DEF SpeedMe
<1>3. /\ Put(19, 0, 4) \subseteq 0 .. 4
      /\ Put(Sign(v), 13, 13) \subseteq 13 .. 13
      /\ Put(c, 14, 23) \subseteq 14 .. 23
      /\ Put(Sign(w), 24, 24) \subseteq 24 .. 24
      /\ Put(d, 25, 34) \subseteq 25 .. 34
  BY PutWithin
<1>4. me \subseteq 0 .. 55
  BY <1>2, <1>3
<1>5. \A i \in 0 .. 4 : i \in me <=> i \in Put(19, 0, 4)
  BY <1>2, <1>3
<1>6. \A i \in 5 .. 7 : i \in me <=> i \in {7}
  BY <1>2, <1>3
<1>7. \A i \in 14 .. 23 : i \in me <=> i \in Put(c, 14, 23)
  BY <1>2, <1>3
<1>8. \A i \in 25 .. 34 : i \in me <=> i \in Put(d, 25, 34)
  BY <1>2, <1>3
<1>9. 13 \in me <=> 13 \in Put(Sign(v), 13, 13)
  BY <1>2, <1>3
<1>10. 24 \in me <=> 24 \in Put(Sign(w), 24, 24)
  BY <1>2, <1>3
<1>11. Field(me, 0, 4) = 19
  <2>1. Fits(19, 4 - 0 + 1)
    BY DEF Fits
  <2> QED
    BY <1>5, <2>1, FieldOfPut
<1>12. Field(me, 5, 7) = 1
  <2>1. \A i \in 5 .. 7 : i \in me <=> i \in Put(1, 5, 7)
    BY <1>6, OneOfThree
  <2>2. Fits(1, 7 - 5 + 1)
    BY DEF Fits
  <2> QED
    BY <2>1, <2>2, FieldOfPut
<1>13. Field(me, 14, 23) = c /\ c # 0
  <2>1. Fits(c, 23 - 14 + 1) /\ c \in Nat /\ c # 0
    BY DEF Knots
  <2> QED
    BY <1>7, <2>1, FieldOfPut
<1>14. Field(me, 25, 34) = d /\ d # 0
  <2>1. Fits(d, 34 - 25 + 1) /\ d \in Nat /\ d # 0
    BY DEF Knots
  <2> QED
    BY <1>8, <2>1, FieldOfPut
<1>15. GroundSpeed(me, 1) = [gs |-> <<v, w>>]
  <2>1. Signed(13 \in me, (c - 1) * 1) = v
    <3>1. 13 \in me <=> v < 0
      BY <1>1, <1>9, SignIs
    <3> QED
      BY <3>1, KnotsBack
  <2>2. Signed(24 \in me, (d - 1) * 1) = w
    <3>1. 24 \in me <=> w < 0
      BY <1>1, <1>10, SignIs
    <3> QED
      BY <3>1, KnotsBack
  <2> QED
    BY <1>13, <1>14, <2>1, <2>2 DEF GroundSpeed
<1>16. "gs" \in DOMAIN GroundSpeed(me, 1) /\ GroundSpeed(me, 1)["gs"] = <<v, w>>
  BY <1>15
<1> DEFINE nac == [nac_v |-> Field(me, 10, 12)]
           rest == Joined(GroundSpeed(me, 1), RateAndDelta(me))
<1>17. Squitter(me) = Joined(nac, rest)
  <2>1. Squitter(me) = AirborneVelocity(me, 1)
    BY <1>11, <1>12 DEF Squitter
  <2> QED
    BY <2>1 DEF AirborneVelocity
<1>18. "gs" \notin DOMAIN nac
  OBVIOUS
<1> HIDE DEF nac
<1>19. "gs" \in DOMAIN rest /\ rest["gs"] = <<v, w>>
  BY <1>16, LeftWins
<1> HIDE DEF rest
<1>20. "gs" \in DOMAIN Squitter(me) /\ Squitter(me)["gs"] = <<v, w>>
  BY <1>17, <1>18, <1>19, RightAdds
<1> QED
  BY <1>4, <1>20

-----------------------------------------------------------------------------
(* Every remark.                                                           *)

(* What was read is the parse of what was said.                            *)
RemarkInv ==
  remark # <<>> =>
    \E r \in Remarks : remark = <<r, parse_modes_message(Message(r), IF r[1] = "squawk" THEN 56 ELSE 112)>>

(* Whatever is said last, remark holds what parse_modes_message made of    *)
(* it.                                                                     *)
THEOREM RemarksAreParsed == Spec => []RemarkInv
<1>1. Init => RemarkInv
  BY DEF Init, RemarkInv
<1>2. ASSUME RemarkInv, [Next]_vars PROVE RemarkInv'
  <2>1. CASE Fly
    BY <1>2, <2>1 DEF Fly, RemarkInv
  <2>2. CASE Send
    BY <1>2, <2>2 DEF Send, RemarkInv
  <2>3. CASE Say
    BY <2>3 DEF Say, RemarkInv
  <2>4. CASE UNCHANGED vars
    BY <1>2, <2>4 DEF vars, RemarkInv
  <2> QED
    BY <1>2, <2>1, <2>2, <2>3, <2>4 DEF Next
<1> QED
  BY <1>1, <1>2, PTL DEF Spec

(* What a message says, and how each remark is to be read.                 *)
Says(m, field, value) == field \in DOMAIN m /\ m[field] = value

(* A squawk of zeros need not be read.                                     *)
SaysSquawk(m, sq) == SquawkNumber(sq) # 0 => "squawk" \in DOMAIN m /\ Number(m["squawk"]) = SquawkNumber(sq)

(* A message says what the squitter in it does.                            *)
LEMMA SquitterSays ==
  ASSUME NEW msg, NEW me, Extended(msg, me),
         NEW field, NEW value, field \in DOMAIN Squitter(me), Squitter(me)[field] = value
  PROVE  Says(parse_modes_message(msg, 112), field, value)
<1>1. /\ field \in DOMAIN parse_modes_message(msg, 112)
      /\ parse_modes_message(msg, 112)[field] = Squitter(me)[field]
  BY SquitterIsParsed, Zenon
<1> QED
  BY <1>1 DEF Says

(* A squawk is known by its number.                                        *)
LEMMA SquawkOf ==
  ASSUME NEW m, NEW sq, NEW code, Says(m, "squawk", code), Number(code) = SquawkNumber(sq)
  PROVE  SaysSquawk(m, sq)
BY Zenon DEF Says, SaysSquawk

(* Every altitude in a squitter.                                           *)
LEMMA AltitudeSaid ==
  ASSUME NEW r, r[1] = "altitude", r[2] \in Nat, Fits(r[2], 11)
  PROVE  Says(parse_modes_message(Message(r), 112), "baro_alt", 25 * r[2] - 1000)
<1>1. PICK n \in Nat : n = r[2] /\ Fits(n, 11)
  OBVIOUS
<1>2. Message(r) = Shifted(AltitudeMe(n), 32) \cup Put(17, 0, 4)
  BY <1>1 DEF Message, AltitudeMe
<1>3. /\ AltitudeMe(n) \subseteq 0 .. 55
      /\ "baro_alt" \in DOMAIN Squitter(AltitudeMe(n))
      /\ Squitter(AltitudeMe(n))["baro_alt"] = 25 * n - 1000
  BY <1>1, AltitudeIsRead
<1>4. Says(parse_modes_message(Message(r), 112), "baro_alt", 25 * n - 1000)
  BY <1>2, <1>3, SquitterSays DEF Extended
<1> QED
  BY <1>1, <1>4

(* Every squawk in a surveillance reply.                                   *)
LEMMA SquawkSaid ==
  ASSUME NEW r, r[1] = "squawk", IsSquawk(r[2])
  PROVE  SaysSquawk(parse_modes_message(Message(r), 56), r[2])
<1>1. Message(r) = Shifted(Digits(r[2]), 19) \cup Put(5, 0, 4)
  BY DEF Message
<1> QED
  BY <1>1, SquawkIsRead DEF SaysSquawk

(* Every aircraft status.                                                  *)
LEMMA EmergencySaid ==
  ASSUME NEW r, r[1] = "emergency", r[2] \in 0 .. 7, IsSquawk(r[3])
  PROVE  /\ SaysSquawk(parse_modes_message(Message(r), 112), r[3])
         /\ r[2] \in 1 .. 6 => Says(parse_modes_message(Message(r), 112), "emergency", r[2])
<1>1. PICK e, sq : e \in 0 .. 7 /\ e = r[2] /\ sq = r[3] /\ IsSquawk(sq)
  OBVIOUS
<1>2. PICK me : me = EmergencyMe(e, sq)
  OBVIOUS
<1>3. Message(r) = Shifted(me, 32) \cup Put(17, 0, 4)
  BY <1>1, <1>2 DEF Message, EmergencyMe
<1>4. /\ me \subseteq 0 .. 55
      /\ SquawkNumber(sq) # 0 => "squawk" \in DOMAIN Squitter(me) /\ Number(Squitter(me)["squawk"]) = SquawkNumber(sq)
      /\ e \in 1 .. 6 => "emergency" \in DOMAIN Squitter(me) /\ Squitter(me)["emergency"] = e
  BY <1>1, <1>2, EmergencyIsRead
<1>5. SaysSquawk(parse_modes_message(Message(r), 112), sq)
  <2> SUFFICES ASSUME SquawkNumber(sq) # 0 PROVE SaysSquawk(parse_modes_message(Message(r), 112), sq)
    BY DEF SaysSquawk
  <2>1. PICK code : /\ "squawk" \in DOMAIN Squitter(me) /\ Squitter(me)["squawk"] = code
                    /\ Number(code) = SquawkNumber(sq)
    BY <1>4
  <2>2. Says(parse_modes_message(Message(r), 112), "squawk", code)
    BY <1>3, <1>4, <2>1, SquitterSays DEF Extended
  <2> QED
    BY <2>1, <2>2, SquawkOf, Zenon
<1>6. e \in 1 .. 6 => Says(parse_modes_message(Message(r), 112), "emergency", e)
  BY <1>3, <1>4, SquitterSays DEF Extended
<1> QED
  BY <1>1, <1>5, <1>6

(* Every callsign.                                                         *)
LEMMA CallsignSaid ==
  ASSUME NEW r, r[1] = "callsign", NEW n \in 1 .. 8, r[2] \in [1 .. n -> 1 .. 63], Space \notin {r[2][1], r[2][n]}
  PROVE  Says(parse_modes_message(Message(r), 112), "callsign", r[2])
<1>1. PICK name : name = r[2] /\ IsName(name, n)
  BY NamesAre
<1>2. PICK me : me = CallsignMe(name)
  OBVIOUS
<1>3. Message(r) = Shifted(me, 32) \cup Put(17, 0, 4)
  BY <1>1, <1>2 DEF Message, CallsignMe
<1>4. me \subseteq 0 .. 55 /\ "callsign" \in DOMAIN Squitter(me) /\ Squitter(me)["callsign"] = name
  BY <1>1, <1>2, CallsignIsRead
<1> QED
  BY <1>1, <1>3, <1>4, SquitterSays DEF Extended

(* Every speed over ground.                                                *)
LEMMA SpeedSaid ==
  ASSUME NEW r, NEW c, NEW d, r[1] = "speed", Knots(r[2], c), Knots(r[3], d)
  PROVE  Says(parse_modes_message(Message(r), 112), "gs", <<r[2], r[3]>>)
<1>2. PICK v, w : v = r[2] /\ Knots(v, c) /\ w = r[3] /\ Knots(w, d)
  OBVIOUS
<1>3. PICK me : me = SpeedMe(v, w)
  OBVIOUS
<1>4. Message(r) = Shifted(me, 32) \cup Put(17, 0, 4)
  BY <1>2, <1>3 DEF Message, SpeedMe, Sign
<1>5. me \subseteq 0 .. 55 /\ "gs" \in DOMAIN Squitter(me) /\ Squitter(me)["gs"] = <<v, w>>
  BY <1>2, <1>3, SpeedIsRead
<1> QED
  BY <1>2, <1>4, <1>5, SquitterSays DEF Extended

(* One case for each kind of remark.                                       *)
LEMMA RemarkRight == RemarkInv => FieldsAreRight
<1> SUFFICES ASSUME RemarkInv, remark # <<>> PROVE FieldsAreRight
  BY DEF FieldsAreRight
<1>1. PICK r \in Remarks : remark = <<r, parse_modes_message(Message(r), IF r[1] = "squawk" THEN 56 ELSE 112)>>
  BY DEF RemarkInv
<1>2. PICK m : m = parse_modes_message(Message(r), IF r[1] = "squawk" THEN 56 ELSE 112)
  OBVIOUS
<1>3. remark[1] = r /\ remark[2] = m
  BY <1>1, <1>2
<1>4. r[1] # "squawk" => m = parse_modes_message(Message(r), 112)
  BY <1>2
<1>5. CASE r[1] = "altitude" /\ r[2] \in Nat /\ Fits(r[2], 11)
  <2>1. Says(m, "baro_alt", 25 * r[2] - 1000)
    BY <1>4, <1>5, AltitudeSaid
  <2> QED
    BY <1>3, <1>5, <2>1 DEF FieldsAreRight, Says
<1>6. CASE r[1] = "squawk" /\ IsSquawk(r[2])
  <2>1. SaysSquawk(m, r[2])
    BY <1>2, <1>6, SquawkSaid
  <2> QED
    BY <1>3, <1>6, <2>1 DEF FieldsAreRight, SaysSquawk, SquawkNumber
<1>7. CASE r[1] = "emergency" /\ r[2] \in 0 .. 7 /\ IsSquawk(r[3])
  <2>1. SaysSquawk(m, r[3]) /\ (r[2] \in 1 .. 6 => Says(m, "emergency", r[2]))
    BY <1>4, <1>7, EmergencySaid
  <2> QED
    BY <1>3, <1>7, <2>1 DEF FieldsAreRight, Says, SaysSquawk, SquawkNumber
<1>8. CASE r[1] = "callsign" /\ \E n \in 1 .. 8 : r[2] \in [1 .. n -> 1 .. 63] /\ Space \notin {r[2][1], r[2][n]}
  <2>1. Says(m, "callsign", r[2])
    BY <1>4, <1>8, CallsignSaid
  <2> QED
    BY <1>3, <1>8, <2>1 DEF FieldsAreRight, Says
<1>9. CASE r[1] = "speed" /\ \A i \in {2, 3} : r[i] \in Int /\ Fits(Magnitude(r[i]) + 1, 10)
  <2>1. r[2] \in Int /\ Fits(Magnitude(r[2]) + 1, 10) /\ r[3] \in Int /\ Fits(Magnitude(r[3]) + 1, 10)
    BY <1>9
  <2>3. PICK c, d : Knots(r[2], c) /\ Knots(r[3], d)
    BY <2>1, KnotsAre
  <2>4. r[1] = "speed"
    BY <1>9
  <2>5. Says(m, "gs", <<r[2], r[3]>>)
    BY <1>4, <2>3, <2>4, SpeedSaid
  <2> QED
    <3>1. "gs" \in DOMAIN m /\ m["gs"] = <<r[2], r[3]>>
      BY <2>5 DEF Says
    <3>2. /\ remark[1][1] = "speed"
          /\ "gs" \in DOMAIN remark[2] /\ remark[2]["gs"] = <<remark[1][2], remark[1][3]>>
      BY <1>3, <2>4, <3>1, Zenon
    <3> QED
      BY <3>2 DEF FieldsAreRight
<1> QED
  BY <1>5, <1>6, <1>7, <1>8, <1>9, RemarksAssumption, Zenon DEF IsSquawk, Fits

(* parse_modes_message reads every altitude, squawk, emergency, callsign   *)
(* and speed as the transponder sent it.                                   *)
THEOREM FieldsRead == Spec => []FieldsAreRight
BY RemarksAreParsed, RemarkRight, PTL

=============================================================================

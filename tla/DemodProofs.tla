---------------------------- MODULE DemodProofs ----------------------------
(***************************************************************************)
(* Proofs about Demod, for any buffers, transmissions and noise.           *)
(*                                                                         *)
(* The scan: a pass finds a transmission once, the scan leaves out no two  *)
(* positions in a row, and every buffer is done with after finitely many   *)
(* steps.  It is the arithmetic of positions: what is found is at least    *)
(* the length of a long message apart and as far behind the position       *)
(* reached, which bounds how much is found in a pass, and in all of them,  *)
(* by the length of the buffer.                                            *)
(*                                                                         *)
(* The messages: a clean squitter wins over every other reading of its     *)
(* candidate, repairs are right, and only who sent is known.  It is the    *)
(* parity: the checksum is linear in the message, by induction over the    *)
(* register, so that a syndrome depends on the wrong bits only, and what   *)
(* CodeAssumption says of one and two bits tells apart up to three.        *)
(***************************************************************************)
EXTENDS Demod, Recursion, SequenceTheorems, FiniteSetTheorems, TLAPS

(* As far as the scan may get.                                             *)
Reach == IF Stop = 0 THEN 0 ELSE Stop + LongSamples

TypeInv ==
  /\ buffer \in Buffers
  /\ DOMAIN heard \subseteq DOMAIN B.shapes
  /\ \A q \in DOMAIN heard : heard[q] \in B.shapes[q]
  /\ pc \in {"scan", "keep", "publish", "done"}
  /\ pass \in 0 .. Passes - 1
  /\ pa \in 0 .. Reach
  /\ tried \subseteq DOMAIN B.shapes
  /\ \E S : found \in Seq(S)
  /\ \E S : out \in Seq(S)
  /\ next \in Nat \ {0}

(* Which sequence next is an index of.                                     *)
NextInv ==
  /\ pc = "scan" => next = 1
  /\ pc = "keep" => next <= Len(found) + 1
  /\ pc \in {"publish", "done"} => next <= Len(out) + 1

(* What the pass has found lies apart, and behind the position reached.    *)
FoundInv ==
  /\ LongSamples * Len(found) <= pa
  /\ \A i \in DOMAIN found : found[i].at \in tried /\ found[i].at + LongSamples <= pa
  /\ \A i, j \in DOMAIN found : i < j => found[i].at + LongSamples <= found[j].at

(* What has been kept of the current pass are messages looked at before.   *)
OutInv ==
  /\ \A i \in DOMAIN out : out[i].at \in DOMAIN B.shapes /\ out[i].pass \in 0 .. pass
  /\ pc = "scan" => \A i \in DOMAIN out : out[i].pass < pass
  /\ pc = "keep" => \A i \in DOMAIN out :
       out[i].pass < pass \/ \E k \in 1 .. next - 1 : k \in DOMAIN found /\ out[i].at = found[k].at

(* No pass keeps more than the buffer has room for.                        *)
LengthInv ==
  /\ pc = "scan" => LongSamples * Len(out) <= pass * Reach
  /\ pc = "keep" => LongSamples * Len(out) <= pass * Reach + LongSamples * (next - 1)
  /\ pc \in {"publish", "done"} => LongSamples * Len(out) <= Passes * Reach

IInv == TypeInv /\ NextInv /\ FoundInv /\ OutInv /\ LengthInv /\ OncePerPass /\ GapsAreSingle

-----------------------------------------------------------------------------
(* The numbers a buffer is made of.                                        *)
LEMMA Numbers ==
  ASSUME buffer \in Buffers
  PROVE  /\ B.length \in Nat \ {0}
         /\ DOMAIN B.shapes \subseteq Nat
         /\ B.multi \in BOOLEAN
         /\ Stop \in Nat
         /\ Stop # 0 => Stop = B.length - 285
         /\ Reach \in Nat
         /\ Stop # 0 => Reach = Stop + 269
         /\ Stop = 0 => Reach = 0
<1>1. B.length \in Nat \ {0} /\ DOMAIN B.shapes \subseteq Nat /\ B.multi \in BOOLEAN
  BY BufferAssumption DEF B
<1> QED
  BY <1>1 DEF Stop, Greatest, LongSamples, Reach

(* A step that keeps the buffer keeps its numbers.                         *)
LEMMA SameNumbers ==
  ASSUME buffer' = buffer
  PROVE  B' = B /\ Stop' = Stop /\ Reach' = Reach
BY DEF B, Stop, Reach

LEMMA AppendFacts ==
  ASSUME NEW S, NEW s \in Seq(S), NEW e
  PROVE  /\ Append(s, e) \in Seq(S \cup {e})
         /\ Len(s) \in Nat
         /\ DOMAIN s = 1 .. Len(s)
         /\ Len(Append(s, e)) = Len(s) + 1
         /\ DOMAIN Append(s, e) = 1 .. Len(s) + 1
         /\ \A i \in 1 .. Len(s) : Append(s, e)[i] = s[i]
         /\ Append(s, e)[Len(s) + 1] = e
<1>1. s \in Seq(S \cup {e}) /\ e \in S \cup {e}
  BY SeqMonotonic, Zenon
<1> QED
  BY <1>1, AppendProperties

-----------------------------------------------------------------------------
LEMMA InvInit == Init => IInv
<1> SUFFICES ASSUME Init PROVE IInv
  OBVIOUS
<1> USE DEF Init
<1>1. /\ Stop \in Nat /\ Reach \in Nat
  BY Numbers
<1>2. found \in Seq({}) /\ out \in Seq({}) /\ Len(found) = 0 /\ Len(out) = 0
  BY EmptySeq
<1>f. DOMAIN heard \subseteq DOMAIN B.shapes /\ \A q \in DOMAIN heard : heard[q] \in B.shapes[q]
  BY BufferAssumption DEF B
<1>3. TypeInv
  BY <1>1, <1>2, <1>f DEF TypeInv, Passes
<1>4. NextInv /\ LengthInv
  BY <1>1, <1>2 DEF NextInv, LengthInv, LongSamples
<1>5. FoundInv /\ OutInv /\ OncePerPass
  BY <1>1, <1>2 DEF FoundInv, OutInv, OncePerPass, LongSamples
<1>6. GapsAreSingle
  <2> SUFFICES ASSUME NEW q \in DOMAIN heard, q + 1 < Least(pa, Stop) PROVE FALSE
    BY DEF GapsAreSingle
  <2>1. q \in Nat
    BY <1>f, Numbers
  <2> QED
    BY <2>1, <1>1 DEF Least
<1> QED
  BY <1>3, <1>4, <1>5, <1>6 DEF IInv

(* The scan only looks ahead.                                              *)
LEMMA InvSkipQuiet ==
  ASSUME IInv, SkipQuiet PROVE IInv'
<1> USE DEF IInv, SkipQuiet
<1>1. buffer \in Buffers /\ B' = B /\ Stop' = Stop /\ Reach' = Reach
  BY SameNumbers DEF TypeInv
<1>2. /\ DOMAIN B.shapes \subseteq Nat /\ Stop \in Nat /\ Reach = Stop + 269 /\ pa \in Nat
  BY <1>1, Numbers DEF TypeInv
<1>3. pa' \in Nat /\ pa <= pa' /\ pa' <= Stop + 1 /\ pa' <= Reach
  BY <1>2 DEF Least, PreCheck
<1>4. TypeInv'
  BY <1>1, <1>2, <1>3 DEF TypeInv
<1>5. NextInv' /\ OutInv' /\ LengthInv' /\ OncePerPass'
  BY <1>1 DEF NextInv, OutInv, LengthInv, OncePerPass
<1>6. FoundInv'
  <2>1. Len(found) \in Nat
    BY DEF TypeInv
  <2>2. \A i \in DOMAIN found : found[i].at \in Nat
    BY <1>2 DEF TypeInv, FoundInv
  <2> QED
    BY <2>1, <2>2, <1>2, <1>3 DEF FoundInv, LongSamples
<1>7. GapsAreSingle'
  <2> SUFFICES ASSUME NEW q \in DOMAIN heard, q + 1 \in DOMAIN heard, q + 1 < Least(pa', Stop)
               PROVE  \/ {q, q + 1} \cap tried # {}
                      \/ \E i \in DOMAIN found : found[i].at < q /\ q < found[i].at + LongSamples
    BY <1>1 DEF GapsAreSingle
  <2>0. q \in Nat
    BY <1>2 DEF TypeInv
  <2>1. q \in Nat /\ q + 1 <= Least(pa + PreCheck, Stop)
    BY <2>0, <1>2 DEF Least, PreCheck
  <2>2. ~(pa <= q /\ q < Least(pa + PreCheck, Stop)) /\ ~(pa <= q + 1 /\ q + 1 < Least(pa + PreCheck, Stop))
    BY DEF Ahead
  <2>3. q + 1 < Least(pa, Stop)
    BY <2>1, <2>2, <1>2 DEF Least, PreCheck
  <2> QED
    BY <2>3 DEF GapsAreSingle
<1> QED
  BY <1>4, <1>5, <1>6, <1>7

(* The candidate that is correlated is tried, and what is found there is   *)
(* within the reach of the position after it.                              *)
LEMMA InvCorrelate ==
  ASSUME IInv, Correlate PROVE IInv'
<1> USE DEF IInv
<1>1. buffer' = buffer /\ heard' = heard /\ pc' = pc /\ pass' = pass /\ next' = next /\ out' = out /\ pc = "scan"
  BY DEF Correlate
<1>2. buffer \in Buffers /\ B' = B /\ Stop' = Stop /\ Reach' = Reach
  BY <1>1, SameNumbers DEF TypeInv
<1>3. /\ DOMAIN B.shapes \subseteq Nat /\ Stop \in Nat /\ pa \in Nat /\ Reach = Stop + 269
  BY <1>2, Numbers DEF TypeInv, Correlate
<1>4. PICK q \in Ahead :
        /\ \A r \in Ahead : q <= r
        /\ tried' = tried \cup {q}
        /\ \/ pa' = q + 1 /\ found' = found
           \/ pa' = q + LongSamples /\ found' = Append(found, Best(q))
  BY DEF Correlate
<1>5. /\ q \in DOMAIN heard /\ q \in DOMAIN B.shapes /\ q \in Nat
      /\ pa <= q /\ q < Least(pa + PreCheck, Stop) /\ q < Stop
  <2>1. q \in DOMAIN heard /\ pa <= q /\ q < Least(pa + PreCheck, Stop)
    BY DEF Ahead
  <2>2. q \in DOMAIN B.shapes /\ q \in Nat
    BY <2>1, <1>3 DEF TypeInv
  <2> QED
    BY <2>1, <2>2, <1>3 DEF Least, PreCheck
<1>6. pa' \in Nat /\ q < pa' /\ pa' <= Reach
  BY <1>3, <1>4, <1>5 DEF LongSamples
<1>7. PICK S : found \in Seq(S)
  BY DEF TypeInv
<1>8. Best(q).at = q
  BY DEF Best, Finding
<1>9. TypeInv'
  <2>1. \E T : found' \in Seq(T)
    <3>1. Append(found, Best(q)) \in Seq(S \cup {Best(q)})
      BY <1>7, AppendFacts
    <3> QED
      BY <3>1, <1>4, <1>7
  <2> QED
    BY <1>1, <1>2, <1>4, <1>5, <1>6, <2>1 DEF TypeInv
<1>10. NextInv' /\ OutInv' /\ LengthInv' /\ OncePerPass'
  BY <1>1, <1>2 DEF NextInv, OutInv, LengthInv, OncePerPass
<1>11. FoundInv'
  <2>1. Len(found) \in Nat /\ DOMAIN found = 1 .. Len(found) /\ \A i \in DOMAIN found : found[i].at \in Nat
    BY <1>3, <1>7 DEF TypeInv, FoundInv
  <2>2. CASE pa' = q + 1 /\ found' = found
    BY <2>1, <2>2, <1>3, <1>4, <1>5 DEF FoundInv, LongSamples
  <2>3. CASE pa' = q + LongSamples /\ found' = Append(found, Best(q))
    <3> DEFINE s == Append(found, Best(q))
               n == Len(found)
    <3>1. /\ Len(s) = n + 1 /\ DOMAIN s = 1 .. n + 1
          /\ \A i \in 1 .. n : s[i] = found[i]
          /\ s[n + 1].at = q
      BY <1>7, <1>8, AppendFacts
    <3>2. /\ LongSamples * n <= pa
          /\ \A i \in 1 .. n : found[i].at \in Nat /\ found[i].at \in tried /\ found[i].at + LongSamples <= pa
          /\ \A i, j \in 1 .. n : i < j => found[i].at + LongSamples <= found[j].at
      BY <2>1 DEF FoundInv
    <3> HIDE DEF s
    <3>3. LongSamples * Len(s) <= q + LongSamples
      BY <3>1, <3>2, <2>1, <1>3, <1>5 DEF LongSamples
    <3>4. \A i \in 1 .. n + 1 : s[i].at \in tried \cup {q} /\ s[i].at + LongSamples <= q + LongSamples
      BY <3>1, <3>2, <2>1, <1>3, <1>5 DEF LongSamples
    <3>5. ASSUME NEW i \in 1 .. n + 1, NEW j \in 1 .. n + 1, i < j
          PROVE  s[i].at + LongSamples <= s[j].at
      <4>1. i \in 1 .. n
        BY <3>5, <2>1
      <4>2. CASE j \in 1 .. n
        BY <3>1, <3>2, <3>5, <4>1, <4>2
      <4>3. CASE j = n + 1
        <5>1. s[i].at + LongSamples <= pa /\ s[j].at = q /\ s[i].at \in Nat
          BY <3>1, <3>2, <4>1, <4>3
        <5> QED
          BY <5>1, <1>3, <1>5 DEF LongSamples
      <4> QED
        BY <4>2, <4>3, <2>1
    <3> QED
      BY <2>3, <1>4, <3>1, <3>3, <3>4, <3>5 DEF FoundInv, s
  <2> QED
    BY <2>2, <2>3, <1>4
<1>12. GapsAreSingle'
  <2> SUFFICES ASSUME NEW p \in DOMAIN heard, p + 1 \in DOMAIN heard, p + 1 < Least(pa', Stop)
               PROVE  \/ {p, p + 1} \cap tried' # {}
                      \/ \E i \in DOMAIN found' : found'[i].at < p /\ p < found'[i].at + LongSamples
    BY <1>1, <1>2 DEF GapsAreSingle
  <2>1. p \in Nat /\ p + 1 < pa' /\ p + 1 < Stop
    BY <1>3, <1>6 DEF TypeInv, Least
  <2>2. CASE p = q \/ p + 1 = q
    BY <2>2, <1>4
  <2>3. CASE p + 1 < q
    <3>1. p + 1 \notin Ahead
      BY <2>3, <1>4, <1>5, <2>1
    <3>2. p + 1 < Least(pa, Stop)
      BY <3>1, <2>1, <2>3, <1>3, <1>5 DEF Ahead, Least, PreCheck
    <3>3. CASE {p, p + 1} \cap tried # {}
      BY <3>3, <1>4
    <3>4. CASE \E i \in DOMAIN found : found[i].at < p /\ p < found[i].at + LongSamples
      BY <3>4, <1>4, <1>7, AppendFacts
    <3> QED
      BY <3>2, <3>3, <3>4, <1>1 DEF GapsAreSingle
  <2>4. CASE q < p
    <3>1. found' = Append(found, Best(q)) /\ p < q + LongSamples
      BY <2>1, <2>4, <1>4, <1>5 DEF LongSamples
    <3>2. Len(found) + 1 \in DOMAIN found' /\ found'[Len(found) + 1].at = q
      BY <3>1, <1>7, <1>8, AppendFacts
    <3> QED
      BY <3>1, <3>2, <2>4
  <2> QED
    BY <2>1, <2>2, <2>3, <2>4, <1>5
<1> QED
  BY <1>9, <1>10, <1>11, <1>12

(* The messages found become the result, or are looked at again.           *)
LEMMA InvEndScan ==
  ASSUME IInv, EndScan PROVE IInv'
<1> USE DEF IInv
<1>1. /\ buffer' = buffer /\ heard' = heard /\ pass' = pass /\ pa' = pa /\ tried' = tried /\ found' = found
      /\ pc = "scan" /\ next' = 1
      /\ \/ pc' = "keep" /\ out' = out
         \/ pc' = "publish" /\ out' = [i \in DOMAIN found |-> Kept(found[i], found[i].wrong)]
  BY DEF EndScan
<1>2. buffer \in Buffers /\ B' = B /\ Stop' = Stop /\ Reach' = Reach
  BY <1>1, SameNumbers DEF TypeInv
<1>3. Reach \in Nat /\ pa \in Nat /\ pa <= Reach
  BY <1>2, Numbers DEF TypeInv
<1>4. Len(found) \in Nat /\ DOMAIN found = 1 .. Len(found)
  BY DEF TypeInv
<1>5. FoundInv' /\ GapsAreSingle'
  BY <1>1, <1>2 DEF FoundInv, GapsAreSingle
<1>6. CASE pc' = "keep" /\ out' = out
  <2>1. TypeInv'
    BY <1>1, <1>2, <1>6 DEF TypeInv
  <2>2. NextInv' /\ OutInv' /\ OncePerPass'
    BY <1>1, <1>2, <1>4, <1>6 DEF NextInv, OutInv, OncePerPass
  <2>3. LengthInv'
    <3>1. pass * Reach \in Int /\ Len(out) \in Nat
      BY <1>3 DEF TypeInv, Passes
    <3> QED
      BY <3>1, <1>1, <1>2, <1>6 DEF LengthInv, LongSamples
  <2> QED
    BY <1>5, <2>1, <2>2, <2>3
<1>7. CASE pc' = "publish" /\ out' = [i \in DOMAIN found |-> Kept(found[i], found[i].wrong)]
  <2>1. /\ DOMAIN out' = 1 .. Len(found)
        /\ \A i \in 1 .. Len(found) : out'[i].at = found[i].at /\ out'[i].pass = pass
    BY <1>4, <1>7 DEF Kept
  <2>2. out' \in Seq({Kept(found[i], found[i].wrong) : i \in DOMAIN found}) /\ Len(out') = Len(found)
    BY <1>4, <1>7, IsASeq
  <2>3. TypeInv'
    <3>1. \E S : out' \in Seq(S)
      BY <2>2
    <3> QED
      BY <1>1, <1>2, <1>7, <3>1 DEF TypeInv
  <2>4. NextInv'
    BY <1>1, <1>7, <2>2, <1>4 DEF NextInv
  <2>5. OutInv'
    <3>1. \A i \in DOMAIN out' : out'[i].at \in DOMAIN B.shapes /\ out'[i].pass \in 0 .. pass
      BY <1>4, <2>1 DEF FoundInv, TypeInv, Passes
    <3> QED
      BY <3>1, <1>1, <1>2, <1>7 DEF OutInv
  <2>6. LengthInv'
    BY <1>1, <1>2, <1>3, <1>4, <1>7, <2>2 DEF LengthInv, FoundInv, LongSamples, Passes
  <2>7. OncePerPass'
    BY <1>4, <2>1 DEF OncePerPass, FoundInv
  <2> QED
    BY <1>5, <2>3, <2>4, <2>5, <2>6, <2>7
<1> QED
  BY <1>1, <1>6, <1>7

(* A message that is kept is one the pass has found.                       *)
(* A subtraction leaves shapes the samples may have.                       *)
LEMMA SubtractKeepsShapes ==
  ASSUME TypeInv, NEW at, NEW n, Subtract(Touched(at, n))
  PROVE  DOMAIN heard' \subseteq DOMAIN B.shapes /\ \A q \in DOMAIN heard' : heard'[q] \in B.shapes[q]
<1>1. PICK left \in SUBSET Touched(at, n) :
        \E shape \in [left -> UNION {B.shapes[q] : q \in left}] :
          /\ \A q \in left : shape[q] \in B.shapes[q]
          /\ heard' = [q \in (DOMAIN heard \ Touched(at, n)) \cup left |-> IF q \in left THEN shape[q] ELSE heard[q]]
  BY Zenon DEF Subtract
<1>2. PICK shape :
        /\ \A q \in left : shape[q] \in B.shapes[q]
        /\ heard' = [q \in (DOMAIN heard \ Touched(at, n)) \cup left |-> IF q \in left THEN shape[q] ELSE heard[q]]
  BY <1>1, Zenon
<1>3. left \subseteq DOMAIN B.shapes
  BY DEF Touched
<1>4. DOMAIN heard' = (DOMAIN heard \ Touched(at, n)) \cup left
  BY <1>2, Zenon
<1>5. \A q \in DOMAIN heard' : heard'[q] = IF q \in left THEN shape[q] ELSE heard[q]
  BY <1>2, <1>4, Zenon
<1> QED
  BY <1>2, <1>3, <1>4, <1>5 DEF TypeInv

LEMMA InvKeep ==
  ASSUME IInv, Keep PROVE IInv'
<1> USE DEF IInv
<1>1. /\ buffer' = buffer /\ pc' = pc /\ pass' = pass /\ pa' = pa /\ tried' = tried /\ found' = found
      /\ pc = "keep" /\ next <= Len(found) /\ next' = next + 1
  BY DEF Keep
<1>2. PICK e : e.at = found[next].at /\ e.pass = pass /\ out' = Append(out, e)
  BY DEF Keep, Kept
<1>3. buffer \in Buffers /\ B' = B /\ Stop' = Stop /\ Reach' = Reach
  BY <1>1, SameNumbers DEF TypeInv
<1>4. PICK S : out \in Seq(S)
  BY DEF TypeInv
<1>5. /\ Len(found) \in Nat /\ DOMAIN found = 1 .. Len(found) /\ next \in 1 .. Len(found)
      /\ DOMAIN B.shapes \subseteq Nat /\ Reach \in Nat
      /\ pass \in Nat /\ pass * Reach \in Nat
  <2>1. Reach \in Nat /\ DOMAIN B.shapes \subseteq Nat
    BY <1>3, Numbers
  <2>2. pass \in 0 .. 3
    BY DEF TypeInv, Passes
  <2>3. pass * Reach \in Nat
    BY <2>1, <2>2
  <2> QED
    BY <1>1, <2>1, <2>2, <2>3 DEF TypeInv
<1> DEFINE n == Len(out)
<1>6. /\ n \in Nat /\ DOMAIN out = 1 .. n
      /\ Len(out') = n + 1 /\ DOMAIN out' = 1 .. n + 1
      /\ \A i \in 1 .. n : out'[i] = out[i]
      /\ out'[n + 1].at = found[next].at /\ out'[n + 1].pass = pass
  BY <1>2, <1>4, AppendFacts
<1> HIDE DEF n
<1>7. TypeInv'
  <2>1. \E T : out' \in Seq(T)
    <3>1. Append(out, e) \in Seq(S \cup {e})
      BY <1>4, AppendFacts
    <3> QED
      BY <3>1, <1>2
  <2>2. next' \in Nat \ {0}
    BY <1>1 DEF TypeInv
  <2>3. DOMAIN heard' \subseteq DOMAIN B.shapes /\ \A q \in DOMAIN heard' : heard'[q] \in B.shapes[q]
    BY SubtractKeepsShapes DEF Keep
  <2> QED
    BY <1>1, <1>3, <2>1, <2>2, <2>3 DEF TypeInv
<1>8. NextInv' /\ GapsAreSingle'
  BY <1>1, <1>5 DEF NextInv, GapsAreSingle
<1>9. FoundInv'
  BY <1>1 DEF FoundInv
<1>10. \A i \in 1 .. n : /\ out[i].at \in DOMAIN B.shapes /\ out[i].pass \in 0 .. pass
                          /\ \/ out[i].pass < pass
                             \/ \E k \in 1 .. next - 1 : k \in DOMAIN found /\ out[i].at = found[k].at
  BY <1>1, <1>6 DEF OutInv
<1>11. OutInv'
  <2>2. found[next].at \in DOMAIN B.shapes
    BY <1>5 DEF FoundInv, TypeInv
  <2>3. \A i \in 1 .. n + 1 : out'[i].at \in DOMAIN B.shapes /\ out'[i].pass \in 0 .. pass
    <3>1. ASSUME NEW i \in 1 .. n + 1
          PROVE  out'[i].at \in DOMAIN B.shapes /\ out'[i].pass \in 0 .. pass
      <4>1. CASE i = n + 1
        <5>1. pass \in 0 .. pass
          BY <1>5
        <5> QED
          BY <4>1, <5>1, <2>2, <1>6
      <4>2. CASE i \in 1 .. n
        <5>1. out'[i] = out[i]
          BY <4>2, <1>6
        <5> QED
          BY <4>2, <5>1, <1>10
      <4> QED
        BY <4>1, <4>2, <1>6
    <3> QED
      BY <3>1
  <2>4. ASSUME NEW i \in 1 .. n + 1
        PROVE  \/ out'[i].pass < pass
               \/ \E k \in 1 .. next : k \in DOMAIN found /\ out'[i].at = found[k].at
    <3>1. CASE i = n + 1
      BY <3>1, <1>5, <1>6
    <3>2. CASE i \in 1 .. n
      BY <3>2, <1>10, <1>5, <1>6
    <3> QED
      BY <3>1, <3>2, <1>6
  <2>5. next' - 1 = next
    BY <1>1, <1>5
  <2> QED
    BY <2>3, <2>4, <2>5, <1>1, <1>3, <1>6 DEF OutInv
<1>12. LengthInv'
  <2>1. LongSamples * n <= pass * Reach + LongSamples * (next - 1)
    BY <1>1, <1>6 DEF LengthInv, n
  <2>2. LongSamples * (n + 1) <= pass * Reach + LongSamples * (next + 1 - 1)
    BY <2>1, <1>5, <1>6 DEF LongSamples
  <2>3. LongSamples * Len(out') <= pass' * Reach' + LongSamples * (next' - 1)
    <3>1. pass' = pass /\ Reach' = Reach /\ next' = next + 1 /\ Len(out') = n + 1
      BY <1>1, <1>3, <1>6
    <3> QED
      BY <2>2, <3>1, <1>5, <1>6 DEF LongSamples
  <2> QED
    BY <2>3, <1>1 DEF LengthInv
<1>13. OncePerPass'
  <2> SUFFICES ASSUME NEW i \in 1 .. n + 1, NEW j \in 1 .. n + 1, i < j, out'[i].pass = out'[j].pass
               PROVE  out'[i].at + LongSamples <= out'[j].at
    BY <1>6 DEF OncePerPass
  <2>1. i \in 1 .. n
    BY <1>6
  <2>2. CASE j \in 1 .. n
    BY <2>1, <2>2, <1>6 DEF OncePerPass
  <2>3. CASE j = n + 1
    <3>1. out[i].pass = pass
      BY <2>1, <2>3, <1>6
    <3>2. PICK k \in 1 .. next - 1 : k \in DOMAIN found /\ out[i].at = found[k].at
      BY <3>1, <2>1, <1>5, <1>10
    <3>3. found[k].at + LongSamples <= found[next].at
      BY <3>2, <1>5 DEF FoundInv
    <3> QED
      BY <2>1, <2>3, <3>2, <3>3, <1>6
  <2> QED
    BY <2>2, <2>3, <1>6
<1> QED
  BY <1>7, <1>8, <1>9, <1>11, <1>12, <1>13

LEMMA InvDrop ==
  ASSUME IInv, Drop PROVE IInv'
<1> USE DEF IInv
<1>1. /\ buffer' = buffer /\ heard' = heard /\ pc' = pc /\ pass' = pass /\ pa' = pa /\ tried' = tried
      /\ found' = found /\ out' = out
      /\ pc = "keep" /\ next <= Len(found) /\ next' = next + 1
  BY DEF Drop
<1>2. buffer \in Buffers /\ B' = B /\ Stop' = Stop /\ Reach' = Reach
  BY <1>1, SameNumbers DEF TypeInv
<1>3. Len(found) \in Nat /\ Len(out) \in Nat /\ next \in Nat /\ Reach \in Nat
  BY <1>2, Numbers DEF TypeInv
<1>4. TypeInv' /\ FoundInv' /\ GapsAreSingle' /\ OncePerPass'
  BY <1>1, <1>2 DEF TypeInv, FoundInv, GapsAreSingle, OncePerPass
<1>5. NextInv'
  BY <1>1, <1>3 DEF NextInv
<1>6. OutInv'
  <2>1. next' - 1 = next /\ \A k \in 1 .. next - 1 : k \in 1 .. next
    BY <1>1, <1>3
  <2> QED
    BY <2>1, <1>1, <1>2 DEF OutInv
<1>7. LengthInv'
  <2>1. pass * Reach \in Nat
    <3>1. pass \in 0 .. 3
      BY DEF TypeInv, Passes
    <3> QED
      BY <3>1, <1>3
  <2> QED
    BY <2>1, <1>1, <1>2, <1>3 DEF LengthInv, LongSamples
<1> QED
  BY <1>4, <1>5, <1>6, <1>7

(* A pass that found all there is room for is followed by an empty one.    *)
LEMMA InvNextPass ==
  ASSUME IInv, NextPass PROVE IInv'
<1> USE DEF IInv
<1>1. /\ buffer' = buffer /\ heard' = heard /\ out' = out
      /\ pc = "keep" /\ next > Len(found)
      /\ pa' = 0 /\ tried' = {} /\ found' = <<>> /\ next' = 1
      /\ \/ pass + 1 < Passes /\ pc' = "scan" /\ pass' = pass + 1
         \/ ~(pass + 1 < Passes) /\ pc' = "publish" /\ pass' = pass
  BY DEF NextPass
<1>2. buffer \in Buffers /\ B' = B /\ Stop' = Stop /\ Reach' = Reach
  BY <1>1, SameNumbers DEF TypeInv
<1>3. /\ Len(found) \in Nat /\ Len(out) \in Nat /\ Reach \in Nat /\ Stop \in Nat
      /\ DOMAIN B.shapes \subseteq Nat
      /\ next = Len(found) + 1
      /\ pass \in 0 .. 3 /\ pass' \in 0 .. 3 /\ pass <= pass'
      /\ pa <= Reach /\ pa \in Nat
  <2>1. Len(found) \in Nat /\ Len(out) \in Nat /\ next \in Nat /\ pass \in 0 .. 3 /\ pa \in 0 .. Reach
    BY DEF TypeInv, Passes
  <2> QED
    BY <2>1, <1>1, <1>2, Numbers DEF NextInv, Passes
<1>4. found' \in Seq({}) /\ Len(found') = 0 /\ DOMAIN found' = {}
  BY <1>1, EmptySeq
<1>5. TypeInv'
  BY <1>1, <1>2, <1>3, <1>4 DEF TypeInv, Passes
<1>6. NextInv' /\ FoundInv'
  BY <1>1, <1>3, <1>4 DEF NextInv, FoundInv, LongSamples
<1>7. OutInv'
  BY <1>1, <1>2, <1>3 DEF OutInv, TypeInv
<1>8. LengthInv'
  <2>1. LongSamples * Len(out) <= pass * Reach + Reach
    BY <1>1, <1>3 DEF LengthInv, FoundInv, LongSamples
  <2>2. pass * Reach + Reach = (pass + 1) * Reach
    BY <1>3
  <2>3. CASE pass + 1 < Passes /\ pc' = "scan" /\ pass' = pass + 1
    BY <2>1, <2>2, <2>3, <1>1, <1>2 DEF LengthInv
  <2>4. CASE ~(pass + 1 < Passes) /\ pc' = "publish" /\ pass' = pass
    <3>1. pass + 1 = Passes
      BY <2>4, <1>3 DEF Passes
    <3> QED
      BY <2>1, <2>2, <2>4, <3>1, <1>1, <1>2 DEF LengthInv
  <2> QED
    BY <2>3, <2>4, <1>1
<1>9. OncePerPass'
  BY <1>1 DEF OncePerPass
<1>10. GapsAreSingle'
  <2> SUFFICES ASSUME NEW q \in DOMAIN heard, q + 1 < Least(0, Stop) PROVE FALSE
    BY <1>1, <1>2 DEF GapsAreSingle
  <2>1. q \in Nat
    BY <1>3 DEF TypeInv
  <2> QED
    BY <2>1, <1>3 DEF Least
<1> QED
  BY <1>5, <1>6, <1>7, <1>8, <1>9, <1>10

(* What is done with the result leaves it as it is.                        *)
LEMMA InvPublish ==
  ASSUME IInv, Publish \/ Finish PROVE IInv'
<1> USE DEF IInv
<1>1. /\ buffer' = buffer /\ heard' = heard /\ pass' = pass /\ pa' = pa /\ tried' = tried
      /\ found' = found /\ out' = out
      /\ pc = "publish" /\ pc' \in {"publish", "done"}
      /\ \/ next <= Len(out) /\ next' = next + 1
         \/ next' = next
  BY DEF Publish, Finish
<1>2. buffer \in Buffers /\ B' = B /\ Stop' = Stop /\ Reach' = Reach
  BY <1>1, SameNumbers DEF TypeInv
<1>3. Len(out) \in Nat /\ next \in Nat \ {0}
  BY DEF TypeInv
<1>4. next' \in Nat \ {0} /\ next' <= Len(out) + 1
  BY <1>1, <1>3 DEF NextInv
<1>5. TypeInv' /\ NextInv'
  BY <1>1, <1>2, <1>4 DEF TypeInv, NextInv
<1>6. FoundInv' /\ GapsAreSingle' /\ OncePerPass'
  BY <1>1, <1>2 DEF FoundInv, GapsAreSingle, OncePerPass
<1>7. OutInv' /\ LengthInv'
  BY <1>1, <1>2 DEF OutInv, LengthInv
<1> QED
  BY <1>5, <1>6, <1>7

LEMMA InvNext == IInv /\ [Next]_vars => IInv'
<1> SUFFICES ASSUME IInv, [Next]_vars PROVE IInv'
  OBVIOUS
<1>1. CASE UNCHANGED vars
  BY <1>1 DEF vars, IInv, TypeInv, NextInv, FoundInv, OutInv, LengthInv, OncePerPass, GapsAreSingle,
              Reach, Stop, B
<1>2. CASE SkipQuiet
  BY <1>2, InvSkipQuiet
<1>3. CASE Correlate
  BY <1>3, InvCorrelate
<1>4. CASE EndScan
  BY <1>4, InvEndScan
<1>5. CASE Keep
  BY <1>5, InvKeep
<1>6. CASE Drop
  BY <1>6, InvDrop
<1>7. CASE NextPass
  BY <1>7, InvNextPass
<1>8. CASE Publish \/ Finish
  BY <1>8, InvPublish
<1> QED
  BY <1>1, <1>2, <1>3, <1>4, <1>5, <1>6, <1>7, <1>8 DEF Next

(* What the scan, the search and the publishing preserve holds throughout. *)
THEOREM Invariance == Spec => []IInv
<1> QED
  BY InvInit, InvNext, PTL DEF Spec

-----------------------------------------------------------------------------
(* A pass finds a transmission once, whatever positions around its         *)
(* preamble pass the quick check.                                          *)
THEOREM FoundOnce == Spec => []OncePerPass
<1>1. IInv => OncePerPass
  BY DEF IInv
<1> QED
  BY <1>1, Invariance, PTL

(* The scan leaves no two neighbouring candidates untried that do not lie  *)
(* under a message.                                                        *)
THEOREM NeighboursAreTried == Spec => []GapsAreSingle
<1>1. IInv => GapsAreSingle
  BY DEF IInv
<1> QED
  BY <1>1, Invariance, PTL

(* The state is well typed, the position within the buffer included.       *)
THEOREM TypeCorrect == Spec => []TypeOK
<1>1. IInv => TypeOK
  <2> SUFFICES ASSUME IInv PROVE TypeOK
    OBVIOUS
  <2> USE DEF IInv
  <2>1. Len(found) \in Nat /\ Len(out) \in Nat /\ Stop \in Nat /\ Reach <= Stop + LongSamples /\ Reach \in Nat
    BY Numbers DEF TypeInv, LongSamples
  <2>2. pa \in 0 .. Stop + LongSamples
    BY <2>1 DEF TypeInv, LongSamples
  <2>3. next \in 1 .. Len(found) + Len(out) + 1
    BY <2>1 DEF TypeInv, NextInv
  <2> QED
    BY <2>2, <2>3 DEF TypeInv, TypeOK, FoundInv, OutInv
<1> QED
  BY <1>1, Invariance, PTL

-----------------------------------------------------------------------------
(* What a pass finds, and what all of them keep, is less than the buffer   *)
(* is long.                                                                *)
Bounded ==
  /\ B.length \in Nat \ {0} /\ Stop \in Nat /\ Stop <= B.length
  /\ pa \in Nat /\ pass \in 0 .. 3 /\ next \in Nat \ {0}
  /\ Len(found) \in Nat /\ Len(found) + pa < 2 * B.length
  /\ Len(out) \in Nat /\ (pc \in {"publish", "done"} => Len(out) + 1 < 4 * B.length)

LEMMA FewMessages == IInv => Bounded
<1> SUFFICES ASSUME IInv PROVE Bounded
  OBVIOUS
<1> USE DEF IInv
<1>1. /\ Reach \in Nat /\ B.length \in Nat \ {0} /\ Stop \in Nat
      /\ Reach <= B.length /\ Stop <= B.length
  BY Numbers DEF TypeInv
<1>2. pa \in 0 .. Reach /\ pass \in 0 .. 3 /\ next \in Nat \ {0} /\ Len(found) \in Nat /\ Len(out) \in Nat
  BY DEF TypeInv, Passes
<1>3. 269 * Len(found) <= pa
  BY DEF FoundInv, LongSamples
<1>4. pc \in {"publish", "done"} => 269 * Len(out) <= 4 * Reach
  BY DEF LengthInv, LongSamples, Passes
<1>5. Len(found) + pa < 2 * B.length
  BY <1>1, <1>2, <1>3
<1> QED
  BY <1>1, <1>2, <1>4, <1>5 DEF Bounded

LEMMA FewMessagesNext == IInv' => Bounded'
BY FewMessages, PTL

LEMMA Nearer ==
  ASSUME NEW m \in Nat, NEW k \in Nat, NEW p \in Nat, NEW q \in Nat, p < q, q < k
  PROVE  m + k - q < m + k - p /\ m + k - q >= 0
OBVIOUS

LEMMA Progress ==
  ASSUME IInv, IInv', Next
  PROVE  Left' < Left /\ Left' >= 0
<1>1. B' = B /\ Stop' = Stop
  BY SameNumbers DEF Next, SkipQuiet, Correlate, EndScan, Keep, Drop, NextPass, Publish, Finish
<1> DEFINE L == B.length
<1>2. /\ L \in Nat \ {0} /\ Stop \in Nat /\ Stop <= L
      /\ pa \in Nat /\ pass \in 0 .. 3 /\ next \in Nat \ {0}
      /\ Len(found) \in Nat /\ Len(found) + pa < 2 * L
      /\ Len(out) \in Nat /\ (pc \in {"publish", "done"} => Len(out) + 1 < 4 * L)
  BY FewMessages DEF Bounded
<1>3. /\ pa' \in Nat /\ pass' \in 0 .. 3 /\ next' \in Nat \ {0}
      /\ Len(found') \in Nat /\ Len(found') + pa' < 2 * L
      /\ Len(out') \in Nat /\ (pc' \in {"publish", "done"} => Len(out') + 1 < 4 * L)
  BY <1>1, FewMessagesNext DEF Bounded
<1>4. NextInv /\ NextInv'
  BY DEF IInv
<1>5. /\ pc = "scan"    => Left = 4 * L * (4 - pass) + 2 * L - pa
      /\ pc = "keep"    => Left = 4 * L * (4 - pass) + Len(found) + 1 - next
      /\ pc = "publish" => Left = Len(out) + 2 - next
      /\ pc' = "scan"    => Left' = 4 * L * (4 - pass') + 2 * L - pa'
      /\ pc' = "keep"    => Left' = 4 * L * (4 - pass') + Len(found') + 1 - next'
      /\ pc' = "publish" => Left' = Len(out') + 2 - next'
      /\ pc' = "done"    => Left' = 0
  BY <1>1 DEF Left, Passes
<1> HIDE DEF L
<1>6. CASE SkipQuiet \/ Correlate
  <2>1. pc = "scan" /\ pc' = "scan" /\ pass' = pass
    BY <1>6 DEF SkipQuiet, Correlate
  <2>2. ASSUME SkipQuiet PROVE pa < pa'
    BY <2>2, <1>2 DEF SkipQuiet, Least, PreCheck
  <2>3. ASSUME Correlate PROVE pa < pa'
    <3>1. PICK q \in Ahead : pa' = q + 1 \/ pa' = q + LongSamples
      BY <2>3 DEF Correlate
    <3>2. q \in Nat /\ pa <= q
      BY Numbers DEF Ahead, IInv, TypeInv
    <3> QED
      BY <3>1, <3>2, <1>2 DEF LongSamples
  <2>4. pa < pa'
    BY <2>2, <2>3, <1>6
  <2>5. PICK m \in Nat : m = 4 * L * (4 - pass)
    BY <1>2
  <2>6. Left = m + 2 * L - pa /\ Left' = m + 2 * L - pa'
    BY <2>1, <2>5, <1>5
  <2>7. pa' \in Nat /\ pa' < 2 * L
    BY <1>2, <1>3
  <2> QED
    <3>1. 2 * L \in Nat /\ pa \in Nat /\ pa' \in Nat /\ pa < pa' /\ pa' < 2 * L
      BY <1>2, <2>4, <2>7
    <3>2. m + 2 * L - pa' < m + 2 * L - pa /\ m + 2 * L - pa' >= 0
      BY <3>1, Nearer
    <3> QED
      BY <2>6, <3>2
<1>7. CASE EndScan
  <2>1. /\ pc = "scan" /\ pass' = pass /\ pa' = pa /\ found' = found /\ next' = 1 /\ pc' \in {"keep", "publish"}
    BY <1>7 DEF EndScan
  <2>2. 4 * L * (4 - pass) \in Nat /\ 4 * L * (4 - pass) >= 4 * L
    BY <1>2
  <2> QED
    BY <2>1, <2>2, <1>2, <1>3, <1>5
<1>8. CASE Keep \/ Drop
  <2>1. pc = "keep" /\ pc' = "keep" /\ pass' = pass /\ found' = found /\ next' = next + 1 /\ next <= Len(found)
    BY <1>8 DEF Keep, Drop
  <2>2. 4 * L * (4 - pass) \in Nat
    BY <1>2
  <2> QED
    BY <2>1, <2>2, <1>2, <1>5
<1>9. CASE NextPass
  <2>1. pc = "keep" /\ pa' = 0 /\ next = Len(found) + 1 /\ next' = 1
    BY <1>9, <1>2, <1>4 DEF NextPass, NextInv
  <2>2. CASE pc' = "scan" /\ pass' = pass + 1
    <3>1. 4 * L * (4 - pass') = 4 * L * (4 - pass) - 4 * L /\ 4 * L * (4 - pass') \in Nat
      BY <2>2, <1>2, <1>3
    <3> QED
      BY <2>1, <2>2, <3>1, <1>2, <1>3, <1>5
  <2>3. CASE pc' = "publish" /\ pass' = pass
    <3>1. 4 * L * (4 - pass) \in Nat /\ 4 * L * (4 - pass) >= 4 * L
      BY <1>2
    <3> QED
      BY <2>1, <2>3, <3>1, <1>2, <1>3, <1>5
  <2> QED
    BY <1>9, <2>2, <2>3 DEF NextPass
<1>10. CASE Publish
  <2>1. pc = "publish" /\ pc' = "publish" /\ out' = out /\ next <= Len(out) /\ next' = next + 1
    BY <1>10 DEF Publish
  <2> QED
    BY <2>1, <1>2, <1>5
<1>11. CASE Finish
  <2>1. pc = "publish" /\ pc' = "done" /\ next = Len(out) + 1
    BY <1>11, <1>2, <1>4 DEF Finish, NextInv
  <2> QED
    BY <2>1, <1>2, <1>5
<1> QED
  BY <1>6, <1>7, <1>8, <1>9, <1>10, <1>11 DEF Next

(* Every step brings the end of the buffer nearer, so there are finitely   *)
(* many: as many as the buffer's length allows.                            *)
THEOREM BuffersEnd == Spec => BufferProgresses
<1>1. IInv /\ IInv' /\ [Next]_vars => [Left' < Left /\ Left' >= 0]_vars
  BY Progress
<1> QED
  BY <1>1, Invariance, PTL DEF Spec, BufferProgresses

-----------------------------------------------------------------------------
(* The parity of Mode S.                                                   *)

(* The shift register over a message of n bits.                            *)
IsRegister(crc, n, msg) ==
  /\ crc \in [0 .. n - 24 -> SUBSET (0 .. 23)]
  /\ crc[0] = {}
  /\ \A i \in 0 .. n - 25 : crc[i + 1] = Step(crc[i], msg, i)

ParityField(n, msg) == {(n - 1) - b : b \in msg \cap (n - 24 .. n - 1)}

LEMMA StepType ==
  ASSUME NEW register \in SUBSET (0 .. 23), NEW msg, NEW i
  PROVE  Step(register, msg, i) \in SUBSET (0 .. 23)
<1>1. {x + 1 : x \in register \ {23}} \subseteq 0 .. 23
  OBVIOUS
<1>2. Polynomial \subseteq 0 .. 23
  BY DEF Polynomial
<1> QED
  BY <1>1, <1>2 DEF Step, SymDiff

LEMMA ChecksumByRegister ==
  ASSUME NEW n \in Lengths, NEW msg
  PROVE  \E crc : IsRegister(crc, n, msg) /\ Checksum(n, msg) = SymDiff(crc[n - 24], ParityField(n, msg))
<1> DEFINE D == 0 .. n - 24
           A == SUBSET (0 .. 23)
           crc[i \in 0 .. n - 24] == IF i = 0 THEN {} ELSE Step(crc[i - 1], msg, i - 1)
           mu == [i \in D |-> i]
           F == [g \in [D -> A] |-> [i \in D |-> IF i = 0 THEN {} ELSE Step(g[i - 1], msg, i - 1)]]
<1>0. n \in Nat /\ n - 24 \in Nat
  BY DEF Lengths
<1>1. F \in [[D -> A] -> [D -> A]] /\ mu \in [D -> Nat]
  <2>1. ASSUME NEW g \in [D -> A], NEW i \in D
        PROVE  (IF i = 0 THEN {} ELSE Step(g[i - 1], msg, i - 1)) \in A
    <3>1. i # 0 => g[i - 1] \in A
      <4>1. i # 0 => i - 1 \in D
        BY <1>0
      <4> HIDE DEF A, D
      <4> QED
        BY <4>1
    <3> QED
      BY <3>1, StepType
  <2>2. \A g \in [D -> A] : [i \in D |-> IF i = 0 THEN {} ELSE Step(g[i - 1], msg, i - 1)] \in [D -> A]
    BY <2>1
  <2>3. F \in [[D -> A] -> [D -> A]]
    <3> HIDE DEF A, D
    <3> QED
      BY <2>2
  <2>4. mu \in [D -> Nat]
    BY <1>0
  <2> QED
    BY <2>3, <2>4
<1>2. IsRecursion(D, A, mu, F)
  <2>1. ASSUME NEW g \in [D -> A], NEW h \in [D -> A], NEW d \in D, \A e \in D : mu[e] < mu[d] => g[e] = h[e]
        PROVE  F[g][d] = F[h][d]
    <3>1. d # 0 => d - 1 \in D /\ mu[d - 1] < mu[d]
      BY <1>0
    <3> QED
      BY <2>1, <3>1
  <2> HIDE DEF A, D, mu, F
  <2> QED
    BY <1>1, <2>1 DEF IsRecursion
<1>3. PICK f \in [D -> A] : f = F[f]
  <2>1. A # {}
    OBVIOUS
  <2> HIDE DEF A, D, mu, F
  <2> QED
    BY <1>2, <2>1, RecursionHasSolution
<1>4. crc = [i \in D |-> IF i = 0 THEN {} ELSE Step(crc[i - 1], msg, i - 1)]
  <2>1. f = [i \in D |-> IF i = 0 THEN {} ELSE Step(f[i - 1], msg, i - 1)]
    BY <1>3
  <2> HIDE DEF F, A
  <2> QED
    BY <2>1
<1>5. Checksum(n, msg) = SymDiff(crc[n - 24], ParityField(n, msg))
  BY DEF Checksum, ParityField
<1> HIDE DEF crc
<1>6. crc[0] = {} /\ \A i \in 0 .. n - 25 : crc[i + 1] = Step(crc[i], msg, i)
  <2>1. crc[0] = {}
    BY <1>0, <1>4
  <2>2. ASSUME NEW i \in 0 .. n - 25 PROVE crc[i + 1] = Step(crc[i], msg, i)
    <3>1. i + 1 \in D /\ i + 1 # 0 /\ (i + 1) - 1 = i
      BY <1>0
    <3>2. crc[i + 1] = Step(crc[(i + 1) - 1], msg, (i + 1) - 1)
      BY <1>4, <3>1
    <3> QED
      BY <3>1, <3>2
  <2> QED
    BY <2>1, <2>2
<1>7. DOMAIN crc = D
  BY <1>4
<1>8. \A i \in D : crc[i] \in A
  <2> DEFINE S == {i \in Nat : i \in D => crc[i] \in A}
  <2>1. 0 \in S
    BY <1>6
  <2>2. ASSUME NEW i \in Nat, i \in S PROVE i + 1 \in S
    <3> SUFFICES ASSUME i + 1 \in D PROVE crc[i + 1] \in A
      OBVIOUS
    <3>1. i \in 0 .. n - 25 /\ i \in D
      BY <1>0
    <3>2. crc[i] \in A
      BY <2>2, <3>1
    <3>3. Step(crc[i], msg, i) \in A
      BY <3>2, StepType
    <3> QED
      BY <3>1, <3>3, <1>6, Zenon
  <2>3. Nat \subseteq S
    <3> HIDE DEF S
    <3> QED
      BY <2>1, <2>2, Induction
  <2> HIDE DEF A
  <2> QED
    BY <2>3, <1>0
<1>9. crc \in [D -> A]
  BY <1>4, <1>7, <1>8
<1> QED
  BY <1>5, <1>6, <1>9 DEF IsRegister

(* The register and the parity field are linear: bits that are wrong       *)
(* change the checksum by their own.                                       *)
LEMMA StepLinear ==
  ASSUME NEW r \in SUBSET (0 .. 23), NEW s \in SUBSET (0 .. 23), NEW v, NEW w, NEW i
  PROVE  SymDiff(Step(r, v, i), Step(s, w, i)) = Step(SymDiff(r, s), SymDiff(v, w), i)
<1> DEFINE up(t) == {x + 1 : x \in t \ {23}}
<1>1. \A t \in SUBSET (0 .. 23) : \A x \in Int : x \in up(t) <=> x - 1 \in t /\ x # 24
  <2> SUFFICES ASSUME NEW t \in SUBSET (0 .. 23), NEW x \in Int
               PROVE  x \in up(t) <=> x - 1 \in t /\ x # 24
    OBVIOUS
  <2>1. x = (x - 1) + 1
    OBVIOUS
  <2>2. ASSUME x - 1 \in t, x # 24 PROVE x \in up(t)
    BY <2>1, <2>2
  <2> QED
    BY <2>2
<1>2. SymDiff(r, s) \in SUBSET (0 .. 23)
  BY DEF SymDiff
<1>3. /\ \A t \in SUBSET (0 .. 23) : up(t) \subseteq Int
      /\ Polynomial \subseteq Int
  BY DEF Polynomial
<1>4. up(SymDiff(r, s)) = SymDiff(up(r), up(s))
  <2>1. \A x \in Int : x \in up(SymDiff(r, s)) <=> x \in SymDiff(up(r), up(s))
    BY <1>1, <1>2, Zenon DEF SymDiff
  <2>2. up(SymDiff(r, s)) \subseteq Int /\ SymDiff(up(r), up(s)) \subseteq Int
    BY <1>2, <1>3 DEF SymDiff
  <2> HIDE DEF up
  <2> QED
    BY <2>1, <2>2
<1>5. /\ Step(r, v, i) = IF (23 \in r) # (i \in v) THEN SymDiff(up(r), Polynomial) ELSE up(r)
      /\ Step(s, w, i) = IF (23 \in s) # (i \in w) THEN SymDiff(up(s), Polynomial) ELSE up(s)
      /\ Step(SymDiff(r, s), SymDiff(v, w), i)
           = IF (23 \in SymDiff(r, s)) # (i \in SymDiff(v, w)) THEN SymDiff(up(SymDiff(r, s)), Polynomial)
             ELSE up(SymDiff(r, s))
  BY DEF Step
<1>6. /\ 23 \in SymDiff(r, s) <=> ~(23 \in r <=> 23 \in s)
      /\ i \in SymDiff(v, w) <=> ~(i \in v <=> i \in w)
  BY DEF SymDiff
<1>7. /\ SymDiff(SymDiff(up(r), Polynomial), SymDiff(up(s), Polynomial)) = SymDiff(up(r), up(s))
      /\ SymDiff(SymDiff(up(r), Polynomial), up(s)) = SymDiff(SymDiff(up(r), up(s)), Polynomial)
      /\ SymDiff(up(r), SymDiff(up(s), Polynomial)) = SymDiff(SymDiff(up(r), up(s)), Polynomial)
  <2> HIDE DEF up
  <2> QED
    BY DEF SymDiff
<1> QED
  <2> HIDE DEF up
  <2> QED
    BY <1>4, <1>5, <1>6, <1>7

LEMMA ChecksumLinear ==
  ASSUME NEW n \in Lengths, NEW v, NEW w
  PROVE  Checksum(n, SymDiff(v, w)) = SymDiff(Checksum(n, v), Checksum(n, w))
<1>0. n \in Nat /\ n - 24 \in Nat
  BY DEF Lengths
<1>1. PICK a : IsRegister(a, n, v) /\ Checksum(n, v) = SymDiff(a[n - 24], ParityField(n, v))
  BY ChecksumByRegister
<1>2. PICK b : IsRegister(b, n, w) /\ Checksum(n, w) = SymDiff(b[n - 24], ParityField(n, w))
  BY ChecksumByRegister
<1>3. PICK c : /\ IsRegister(c, n, SymDiff(v, w))
               /\ Checksum(n, SymDiff(v, w)) = SymDiff(c[n - 24], ParityField(n, SymDiff(v, w)))
  BY ChecksumByRegister
<1>4. c[n - 24] = SymDiff(a[n - 24], b[n - 24])
  <2> DEFINE S == {i \in Nat : i <= n - 24 => c[i] = SymDiff(a[i], b[i])}
  <2>1. 0 \in S
    BY <1>1, <1>2, <1>3 DEF IsRegister, SymDiff
  <2>2. ASSUME NEW i \in Nat, i \in S PROVE i + 1 \in S
    <3> SUFFICES ASSUME i + 1 <= n - 24 PROVE c[i + 1] = SymDiff(a[i + 1], b[i + 1])
      OBVIOUS
    <3>1. i \in 0 .. n - 25 /\ i \in 0 .. n - 24
      BY <1>0
    <3>2. a[i] \in SUBSET (0 .. 23) /\ b[i] \in SUBSET (0 .. 23)
      BY <1>1, <1>2, <3>1, Zenon DEF IsRegister
    <3>3. c[i] = SymDiff(a[i], b[i])
      BY <2>2, <1>0, <3>1
    <3>4. /\ a[i + 1] = Step(a[i], v, i)
          /\ b[i + 1] = Step(b[i], w, i)
          /\ c[i + 1] = Step(c[i], SymDiff(v, w), i)
      BY <1>1, <1>2, <1>3, <3>1, Zenon DEF IsRegister
    <3>5. SymDiff(Step(a[i], v, i), Step(b[i], w, i)) = Step(SymDiff(a[i], b[i]), SymDiff(v, w), i)
      BY <3>2, StepLinear
    <3> QED
      BY <3>3, <3>4, <3>5
  <2>3. Nat \subseteq S
    <3> HIDE DEF S
    <3> QED
      BY <2>1, <2>2, Induction
  <2> QED
    BY <1>0, <2>3
<1>5. ParityField(n, SymDiff(v, w)) = SymDiff(ParityField(n, v), ParityField(n, w))
  <2>1. \A u : \A x : x \in ParityField(n, u) <=> x \in 0 .. 23 /\ (n - 1) - x \in u
    <3> SUFFICES ASSUME NEW u, NEW x PROVE x \in ParityField(n, u) <=> x \in 0 .. 23 /\ (n - 1) - x \in u
      OBVIOUS
    <3>1. ASSUME x \in 0 .. 23, (n - 1) - x \in u PROVE x \in ParityField(n, u)
      <4>1. (n - 1) - x \in u \cap (n - 24 .. n - 1) /\ x = (n - 1) - ((n - 1) - x)
        BY <3>1, <1>0
      <4> QED
        BY <4>1 DEF ParityField
    <3>2. ASSUME x \in ParityField(n, u) PROVE x \in 0 .. 23 /\ (n - 1) - x \in u
      <4>1. PICK b1 \in u \cap (n - 24 .. n - 1) : x = (n - 1) - b1
        BY <3>2 DEF ParityField
      <4>2. b1 = (n - 1) - x /\ x \in 0 .. 23
        BY <4>1, <1>0
      <4> QED
        BY <4>1, <4>2
    <3> QED
      BY <3>1, <3>2
  <2>2. \A x : x \in ParityField(n, SymDiff(v, w)) <=> x \in SymDiff(ParityField(n, v), ParityField(n, w))
    BY <2>1 DEF SymDiff
  <2> QED
    BY <2>2
<1>6. \A p, q, r, s : SymDiff(SymDiff(p, q), SymDiff(r, s)) = SymDiff(SymDiff(p, r), SymDiff(q, s))
  BY DEF SymDiff
<1> QED
  BY <1>1, <1>2, <1>3, <1>4, <1>5, <1>6

LEMMA ChecksumEmpty ==
  ASSUME NEW n \in Lengths
  PROVE  Checksum(n, {}) = {}
<1>1. SymDiff({}, {}) = {} /\ \A p : SymDiff(p, p) = {}
  BY DEF SymDiff
<1> QED
  BY <1>1, ChecksumLinear

LEMMA ChecksumType ==
  ASSUME NEW n \in Lengths, NEW msg
  PROVE  Checksum(n, msg) \in SUBSET (0 .. 23) /\ IsFiniteSet(Checksum(n, msg))
<1>1. PICK crc : IsRegister(crc, n, msg) /\ Checksum(n, msg) = SymDiff(crc[n - 24], ParityField(n, msg))
  BY ChecksumByRegister
<1>2. crc[n - 24] \in SUBSET (0 .. 23)
  BY <1>1 DEF IsRegister, Lengths
<1>3. ParityField(n, msg) \subseteq 0 .. 23
  BY DEF ParityField, Lengths
<1>4. Checksum(n, msg) \in SUBSET (0 .. 23)
  BY <1>1, <1>2, <1>3 DEF SymDiff
<1>5. IsFiniteSet(0 .. 23)
  <2>1. 0 \in Int /\ 23 \in Int
    OBVIOUS
  <2> QED
    BY <2>1, FS_Interval, Zenon
<1> QED
  BY <1>4, <1>5, FS_Subset

(* Parity adds up.                                                         *)
LEMMA WeightOfSum ==
  ASSUME NEW a, NEW b, IsFiniteSet(a), IsFiniteSet(b)
  PROVE  /\ IsFiniteSet(SymDiff(a, b))
         /\ Cardinality(SymDiff(a, b)) % 2 = (Cardinality(a) + Cardinality(b)) % 2
<1>1. IsFiniteSet(a \ b) /\ Cardinality(a \ b) = Cardinality(a) - Cardinality(a \cap b)
  BY FS_Difference
<1>2. IsFiniteSet(b \ a) /\ Cardinality(b \ a) = Cardinality(b) - Cardinality(b \cap a)
  BY FS_Difference
<1>3. /\ IsFiniteSet((a \ b) \cup (b \ a))
      /\ Cardinality((a \ b) \cup (b \ a))
           = Cardinality(a \ b) + Cardinality(b \ a) - Cardinality((a \ b) \cap (b \ a))
  BY <1>1, <1>2, FS_Union
<1>4. (a \ b) \cap (b \ a) = {} /\ a \cap b = b \cap a
  OBVIOUS
<1>5. /\ IsFiniteSet(a \cap b)
      /\ Cardinality(a) \in Nat /\ Cardinality(b) \in Nat /\ Cardinality(a \cap b) \in Nat
      /\ Cardinality({}) = 0
  <2>1. IsFiniteSet(a \cap b)
    BY FS_Subset
  <2> QED
    BY <2>1, FS_CardinalityType, FS_EmptySet
<1>6. Cardinality(SymDiff(a, b)) = Cardinality(a) + Cardinality(b) - 2 * Cardinality(a \cap b)
  <2>1. Cardinality((a \ b) \cup (b \ a)) = Cardinality(a) - Cardinality(a \cap b) + (Cardinality(b) - Cardinality(a \cap b)) - 0
    BY <1>1, <1>2, <1>3, <1>4, <1>5, Zenon
  <2> QED
    BY <2>1, <1>5 DEF SymDiff
<1>7. \A j, k, l \in Nat : (j + k - 2 * l) % 2 = (j + k) % 2
  OBVIOUS
<1> QED
  BY <1>3, <1>5, <1>6, <1>7 DEF SymDiff

-----------------------------------------------------------------------------
(* What CodeAssumption says of single bits and of pairs of them.           *)
LEMMA OneBit ==
  ASSUME NEW n \in Lengths, NEW b \in 0 .. n - 1
  PROVE  Cardinality(Checksum(n, {b})) % 2 = 1
BY CodeAssumption

LEMMA TwoBits ==
  ASSUME NEW n \in Lengths, NEW p \in BitPairs(n), NEW q \in BitPairs(n),
         SymDiff(Checksum(n, {p[1]}), Checksum(n, {p[2]})) = SymDiff(Checksum(n, {q[1]}), Checksum(n, {q[2]}))
  PROVE  p = q
<1> DEFINE single == [b \in 0 .. n - 1 |-> Checksum(n, {b})]
           S == BitPairs(n)
           T == {SymDiff(single[r[1]], single[r[2]]) : r \in BitPairs(n)}
           f == [r \in S |-> SymDiff(single[r[1]], single[r[2]])]
<1>1. Cardinality(T) = Cardinality(S)
  BY CodeAssumption
<1>2. IsFiniteSet(S)
  <2>1. IsFiniteSet(0 .. n - 1)
    BY FS_Interval DEF Lengths
  <2>2. IsFiniteSet((0 .. n - 1) \X (0 .. n - 1))
    BY <2>1, FS_Product
  <2> QED
    BY <2>2, FS_Subset DEF BitPairs
<1>3. f \in Surjection(S, T)
  BY DEF Surjection
<1>4. f \in Injection(S, T)
  <2> HIDE DEF f, S, T
  <2> QED
    BY <1>1, <1>2, <1>3, FS_SurjSameCardinalityImpliesInj
<1>5. f[p] = f[q]
  BY DEF BitPairs
<1>6. p \in S /\ q \in S
  OBVIOUS
<1> QED
  <2> HIDE DEF f, S, T
  <2> QED
    BY <1>4, <1>5, <1>6 DEF Injection, IsInjective

LEMMA LengthFacts ==
  ASSUME NEW n \in Lengths
  PROVE  n \in Nat /\ n >= 56 /\ Repairable(n) \subseteq 0 .. n - 1
BY DEF Lengths, Repairable

LEMMA PairsDiffer ==
  ASSUME NEW n \in Lengths, NEW b \in 0 .. n - 1, NEW c \in 0 .. n - 1, b # c,
         NEW d \in 0 .. n - 1, NEW e \in 0 .. n - 1, d # e,
         SymDiff(Checksum(n, {b}), Checksum(n, {c})) = SymDiff(Checksum(n, {d}), Checksum(n, {e}))
  PROVE  (b = d /\ c = e) \/ (b = e /\ c = d)
<1> DEFINE pair(x, y) == IF x < y THEN <<x, y>> ELSE <<y, x>>
<1>1. pair(b, c) \in BitPairs(n) /\ pair(d, e) \in BitPairs(n)
  BY LengthFacts DEF BitPairs
<1>2. \A x, y : SymDiff(x, y) = SymDiff(y, x)
  BY DEF SymDiff
<1>3. SymDiff(Checksum(n, {pair(b, c)[1]}), Checksum(n, {pair(b, c)[2]}))
        = SymDiff(Checksum(n, {pair(d, e)[1]}), Checksum(n, {pair(d, e)[2]}))
  BY <1>2
<1>4. pair(b, c) = pair(d, e)
  <2> HIDE DEF pair
  <2> QED
    BY <1>1, <1>3, TwoBits
<1> QED
  BY <1>4

LEMMA SinglesDiffer ==
  ASSUME NEW n \in Lengths, NEW b \in 0 .. n - 1, NEW c \in 0 .. n - 1,
         Checksum(n, {b}) = Checksum(n, {c})
  PROVE  b = c
<1> SUFFICES ASSUME b # c PROVE FALSE
  OBVIOUS
<1>1. PICK d \in {0, 1, 2} : d # b /\ d # c
  OBVIOUS
<1>2. d \in 0 .. n - 1
  BY LengthFacts
<1>3. SymDiff(Checksum(n, {b}), Checksum(n, {d})) = SymDiff(Checksum(n, {c}), Checksum(n, {d}))
  OBVIOUS
<1>4. (b = c /\ d = d) \/ (b = d /\ d = c)
  BY <1>1, <1>2, <1>3, PairsDiffer, Zenon
<1> QED
  BY <1>1, <1>4

(* A sum of two single bits' syndromes is split in no other way.           *)
LEMMA OnlyPair ==
  ASSUME NEW n \in Lengths, NEW s, NEW b \in 0 .. n - 1, NEW c \in 0 .. n - 1, b # c,
         s = SymDiff(Checksum(n, {b}), Checksum(n, {c})),
         NEW d \in Repairable(n), NEW e \in Repairable(n),
         SymDiff(s, Checksum(n, {d})) = Checksum(n, {e})
  PROVE  (d = b /\ e = c) \/ (d = c /\ e = b)
<1>1. d \in 0 .. n - 1 /\ e \in 0 .. n - 1
  BY LengthFacts
<1>2. s # {}
  <2>1. Checksum(n, {b}) # Checksum(n, {c})
    BY SinglesDiffer
  <2> QED
    BY <2>1 DEF SymDiff
<1>3. d # e
  <2>1. ASSUME d = e PROVE s = {}
    BY <2>1 DEF SymDiff
  <2> QED
    BY <1>2, <2>1
<1>4. SymDiff(Checksum(n, {d}), Checksum(n, {e})) = SymDiff(Checksum(n, {b}), Checksum(n, {c}))
  BY DEF SymDiff
<1> QED
  BY <1>1, <1>3, <1>4, PairsDiffer

(* The syndromes of one and three wrong bits are odd, of none and two even. *)
LEMMA Weights ==
  ASSUME NEW n \in Lengths
  PROVE  /\ Cardinality({}) % 2 = 0
         /\ \A b \in 0 .. n - 1 : Cardinality(Checksum(n, {b})) % 2 = 1
         /\ \A u, v : Cardinality(SymDiff(Checksum(n, u), Checksum(n, v))) % 2
                        = (Cardinality(Checksum(n, u)) + Cardinality(Checksum(n, v))) % 2
         /\ \A u : Cardinality(Checksum(n, u)) \in Nat
<1>1. Cardinality({}) % 2 = 0
  BY FS_EmptySet
<1>2. \A b \in 0 .. n - 1 : Cardinality(Checksum(n, {b})) % 2 = 1
  BY OneBit
<1>3. \A u : IsFiniteSet(Checksum(n, u))
  BY ChecksumType
<1>4. \A u, v : Cardinality(SymDiff(Checksum(n, u), Checksum(n, v))) % 2
                        = (Cardinality(Checksum(n, u)) + Cardinality(Checksum(n, v))) % 2
  BY <1>3, WeightOfSum
<1>5. \A u : Cardinality(Checksum(n, u)) \in Nat
  BY <1>3, FS_CardinalityType
<1> QED
  BY <1>1, <1>2, <1>4, <1>5

LEMMA OddNotEmpty ==
  ASSUME NEW n \in Lengths, NEW b \in 0 .. n - 1
  PROVE  Checksum(n, {b}) # {}
<1>1. Cardinality({}) = 0 /\ 0 % 2 = 0
  BY FS_EmptySet
<1>2. Cardinality(Checksum(n, {b})) % 2 = 1
  BY OneBit
<1> SUFFICES ASSUME Checksum(n, {b}) = {} PROVE FALSE
  OBVIOUS
<1>3. Cardinality(Checksum(n, {b})) = Cardinality({})
  BY Zenon
<1> QED
  BY <1>1, <1>2, <1>3

-----------------------------------------------------------------------------
Ones(n, s) == {b \in Repairable(n) : Checksum(n, {b}) = s}

Twos(n, s) ==
  {b \in Repairable(n) : s # {} /\ \E c \in Repairable(n) : SymDiff(s, Checksum(n, {b})) = Checksum(n, {c})}

LEMMA DiagnoseByBits ==
  ASSUME NEW n \in Lengths, NEW s \in SUBSET (0 .. 23)
  PROVE  Diagnose(n, s) = IF Ones(n, s) # {} THEN Ones(n, s) ELSE Twos(n, s)
<1>1. \A b \in Repairable(n) : SingleErrors[n][b] = Checksum(n, {b})
  BY DEF SingleErrors
<1>2. \A x : x \in Listed[n] <=> \E c \in Repairable(n) : x = Checksum(n, {c})
  BY <1>1 DEF Listed
<1>3. {b \in Repairable(n) : SingleErrors[n][b] = s} = Ones(n, s)
  BY <1>1 DEF Ones
<1>4. {b \in Repairable(n) : s # {} /\ SymDiff(s, SingleErrors[n][b]) \in Listed[n]} = Twos(n, s)
  BY <1>1, <1>2 DEF Twos
<1>5. Diagnose(n, s)
        = IF {b \in Repairable(n) : SingleErrors[n][b] = s} # {}
          THEN {b \in Repairable(n) : SingleErrors[n][b] = s}
          ELSE {b \in Repairable(n) : s # {} /\ SymDiff(s, SingleErrors[n][b]) \in Listed[n]}
  BY DEF Diagnose
<1> QED
  BY <1>3, <1>4, <1>5, Zenon

(* A syndrome stands for two wrong bits at most.                           *)
LEMMA FewDiagnosed ==
  ASSUME NEW n \in Lengths, NEW s \in SUBSET (0 .. 23)
  PROVE  /\ Diagnose(n, s) \subseteq Repairable(n)
         /\ IsFiniteSet(Diagnose(n, s))
         /\ Cardinality(Diagnose(n, s)) \in 0 .. 2
         /\ s = {} => Diagnose(n, s) = {}
<1>1. Diagnose(n, s) \subseteq Repairable(n)
  <2>1. Ones(n, s) \subseteq Repairable(n) /\ Twos(n, s) \subseteq Repairable(n)
    BY DEF Ones, Twos
  <2> QED
    BY <2>1, DiagnoseByBits
<1>2. \E x, y : Diagnose(n, s) \subseteq {x, y}
  <2>1. CASE Ones(n, s) # {}
    <3>1. PICK x : x \in Ones(n, s)
      BY <2>1
    <3>2. Ones(n, s) \subseteq {x}
      BY <3>1, SinglesDiffer, LengthFacts DEF Ones
    <3> QED
      BY <2>1, <3>2, DiagnoseByBits
  <2>2. CASE Ones(n, s) = {} /\ Twos(n, s) # {}
    <3>1. PICK x \in Repairable(n), y \in Repairable(n) :
            s # {} /\ SymDiff(s, Checksum(n, {x})) = Checksum(n, {y})
      BY <2>2 DEF Twos
    <3>2. s = SymDiff(Checksum(n, {x}), Checksum(n, {y})) /\ x # y
      BY <3>1 DEF SymDiff
    <3>3. ASSUME NEW b \in Twos(n, s) PROVE b \in {x, y}
      <4>1. PICK c \in Repairable(n) : b \in Repairable(n) /\ SymDiff(s, Checksum(n, {b})) = Checksum(n, {c})
        BY DEF Twos
      <4>2. x \in 0 .. n - 1 /\ y \in 0 .. n - 1
        BY LengthFacts
      <4>3. (b = x /\ c = y) \/ (b = y /\ c = x)
        BY <3>2, <4>1, <4>2, OnlyPair, ZenonT(30)
      <4> QED
        BY <4>3
    <3> QED
      BY <2>2, <3>3, DiagnoseByBits
  <2>3. CASE Ones(n, s) = {} /\ Twos(n, s) = {}
    BY <2>3, DiagnoseByBits
  <2> QED
    BY <2>1, <2>2, <2>3
<1>3. PICK x, y : Diagnose(n, s) \subseteq {x, y}
  BY <1>2
<1>4. IsFiniteSet({x, y}) /\ Cardinality({x, y}) <= 2
  <2>1. IsFiniteSet({x}) /\ Cardinality({x}) = 1
    BY FS_Singleton
  <2>2. IsFiniteSet({x} \cup {y}) /\ Cardinality({x} \cup {y}) <= 2
    BY <2>1, FS_AddElement
  <2> QED
    BY <2>2
<1>5. IsFiniteSet(Diagnose(n, s)) /\ Cardinality(Diagnose(n, s)) <= Cardinality({x, y})
  BY <1>3, <1>4, FS_Subset
<1>6. Cardinality(Diagnose(n, s)) \in Nat /\ Cardinality({x, y}) \in Nat
  BY <1>4, <1>5, FS_CardinalityType
<1>7. s = {} => Diagnose(n, s) = {}
  <2>1. \A b \in Repairable(n) : Checksum(n, {b}) # {}
    BY OddNotEmpty, LengthFacts
  <2>2. s = {} => Ones(n, s) = {} /\ Twos(n, s) = {}
    BY <2>1 DEF Ones, Twos
  <2> QED
    BY <2>2, DiagnoseByBits
<1>8. Cardinality(Diagnose(n, s)) \in 0 .. 2
  <2>1. \A j, k \in Nat : j <= k /\ k <= 2 => j \in 0 .. 2
    OBVIOUS
  <2> QED
    BY <1>4, <1>5, <1>6, <2>1, Zenon
<1> QED
  BY <1>1, <1>5, <1>7, <1>8, Zenon

(* A bit between others that are wrong.                                    *)
LEMMA ChecksumAdds ==
  ASSUME NEW n \in Lengths, NEW v, NEW b, b \notin v
  PROVE  Checksum(n, v \cup {b}) = SymDiff(Checksum(n, v), Checksum(n, {b}))
<1>1. v \cup {b} = SymDiff(v, {b})
  BY SMTT(30) DEF SymDiff
<1> QED
  BY <1>1, ChecksumLinear, SMTT(30)

(* What up to three wrong bits are taken for: themselves or nothing that   *)
(* can be repaired.                                                        *)
LEMMA RepairIsExact ==
  ASSUME NEW n \in Lengths, NEW v \in SUBSET (0 .. n - 1), IsFiniteSet(v), Cardinality(v) <= 3
  PROVE  /\ Checksum(n, v) = {} <=> v = {}
         /\ Diagnose(n, Checksum(n, v)) \in {{}, v}
<1> DEFINE S(b) == Checksum(n, {b})
           s == Checksum(n, v)
<1>0. s \in SUBSET (0 .. 23) /\ Repairable(n) \subseteq 0 .. n - 1
  BY ChecksumType, LengthFacts
<1>1. CASE v = {}
  BY <1>1, <1>0, ChecksumEmpty, FewDiagnosed
<1>2. CASE \E b : v = {b}
  <2>1. PICK b \in 0 .. n - 1 : v = {b}
    BY <1>2
  <2>2. s # {} /\ Cardinality(s) % 2 = 1
    BY <2>1, OneBit, OddNotEmpty
  <2>3. Ones(n, s) \subseteq {b}
    BY <2>1, <1>0, SinglesDiffer DEF Ones
  <2>4. Twos(n, s) = {}
    <3> SUFFICES ASSUME NEW d \in Repairable(n), NEW e \in Repairable(n), SymDiff(s, S(d)) = S(e)
                 PROVE FALSE
      BY DEF Twos
    <3>1. Cardinality(SymDiff(s, S(d))) % 2 = (Cardinality(s) + Cardinality(S(d))) % 2
      BY Weights
    <3>2. Cardinality(S(d)) % 2 = 1 /\ Cardinality(S(e)) % 2 = 1 /\ Cardinality(S(d)) \in Nat /\ Cardinality(s) \in Nat
      BY Weights, <1>0
    <3> QED
      BY <2>2, <3>1, <3>2
  <2> QED
    BY <1>0, <2>1, <2>2, <2>3, <2>4, DiagnoseByBits
<1>3. CASE \E b, c : b # c /\ v = {b, c}
  <2>1. PICK b \in 0 .. n - 1, c \in 0 .. n - 1 : b # c /\ v = {b, c}
    BY <1>3
  <2>2. s = SymDiff(S(b), S(c))
    <3>1. v = {b} \cup {c} /\ c \notin {b}
      BY <2>1
    <3> QED
      BY <3>1, ChecksumAdds
  <2>3. s # {} /\ Cardinality(s) % 2 = 0
    <3>1. s # {}
      <4>1. S(b) # S(c)
        BY <2>1, SinglesDiffer
      <4> QED
        BY <2>2, <4>1 DEF SymDiff
    <3>2. Cardinality(SymDiff(S(b), S(c))) % 2 = (Cardinality(S(b)) + Cardinality(S(c))) % 2
      BY Weights
    <3>3. Cardinality(S(b)) % 2 = 1 /\ Cardinality(S(c)) % 2 = 1 /\ Cardinality(S(b)) \in Nat /\ Cardinality(S(c)) \in Nat
      BY Weights
    <3>4. (Cardinality(S(b)) + Cardinality(S(c))) % 2 = 0
      BY <3>3
    <3> QED
      BY <2>2, <3>1, <3>2, <3>4
  <2>4. Ones(n, s) = {}
    BY <1>0, <2>3, Weights DEF Ones
  <2>6. \A d, e \in Repairable(n) : SymDiff(s, S(d)) = S(e) => (d = b /\ e = c) \/ (d = c /\ e = b)
    <3>1. b \in 0 .. n - 1 /\ c \in 0 .. n - 1 /\ b # c
      BY <2>1
    <3> HIDE DEF s
    <3> QED
      BY <3>1, <2>2, OnlyPair
  <2>5. ASSUME NEW d \in Twos(n, s) PROVE Twos(n, s) = v
    <3>1. PICK e \in Repairable(n) : d \in Repairable(n) /\ SymDiff(s, S(d)) = S(e)
      BY DEF Twos
    <3>3. (d = b /\ e = c) \/ (d = c /\ e = b)
      BY <2>6, <3>1
    <3>4. b \in Repairable(n) /\ c \in Repairable(n)
      BY <3>1, <3>3
    <3>5. SymDiff(s, S(b)) = S(c) /\ SymDiff(s, S(c)) = S(b)
      BY <2>2 DEF SymDiff
    <3>6. b \in Twos(n, s) /\ c \in Twos(n, s)
      BY <2>3, <3>4, <3>5 DEF Twos
    <3>7. ASSUME NEW f \in Twos(n, s) PROVE f \in {b, c}
      <4>1. PICK g \in Repairable(n) : f \in Repairable(n) /\ SymDiff(s, S(f)) = S(g)
        BY DEF Twos
      <4>3. (f = b /\ g = c) \/ (f = c /\ g = b)
        BY <2>6, <4>1
      <4> QED
        BY <4>3
    <3> QED
      BY <2>1, <3>6, <3>7
  <2> QED
    BY <1>0, <2>1, <2>3, <2>4, <2>5, DiagnoseByBits
<1>4. CASE \E b, c, d : b # c /\ b # d /\ c # d /\ v = {b, c, d}
  <2>1. PICK b \in 0 .. n - 1, c \in 0 .. n - 1, d \in 0 .. n - 1 : b # c /\ b # d /\ c # d /\ v = {b, c, d}
    BY <1>4
  <2>2. s = SymDiff(SymDiff(S(b), S(c)), S(d))
    <3>1. {b, c} = {b} \cup {c} /\ c \notin {b} /\ v = {b, c} \cup {d} /\ d \notin {b, c}
      BY <2>1
    <3>2. Checksum(n, {b, c}) = SymDiff(S(b), S(c))
      BY <3>1, ChecksumAdds
    <3>3. Checksum(n, {b, c} \cup {d}) = SymDiff(Checksum(n, {b, c}), S(d))
      BY <3>1, ChecksumAdds
    <3> QED
      BY <3>1, <3>2, <3>3
  <2>3. s # {} /\ Cardinality(s) % 2 = 1
    <3>1. Checksum(n, {b, c}) = SymDiff(S(b), S(c))
      <4>1. {b, c} = {b} \cup {c} /\ c \notin {b}
        BY <2>1
      <4> QED
        BY <4>1, ChecksumAdds
    <3>2. Cardinality(s) % 2 = (Cardinality(Checksum(n, {b, c})) + Cardinality(S(d))) % 2
      BY <2>2, <3>1, Weights
    <3>3. Cardinality(Checksum(n, {b, c})) % 2 = (Cardinality(S(b)) + Cardinality(S(c))) % 2
      BY <3>1, Weights
    <3>4. /\ Cardinality(S(b)) % 2 = 1 /\ Cardinality(S(c)) % 2 = 1 /\ Cardinality(S(d)) % 2 = 1
          /\ Cardinality(S(b)) \in Nat /\ Cardinality(S(c)) \in Nat /\ Cardinality(S(d)) \in Nat
          /\ Cardinality(Checksum(n, {b, c})) \in Nat
      BY Weights
    <3>5. Cardinality(s) % 2 = 1
      BY <3>2, <3>3, <3>4
    <3>6. s # {}
      <4>1. Cardinality({}) = 0 /\ 0 % 2 = 0
        BY FS_EmptySet
      <4> QED
        BY <3>5, <4>1
    <3> QED
      BY <3>5, <3>6
  <2>4. Ones(n, s) = {}
    <3> SUFFICES ASSUME NEW e \in Repairable(n), S(e) = s PROVE FALSE
      BY DEF Ones
    <3>1. e \in 0 .. n - 1
      BY <1>0
    <3>2. SymDiff(S(b), S(c)) = SymDiff(S(d), S(e))
      BY <2>2 DEF SymDiff
    <3>3. e # d
      <4> SUFFICES ASSUME e = d PROVE FALSE
        OBVIOUS
      <4>1. S(b) = S(c)
        BY <3>2 DEF SymDiff
      <4> QED
        BY <2>1, <4>1, SinglesDiffer
    <3>4. (b = d /\ c = e) \/ (b = e /\ c = d)
      BY <2>1, <3>1, <3>2, <3>3, PairsDiffer
    <3> QED
      BY <2>1, <3>4
  <2>5. Twos(n, s) = {}
    <3> SUFFICES ASSUME NEW e \in Repairable(n), NEW f \in Repairable(n), SymDiff(s, S(e)) = S(f)
                 PROVE FALSE
      BY DEF Twos
    <3>1. Cardinality(SymDiff(s, S(e))) % 2 = (Cardinality(s) + Cardinality(S(e))) % 2
      BY Weights
    <3>2. Cardinality(S(e)) % 2 = 1 /\ Cardinality(S(f)) % 2 = 1 /\ Cardinality(S(e)) \in Nat /\ Cardinality(s) \in Nat
      BY Weights, <1>0
    <3> QED
      BY <2>3, <3>1, <3>2
  <2> QED
    BY <1>0, <2>1, <2>3, <2>4, <2>5, DiagnoseByBits
<1>5. v = {} \/ (\E b : v = {b}) \/ (\E b, c : b # c /\ v = {b, c})
        \/ \E b, c, d : b # c /\ b # d /\ c # d /\ v = {b, c, d}
  <2> SUFFICES ASSUME v # {} PROVE (\E b : v = {b}) \/ (\E b, c : b # c /\ v = {b, c})
                                     \/ \E b, c, d : b # c /\ b # d /\ c # d /\ v = {b, c, d}
    OBVIOUS
  <2>1. PICK b \in v : TRUE
    OBVIOUS
  <2>2. IsFiniteSet(v \ {b}) /\ Cardinality(v \ {b}) = Cardinality(v) - 1
    BY <2>1, FS_RemoveElement
  <2>3. CASE v \ {b} = {}
    BY <2>1, <2>3
  <2>4. ASSUME NEW c \in v \ {b} PROVE (\E x, y : x # y /\ v = {x, y})
                                     \/ \E x, y, z : x # y /\ x # z /\ y # z /\ v = {x, y, z}
    <3>1. IsFiniteSet(v \ {b, c}) /\ Cardinality(v \ {b, c}) = Cardinality(v) - 2
      <4>1. (v \ {b}) \ {c} = v \ {b, c}
        OBVIOUS
      <4>2. /\ IsFiniteSet((v \ {b}) \ {c})
            /\ Cardinality((v \ {b}) \ {c}) = Cardinality(v \ {b}) - 1
        BY <2>2, <2>4, FS_RemoveElement
      <4>3. Cardinality(v) \in Nat
        BY FS_CardinalityType
      <4> QED
        BY <2>2, <2>4, <4>1, <4>2, <4>3
    <3>2. ASSUME v \ {b, c} = {} PROVE v = {b, c} /\ b # c
      <4>1. \A x : x \in v => x \in {b, c}
        BY <3>2
      <4>2. b \in v /\ c \in v
        BY <2>1, <2>4
      <4> QED
        BY <2>4, <4>1, <4>2
    <3>3. ASSUME NEW d \in v \ {b, c} PROVE v = {b, c, d} /\ b # c /\ b # d /\ c # d
      <4>1. /\ IsFiniteSet((v \ {b, c}) \ {d})
            /\ Cardinality((v \ {b, c}) \ {d}) = Cardinality(v \ {b, c}) - 1
        BY <3>1, FS_RemoveElement
      <4>2. Cardinality((v \ {b, c}) \ {d}) = 0
        <5>1. Cardinality(v) \in Nat /\ Cardinality((v \ {b, c}) \ {d}) \in Nat
          BY <4>1, FS_CardinalityType
        <5> QED
          BY <3>1, <4>1, <5>1
      <4>3. (v \ {b, c}) \ {d} = {}
        BY <4>1, <4>2, FS_EmptySet
      <4>4. v = {b, c, d}
        <5>1. \A x : x \in v => x \in {b, c, d}
          BY <4>3
        <5>2. b \in v /\ c \in v /\ d \in v
          BY <2>1, <2>4, <3>3
        <5> QED
          BY <5>1, <5>2
      <4> QED
        BY <2>4, <4>4
    <3>4. CASE v \ {b, c} # {}
      BY <3>3, <3>4, Zenon
    <3> QED
      BY <2>4, <3>2, <3>4
  <2> QED
    BY <2>3, <2>4
<1> QED
  BY <1>1, <1>2, <1>3, <1>4, <1>5

-----------------------------------------------------------------------------
LEMMA SentFacts ==
  ASSUME NEW m, m.of \in DOMAIN Transmissions
  PROVE  /\ Transmissions[m.of].df \in ShortTypes \cup LongTypes
         /\ Bits(m) \in Lengths
         /\ Bits(m) \in Nat
BY TransmissionAssumption DEF Bits, Length, Lengths, ShortTypes, LongTypes

LEMMA SyndromeType ==
  ASSUME NEW m, m.of \in DOMAIN Transmissions
  PROVE  Syndrome(m) \in SUBSET (0 .. 23)
BY SentFacts, ChecksumType DEF Syndrome

LEMMA ErrorsType ==
  ASSUME NEW m, m.of \in DOMAIN Transmissions
  PROVE  /\ Errors(m) \in 0 .. 3
         /\ Errors(m) = 0 <=> Syndrome(m) = {}
         /\ Errors(m) < 3 => Syndrome(m) = {} \/ Repair(m) # {}
         /\ Repair(m) \subseteq Repairable(Bits(m))
<1> DEFINE s == Syndrome(m)
           r == Repair(m)
<1>1. s \in SUBSET (0 .. 23) /\ Bits(m) \in Lengths
  BY SyndromeType, SentFacts
<1>2. /\ r \subseteq Repairable(Bits(m))
      /\ IsFiniteSet(r) /\ Cardinality(r) \in 0 .. 2
      /\ s = {} => r = {}
  BY <1>1, FewDiagnosed DEF Repair
<1>3. Cardinality(r) = 0 <=> r = {}
  BY <1>2, FS_EmptySet
<1>4. Errors(m) = IF s # {} /\ r = {} THEN 3 ELSE Cardinality(r)
  BY DEF Errors, ErrorCount
<1> HIDE DEF s, r
<1>5. CASE s = {}
  <2>1. Cardinality(r) = 0
    BY <1>2, <1>3, <1>5, Zenon
  <2>2. Errors(m) = 0
    BY <1>4, <1>5, <2>1, Zenon
  <2> QED
    BY <1>2, <1>5, <2>2 DEF s, r
<1>6. CASE s # {} /\ r = {}
  <2>1. Errors(m) = 3
    BY <1>4, <1>6, Zenon
  <2> QED
    BY <1>2, <1>6, <2>1 DEF s, r
<1>7. CASE s # {} /\ r # {}
  <2>1. Errors(m) = Cardinality(r) /\ Cardinality(r) # 0
    BY <1>3, <1>4, <1>7, Zenon
  <2>2. Errors(m) \in 1 .. 2
    BY <2>1, <1>2
  <2> QED
    BY <1>2, <1>7, <2>2 DEF s, r
<1> QED
  BY <1>5, <1>6, <1>7

(* Up to the highest of all scores.                                        *)
Scale == 0 .. 1800

(* Only what has no error scores as much as a squitter without error.      *)
LEMMA Scores ==
  ASSUME NEW m, m.of \in DOMAIN Transmissions, Length(Type(m)) # 0
  PROVE  /\ Score(m) \in Scale
         /\ Score(m) >= 1400 => Syndrome(m) = {}
         /\ Type(m) \in Squitters /\ Syndrome(m) = {} => Score(m) >= 1400
<1>1. Errors(m) \in 0 .. 3 /\ (Errors(m) = 0 <=> Syndrome(m) = {})
  BY ErrorsType
<1>2. Type(m) \in Replies \cup {11} \cup Squitters
  BY DEF Length, ShortTypes, LongTypes, Replies, Squitters
<1> DEFINE e == Errors(m) + 1
           k == IF icao_filter_test(AddressField(m)) THEN 1 ELSE 2
<1>3. e \in 1 .. 4 /\ (e = 1 <=> Syndrome(m) = {}) /\ k \in {1, 2} /\ Score(m) = Points(m)[k][e]
  BY <1>1 DEF Score
<1> HIDE DEF e, k
<1> USE DEF Scale
<1>4. CASE Type(m) \in Replies
  <2>1. Points(m) = <<<<1000, 700, 100, 100>>, <<700, 500, 100, 100>>>> /\ Type(m) \notin Squitters
    BY <1>4 DEF Points, Replies, Squitters
  <2>2. Score(m) \in 0 .. 1000
    BY <1>3, <2>1, SMTT(30)
  <2> QED
    BY <2>1, <2>2, SMTT(30)
<1>5. CASE Type(m) = 11 /\ Capability(m) = {}
  <2>1. Points(m) = <<<<1600, 800, 100, 100>>, <<750, 400, 100, 100>>>> /\ Type(m) \notin Squitters
    BY <1>5 DEF Points, Replies, Squitters
  <2>2. Score(m) \in 0 .. 1600 /\ (Score(m) >= 1400 => e = 1)
    BY <1>3, <2>1, SMTT(30)
  <2>3. e = 1 => Syndrome(m) = {}
    BY <1>3, Zenon
  <2>4. \A i \in 0 .. 1600 : i \in 0 .. 1800
    OBVIOUS
  <2> QED
    BY <2>1, <2>2, <2>3, <2>4
<1>6. CASE Type(m) = 11 /\ Capability(m) # {}
  <2>1. Points(m) = <<<<700, 800, 100, 100>>, <<500, 400, 100, 100>>>> /\ Type(m) \notin Squitters
    BY <1>6 DEF Points, Replies, Squitters
  <2>2. Score(m) \in 0 .. 1000
    BY <1>3, <2>1, SMTT(30)
  <2> QED
    BY <2>1, <2>2, SMTT(30)
<1>7. CASE Type(m) \in Squitters
  <2>1. Points(m) = <<<<1800, 900, 450, 100>>, <<1400, 700, 350, 100>>>>
    BY <1>7 DEF Points, Replies, Squitters
  <2>2. Score(m) \in Scale /\ (Score(m) >= 1400 <=> e = 1)
    BY <1>3, <2>1, SMTT(30)
  <2> QED
    BY <1>3, <2>2, SMTT(30)
<1> QED
  BY <1>2, <1>4, <1>5, <1>6, <1>7

(* The order of score and phase as one number.                             *)
Rank(score, phase) == 16 * (1800 - score) + phase

(* The best of some scores is among them.                                  *)
LEMMA WinnerIsBest ==
  ASSUME NEW S, S # {}, S \subseteq Scale \X Phases
  PROVE  Winner(S) \in S /\ \A t \in S : Winner(S)[1] >= t[1]
<1> DEFINE R == {Rank(s[1], s[2]) : s \in S}
<1>1. \A s \in S : s[1] \in Scale /\ s[2] \in Phases
  OBVIOUS
<1>2. R \subseteq Nat /\ R # {}
  <2>1. ASSUME NEW s \in S PROVE Rank(s[1], s[2]) \in Nat
    <3>1. PICK a \in Scale, x \in Phases : a = s[1] /\ x = s[2]
      BY <1>1, Zenon
    <3>2. Rank(a, x) \in Nat
      BY DEF Rank, Phases, Scale
    <3> QED
      BY <3>1, <3>2, Zenon
  <2> QED
    BY <2>1
<1>3. \E r \in R : \A k \in R : r <= k
  <2> HIDE DEF R
  <2> QED
    BY <1>2, LeastNumber, Zenon
<1>4. PICK s \in S : \A k \in R : Rank(s[1], s[2]) <= k
  BY <1>3
<1>5. ASSUME NEW t \in S PROVE s[1] > t[1] \/ (s[1] = t[1] /\ s[2] <= t[2])
  <2>1. Rank(s[1], s[2]) <= Rank(t[1], t[2])
    BY <1>4
  <2>2. PICK a \in Scale, x \in Phases : a = s[1] /\ x = s[2]
    BY <1>1, Zenon
  <2>3. PICK b \in Scale, y \in Phases : b = t[1] /\ y = t[2]
    BY <1>1, Zenon
  <2>4. Rank(a, x) <= Rank(b, y)
    BY <2>1, <2>2, <2>3
  <2>5. a > b \/ (a = b /\ x <= y)
    BY <2>4 DEF Rank, Phases, Scale
  <2> QED
    BY <2>2, <2>3, <2>5
<1>6. \E x \in S : \A t \in S : x[1] > t[1] \/ (x[1] = t[1] /\ x[2] <= t[2])
  BY <1>5
<1> DEFINE w == Winner(S)
<1>7. w \in S /\ \A t \in S : w[1] > t[1] \/ (w[1] = t[1] /\ w[2] <= t[2])
  BY <1>6 DEF Winner
<1> HIDE DEF R, w
<1>8. ASSUME NEW t \in S PROVE w[1] >= t[1]
  <2>1. PICK a \in Scale : a = w[1]
    BY <1>1, <1>7, Zenon
  <2>2. PICK b \in Scale : b = t[1]
    BY <1>1, Zenon
  <2>3. a > b \/ a = b
    BY <1>7, <2>1, <2>2
  <2>4. a >= b
    BY <2>3 DEF Scale
  <2> QED
    BY <2>1, <2>2, <2>4
<1> QED
  BY <1>7, <1>8 DEF w

-----------------------------------------------------------------------------
(* What a phase reads now, and what one may ever read in the buffer.       *)
Read(q, f) == heard[q].reads[f]

IsRead(r) ==
  \E q \in DOMAIN B.shapes : \E c \in B.shapes[q] : \E f \in DOMAIN c.reads : r = c.reads[f]

LEMMA ReadFacts ==
  ASSUME buffer \in Buffers, NEW r, IsRead(r)
  PROVE  /\ r.of \in DOMAIN Transmissions
         /\ r.wrong \subseteq 0 .. Bits(r) - 1
         /\ Length(Type(r)) \in {0, Bits(r)}
BY ReadsAssumption DEF B, IsRead

LEMMA HeardIsRead ==
  ASSUME TypeInv, NEW q \in DOMAIN heard, NEW f \in DOMAIN heard[q].reads
  PROVE  f \in Phases /\ IsRead(Read(q, f))
<1>1. q \in DOMAIN B.shapes /\ heard[q] \in B.shapes[q] /\ buffer \in Buffers
  BY DEF TypeInv
<1>2. f \in Phases
  BY <1>1, ReadsAssumption DEF B
<1> QED
  BY <1>1, <1>2 DEF IsRead, Read

LEMMA BestIsRead ==
  ASSUME TypeInv, NEW q \in DOMAIN heard, Readable(q) # {}
  PROVE  \E f \in Readable(q) :
           /\ Best(q) = Finding(q, f)
           /\ \A g \in Readable(q) : Score(Read(q, f)) >= Score(Read(q, g))
<1> DEFINE S == {<<Score(Read(q, f)), f>> : f \in Readable(q)}
<1>1. S \subseteq Scale \X Phases /\ S # {}
  <2>1. ASSUME NEW f \in Readable(q) PROVE Score(Read(q, f)) \in Scale /\ f \in Phases
    <3>1. f \in DOMAIN heard[q].reads /\ Length(Type(Read(q, f))) # 0
      BY DEF Readable, Read
    <3>2. f \in Phases /\ Read(q, f).of \in DOMAIN Transmissions
      BY <3>1, HeardIsRead, ReadFacts DEF TypeInv
    <3> QED
      BY <3>1, <3>2, Scores
  <2>2. ASSUME NEW f \in Readable(q) PROVE <<Score(Read(q, f)), f>> \in Scale \X Phases
    BY <2>1
  <2>3. S # {}
    OBVIOUS
  <2> QED
    BY <2>2, <2>3
<1>2. Winner(S) \in S /\ \A t \in S : Winner(S)[1] >= t[1]
  <2> HIDE DEF S
  <2> QED
    BY <1>1, WinnerIsBest
<1>3. PICK f \in Readable(q) : Winner(S) = <<Score(Read(q, f)), f>>
  <2>1. \A w \in S : \E f \in Readable(q) : w = <<Score(Read(q, f)), f>>
    OBVIOUS
  <2> HIDE DEF S
  <2> QED
    BY <2>1, <1>2
<1>4. Best(q) = Finding(q, f)
  <2>1. Best(q) = Finding(q, Winner(S)[2])
    BY DEF Best, Read
  <2> HIDE DEF S
  <2> QED
    BY <2>1, <1>3
<1>5. ASSUME NEW g \in Readable(q) PROVE Score(Read(q, f)) >= Score(Read(q, g))
  <2> DEFINE t == <<Score(Read(q, g)), g>>
  <2>1. t \in S
    OBVIOUS
  <2> HIDE DEF S
  <2>2. Winner(S)[1] >= t[1]
    BY <2>1, <1>2
  <2> QED
    BY <2>2, <1>3
<1> QED
  BY <1>4, <1>5

-----------------------------------------------------------------------------
(* The type field.                                                         *)

LEMMA TypeBitsOf ==
  ASSUME NEW df \in 0 .. 31
  PROVE  TypeBits(df) = {b \in 0 .. 4 : \/ b = 0 /\ (df \div 16) % 2 = 1
                                        \/ b = 1 /\ (df \div 8) % 2 = 1
                                        \/ b = 2 /\ (df \div 4) % 2 = 1
                                        \/ b = 3 /\ (df \div 2) % 2 = 1
                                        \/ b = 4 /\ df % 2 = 1}
<1>1. /\ Weight[0 + 1] = 16 /\ Weight[1 + 1] = 8 /\ Weight[2 + 1] = 4 /\ Weight[3 + 1] = 2
      /\ Weight[4 + 1] = 1 /\ df \div 1 = df
  BY DEF Weight
<1>2. \A b \in 0 .. 4 : b = 0 \/ b = 1 \/ b = 2 \/ b = 3 \/ b = 4
  OBVIOUS
<1> QED
  BY <1>1, <1>2 DEF TypeBits

LEMMA TypeIsRead ==
  ASSUME NEW df \in 0 .. 31
  PROVE  TypeOf[TypeBits(df)] = df
<1>1. ASSUME NEW e \in 0 .. 31, TypeBits(e) = TypeBits(df) PROVE e = df
  <2>1. /\ (e \div 16) % 2 = 1 <=> (df \div 16) % 2 = 1
        /\ (e \div 8) % 2 = 1 <=> (df \div 8) % 2 = 1
        /\ (e \div 4) % 2 = 1 <=> (df \div 4) % 2 = 1
        /\ (e \div 2) % 2 = 1 <=> (df \div 2) % 2 = 1
        /\ e % 2 = 1 <=> df % 2 = 1
    <3>1. \A b \in 0 .. 4 : b \in TypeBits(e) <=> b \in TypeBits(df)
      BY <1>1
    <3>2. /\ 0 \in TypeBits(e) <=> 0 \in TypeBits(df)
          /\ 1 \in TypeBits(e) <=> 1 \in TypeBits(df)
          /\ 2 \in TypeBits(e) <=> 2 \in TypeBits(df)
          /\ 3 \in TypeBits(e) <=> 3 \in TypeBits(df)
          /\ 4 \in TypeBits(e) <=> 4 \in TypeBits(df)
      BY <3>1
    <3> QED
      BY <3>2, TypeBitsOf
  <2> QED
    BY <2>1
<1>2. TypeBits(df) \in SUBSET (0 .. 4)
  BY DEF TypeBits
<1>3. TypeOf[TypeBits(df)] = CHOOSE e \in 0 .. 31 : TypeBits(e) = TypeBits(df)
  BY <1>2 DEF TypeOf
<1> QED
  BY <1>1, <1>3

LEMMA TypeHasBits ==
  ASSUME NEW bits \in SUBSET (0 .. 4)
  PROVE  TypeBits(TypeOf[bits]) = bits
<1> DEFINE e == (IF 0 \in bits THEN 16 ELSE 0) + (IF 1 \in bits THEN 8 ELSE 0) + (IF 2 \in bits THEN 4 ELSE 0)
                  + (IF 3 \in bits THEN 2 ELSE 0) + (IF 4 \in bits THEN 1 ELSE 0)
<1>1. /\ e \in 0 .. 31
      /\ (e \div 16) % 2 = 1 <=> 0 \in bits
      /\ (e \div 8) % 2 = 1 <=> 1 \in bits
      /\ (e \div 4) % 2 = 1 <=> 2 \in bits
      /\ (e \div 2) % 2 = 1 <=> 3 \in bits
      /\ e % 2 = 1 <=> 4 \in bits
  OBVIOUS
<1> HIDE DEF e
<1>2. TypeBits(e) = bits
  <2>1. \A b \in 0 .. 4 : b \in TypeBits(e) <=> b \in bits
    BY <1>1, TypeBitsOf
  <2>2. TypeBits(e) \subseteq 0 .. 4
    BY DEF TypeBits
  <2> QED
    BY <2>1, <2>2
<1>3. TypeOf[bits] = CHOOSE df \in 0 .. 31 : TypeBits(df) = bits
  BY DEF TypeOf
<1> QED
  BY <1>1, <1>2, <1>3

LEMMA ThreeMembers ==
  ASSUME NEW w, IsFiniteSet(w), NEW a \in w, NEW b \in w, NEW c \in w, a # b, a # c, b # c
  PROVE  Cardinality(w) >= 3
<1>1. IsFiniteSet(w \ {a}) /\ Cardinality(w \ {a}) = Cardinality(w) - 1
  BY FS_RemoveElement
<1>2. IsFiniteSet((w \ {a}) \ {b}) /\ Cardinality((w \ {a}) \ {b}) = Cardinality(w \ {a}) - 1
  BY <1>1, FS_RemoveElement
<1>3. /\ IsFiniteSet(((w \ {a}) \ {b}) \ {c})
      /\ Cardinality(((w \ {a}) \ {b}) \ {c}) = Cardinality((w \ {a}) \ {b}) - 1
  BY <1>2, FS_RemoveElement
<1>4. Cardinality(w) \in Nat /\ Cardinality(((w \ {a}) \ {b}) \ {c}) \in Nat
  BY <1>3, FS_CardinalityType
<1> QED
  BY <1>1, <1>2, <1>3, <1>4

(* An all-call reply with two wrong bits is not taken for one of the types *)
(* that are accepted whatever their parity.                                *)
LEMMA AllCallStaysChecked ==
  ASSUME NEW w, IsFiniteSet(w), Cardinality(w) <= 2
  PROVE  TypeOf[SymDiff(TypeBits(11), w \cap (0 .. 4))] \notin {0, 4, 5}
<1> DEFINE bits == SymDiff(TypeBits(11), w \cap (0 .. 4))
<1>1. TypeBits(11) = {1, 3, 4} /\ TypeBits(0) = {} /\ TypeBits(4) = {2} /\ TypeBits(5) = {2, 4}
  BY TypeBitsOf
<1>2. bits \in SUBSET (0 .. 4)
  BY <1>1 DEF SymDiff
<1> SUFFICES ASSUME TypeOf[bits] \in {0, 4, 5} PROVE FALSE
  OBVIOUS
<1>3. bits \in {{}, {2}, {2, 4}}
  <2>1. TypeBits(TypeOf[bits]) = bits
    BY <1>2, TypeHasBits
  <2> HIDE DEF bits
  <2> QED
    BY <1>1, <2>1
<1>4. 1 \in w /\ 3 \in w /\ (4 \in w \/ 2 \in w)
  <2>1. 1 \notin bits /\ 3 \notin bits /\ (4 \notin bits \/ 2 \in bits)
    <3> HIDE DEF bits
    <3> QED
      BY <1>3
  <2>2. \A b \in 0 .. 4 : b \in bits <=> (b \in TypeBits(11) /\ b \notin w) \/ (b \notin TypeBits(11) /\ b \in w)
    BY <1>1 DEF SymDiff
  <2>3. 1 \in TypeBits(11) /\ 3 \in TypeBits(11) /\ 4 \in TypeBits(11) /\ 2 \notin TypeBits(11)
    BY <1>1
  <2> HIDE DEF bits
  <2> QED
    BY <2>1, <2>2, <2>3
<1>5. Cardinality(w) >= 3
  BY <1>4, ThreeMembers
<1> QED
  BY <1>5, FS_CardinalityType

-----------------------------------------------------------------------------
(* Up to three wrong bits of a message with plain parity are repaired as   *)
(* they are, or not at all.                                                *)
LEMMA RepairsItself ==
  ASSUME NEW m, m.of \in DOMAIN Transmissions, Transmissions[m.of].overlay = {},
         m.wrong \subseteq 0 .. Bits(m) - 1, Cardinality(m.wrong) <= 3, Errors(m) < 3
  PROVE  Fix(m.wrong, Repair(m)) = {} /\ m.wrong \subseteq Repairable(Bits(m))
<1> DEFINE w == m.wrong
           n == Bits(m)
           s == Syndrome(m)
<1>1. n \in Lengths /\ n \in Nat
  BY SentFacts
<1>2. IsFiniteSet(w)
  <2>1. IsFiniteSet(0 .. n - 1)
    BY <1>1, FS_Interval
  <2> QED
    BY <2>1, FS_Subset
<1>3. s = Checksum(n, w)
  <2>1. SymDiff(w, {}) = w
    BY DEF SymDiff
  <2> QED
    BY <2>1 DEF Syndrome
<1>4. (Checksum(n, w) = {} <=> w = {}) /\ Diagnose(n, Checksum(n, w)) \in {{}, w}
  <2>1. w \in SUBSET (0 .. n - 1) /\ Cardinality(w) <= 3
    OBVIOUS
  <2> HIDE DEF n, w
  <2> QED
    BY <1>1, <1>2, <2>1, RepairIsExact
<1>5. Repair(m) \in {{}, w}
  BY <1>3, <1>4 DEF Repair
<1>6. Repair(m) \subseteq Repairable(n) /\ (s = {} \/ Repair(m) # {})
  BY ErrorsType
<1>7. CASE Repair(m) = w
  BY <1>6, <1>7 DEF Fix, SymDiff
<1>8. CASE Repair(m) # w
  <2>1. Repair(m) = {} /\ s = {} /\ w = {}
    BY <1>3, <1>4, <1>5, <1>6, <1>8
  <2> QED
    BY <2>1, <1>8
<1> QED
  BY <1>7, <1>8

-----------------------------------------------------------------------------
(* Where messages come from.                                               *)
(* What becomes of a reading: with several passes it is repaired.          *)
Settled(m, r) ==
  /\ B.multi => Errors(r) < 3
  /\ \E a, p : m = [at |-> a, of |-> r.of, heard |-> r.wrong, pass |-> p,
                    wrong |-> IF B.multi THEN Fix(r.wrong, Repair(r)) ELSE r.wrong]

MessageInv ==
  /\ pc = "keep" => B.multi
  /\ \A i \in DOMAIN found : \E r : IsRead(r) /\ found[i].of = r.of /\ found[i].wrong = r.wrong
  /\ \A i \in DOMAIN out : \E r : IsRead(r) /\ Settled(out[i], r)

(* A squitter without error.                                               *)
Clean(q) == \E f \in Readable(q) : Type(Read(q, f)) \in Squitters /\ Syndrome(Read(q, f)) = {}

CleanInv ==
  pc = "scan" => \A q \in tried : Clean(q) =>
                   \E i \in DOMAIN found : found[i].at = q /\ Syndrome(found[i]) = {}

LEMMA SameReads ==
  ASSUME buffer' = buffer
  PROVE  /\ B' = B
         /\ \A r : IsRead(r)' = IsRead(r)
         /\ \A m, r : Settled(m, r)' = Settled(m, r)
BY DEF B, IsRead, Settled

LEMMA SameReading ==
  ASSUME NEW m, NEW r, m.of = r.of, m.wrong = r.wrong
  PROVE  /\ Bits(m) = Bits(r) /\ Type(m) = Type(r) /\ Syndrome(m) = Syndrome(r)
         /\ Repair(m) = Repair(r) /\ Errors(m) = Errors(r)
<1>1. Bits(m) = Bits(r) /\ Type(m) = Type(r)
  BY DEF Bits, Type
<1>2. Syndrome(m) = Syndrome(r)
  BY <1>1 DEF Syndrome
<1>3. Repair(m) = Repair(r)
  BY <1>1, <1>2 DEF Repair
<1> QED
  BY <1>1, <1>2, <1>3 DEF Errors

LEMMA ReadableReads ==
  ASSUME TypeInv, NEW q \in DOMAIN heard, NEW f \in Readable(q)
  PROVE  IsRead(Read(q, f)) /\ Length(Type(Read(q, f))) # 0
BY HeardIsRead DEF Readable, Read

(* The winner of a candidate that a phase reads as a clean squitter has no *)
(* error.                                                                  *)
LEMMA BestIsClean ==
  ASSUME TypeInv, NEW q \in DOMAIN heard, Clean(q)
  PROVE  Syndrome(Best(q)) = {}
<1>1. PICK g \in Readable(q) : Type(Read(q, g)) \in Squitters /\ Syndrome(Read(q, g)) = {}
  BY DEF Clean
<1>2. PICK f \in Readable(q) : /\ Best(q) = Finding(q, f)
                               /\ \A h \in Readable(q) : Score(Read(q, f)) >= Score(Read(q, h))
  BY <1>1, BestIsRead
<1>3. /\ Read(q, g).of \in DOMAIN Transmissions /\ Length(Type(Read(q, g))) # 0
      /\ Read(q, f).of \in DOMAIN Transmissions /\ Length(Type(Read(q, f))) # 0
  BY ReadableReads, ReadFacts DEF TypeInv
<1>4. Score(Read(q, g)) >= 1400 /\ Score(Read(q, g)) \in Scale /\ Score(Read(q, f)) \in Scale
  BY <1>1, <1>3, Scores
<1>5. Score(Read(q, f)) >= 1400
  <2>1. Score(Read(q, f)) >= Score(Read(q, g))
    BY <1>2
  <2>2. \A a, b \in Scale : a >= b /\ b >= 1400 => a >= 1400
    BY DEF Scale
  <2> QED
    BY <1>4, <2>1, <2>2
<1>6. Syndrome(Read(q, f)) = {}
  BY <1>3, <1>5, Scores
<1>7. Best(q).of = Read(q, f).of /\ Best(q).wrong = Read(q, f).wrong
  BY <1>2 DEF Finding, Read
<1> QED
  BY <1>6, <1>7, SameReading

LEMMA BestFacts ==
  ASSUME TypeInv, NEW q \in DOMAIN heard, Readable(q) # {}
  PROVE  \E r : IsRead(r) /\ Best(q).at = q /\ Best(q).of = r.of /\ Best(q).wrong = r.wrong
<1>1. PICK f \in Readable(q) : Best(q) = Finding(q, f)
  BY BestIsRead
<1> QED
  BY <1>1, ReadableReads DEF Finding, Read

-----------------------------------------------------------------------------
LEMMA MessageInit == Init => MessageInv /\ CleanInv
BY DEF Init, MessageInv, CleanInv

LEMMA MessageScan ==
  ASSUME IInv, MessageInv, CleanInv, SkipQuiet \/ Correlate
  PROVE  MessageInv' /\ CleanInv'
<1>1. /\ buffer' = buffer /\ heard' = heard /\ pc' = pc /\ pass' = pass /\ out' = out /\ pc = "scan"
      /\ TypeInv
  BY DEF SkipQuiet, Correlate, IInv, TypeInv
<1>2. /\ \A q : Readable(q)' = Readable(q)
      /\ \A q : Clean(q)' = Clean(q)
  <2>1. \A q : Readable(q)' = Readable(q)
    BY <1>1 DEF Readable, CurrentThreshold, AdaptiveThreshold, B
  <2> QED
    BY <2>1, <1>1 DEF Clean, Read
<1>3. CASE SkipQuiet
  <2>1. found' = found /\ tried' = tried
    BY <1>3 DEF SkipQuiet
  <2> QED
    BY <2>1, <1>1, <1>2, SameReads DEF MessageInv, CleanInv
<1>4. CASE Correlate
  <2>1. PICK q \in Ahead : /\ tried' = tried \cup {q}
                           /\ \/ Readable(q) = {} /\ found' = found
                              \/ Readable(q) # {} /\ found' = Append(found, Best(q))
    BY <1>4 DEF Correlate
  <2>2. q \in DOMAIN heard
    BY DEF Ahead
  <2>3. CASE Readable(q) = {} /\ found' = found
    <3>1. ~Clean(q)
      BY <2>3 DEF Clean
    <3> QED
      BY <2>1, <2>3, <3>1, <1>1, <1>2, SameReads DEF MessageInv, CleanInv
  <2>4. CASE Readable(q) # {} /\ found' = Append(found, Best(q))
    <3>1. PICK S : found \in Seq(S)
      BY DEF IInv, TypeInv
    <3> DEFINE k == Len(found)
    <3>2. /\ k \in Nat /\ DOMAIN found = 1 .. k /\ DOMAIN found' = 1 .. k + 1
          /\ \A i \in 1 .. k : found'[i] = found[i]
          /\ found'[k + 1] = Best(q)
      BY <2>4, <3>1, AppendFacts
    <3> HIDE DEF k
    <3>3. PICK r : IsRead(r) /\ Best(q).at = q /\ Best(q).of = r.of /\ Best(q).wrong = r.wrong
      BY <1>1, <2>2, <2>4, BestFacts
    <3>4. MessageInv'
      <4>1. ASSUME NEW i \in DOMAIN found'
            PROVE  \E t : IsRead(t) /\ found'[i].of = t.of /\ found'[i].wrong = t.wrong
        <5>1. CASE i \in 1 .. k
          BY <5>1, <3>2 DEF MessageInv
        <5>2. CASE i = k + 1
          BY <5>2, <3>2, <3>3
        <5> QED
          BY <5>1, <5>2, <3>2
      <4> QED
        BY <4>1, <1>1, SameReads DEF MessageInv
    <3>5. CleanInv'
      <4>1. ASSUME NEW p \in tried, Clean(p)
            PROVE  \E i \in DOMAIN found' : found'[i].at = p /\ Syndrome(found'[i]) = {}
        <5>1. PICK i \in DOMAIN found : found[i].at = p /\ Syndrome(found[i]) = {}
          BY <4>1, <1>1 DEF CleanInv
        <5>2. i \in 1 .. k + 1 /\ found'[i] = found[i]
          BY <3>2
        <5> QED
          BY <5>1, <5>2, <3>2
      <4>2. ASSUME Clean(q)
            PROVE  \E i \in DOMAIN found' : found'[i].at = q /\ Syndrome(found'[i]) = {}
        <5>1. Syndrome(Best(q)) = {}
          BY <4>2, <1>1, <2>2, BestIsClean
        <5>2. k + 1 \in DOMAIN found'
          BY <3>2
        <5> QED
          BY <5>1, <5>2, <3>2, <3>3
      <4> QED
        BY <4>1, <4>2, <2>1, <1>1, <1>2 DEF CleanInv
    <3> QED
      BY <3>4, <3>5
  <2> QED
    BY <2>1, <2>3, <2>4
<1> QED
  BY <1>3, <1>4

LEMMA MessageEndScan ==
  ASSUME IInv, MessageInv, CleanInv, EndScan
  PROVE  MessageInv' /\ CleanInv'
<1>1. buffer' = buffer /\ found' = found /\ pc' \in {"keep", "publish"}
  BY DEF EndScan
<1>2. CleanInv'
  BY <1>1 DEF CleanInv
<1>3. CASE B.multi /\ pc' = "keep" /\ out' = out
  BY <1>1, <1>2, <1>3, SameReads DEF MessageInv
<1>4. CASE ~B.multi /\ pc' = "publish" /\ out' = [i \in DOMAIN found |-> Kept(found[i], found[i].wrong)]
  <2>1. ASSUME NEW i \in DOMAIN out' PROVE \E r : IsRead(r) /\ Settled(out'[i], r)
    <3>1. i \in DOMAIN found /\ out'[i] = Kept(found[i], found[i].wrong)
      BY <1>4
    <3>2. PICK r : IsRead(r) /\ found[i].of = r.of /\ found[i].wrong = r.wrong
      BY <3>1 DEF MessageInv
    <3>3. Settled(out'[i], r)
      BY <1>4, <3>1, <3>2 DEF Kept, Settled
    <3> QED
      BY <3>2, <3>3
  <2> QED
    BY <2>1, <1>1, <1>2, <1>4, SameReads DEF MessageInv
<1> QED
  BY <1>3, <1>4 DEF EndScan

LEMMA MessageKeep ==
  ASSUME IInv, MessageInv, CleanInv, Keep
  PROVE  MessageInv' /\ CleanInv'
<1> DEFINE m == found[next]
           e == Kept(m, Fix(m.wrong, Repair(m)))
<1>1. /\ buffer' = buffer /\ found' = found /\ pc = "keep" /\ pc' = "keep" /\ B.multi
      /\ Errors(m) < 3 /\ out' = Append(out, e)
  BY DEF Keep, MessageInv
<1>2. CleanInv'
  BY <1>1 DEF CleanInv
<1>3. next \in DOMAIN found
  BY DEF Keep, IInv, TypeInv
<1>4. PICK r : IsRead(r) /\ m.of = r.of /\ m.wrong = r.wrong
  BY <1>3 DEF MessageInv
<1>5. Errors(m) = Errors(r) /\ Repair(m) = Repair(r)
  BY <1>4, SameReading
<1>6. Settled(e, r)
  BY <1>1, <1>4, <1>5 DEF Kept, Settled
<1>7. PICK S : out \in Seq(S)
  BY DEF IInv, TypeInv
<1> DEFINE k == Len(out)
<1> HIDE DEF e, m
<1>8. /\ k \in Nat /\ DOMAIN out = 1 .. k /\ DOMAIN out' = 1 .. k + 1
      /\ \A i \in 1 .. k : out'[i] = out[i]
      /\ out'[k + 1] = e
  BY <1>1, <1>7, AppendFacts
<1> HIDE DEF k
<1>9. ASSUME NEW i \in DOMAIN out' PROVE \E t : IsRead(t) /\ Settled(out'[i], t)
  <2>1. CASE i \in 1 .. k
    BY <2>1, <1>8 DEF MessageInv
  <2>2. CASE i = k + 1
    BY <2>2, <1>4, <1>6, <1>8
  <2> QED
    BY <2>1, <2>2, <1>8
<1> QED
  BY <1>1, <1>2, <1>9, SameReads DEF MessageInv

LEMMA MessageNext == IInv /\ MessageInv /\ CleanInv /\ [Next]_vars => MessageInv' /\ CleanInv'
<1> SUFFICES ASSUME IInv, MessageInv, CleanInv, [Next]_vars PROVE MessageInv' /\ CleanInv'
  OBVIOUS
<1>1. CASE UNCHANGED vars
  <2>1. /\ buffer' = buffer /\ heard' = heard /\ pc' = pc /\ pass' = pass /\ out' = out /\ found' = found /\ tried' = tried
        /\ \A q : Readable(q)' = Readable(q)
    BY <1>1 DEF vars, Readable, CurrentThreshold, AdaptiveThreshold, B
  <2>2. \A q : Clean(q)' = Clean(q)
    BY <2>1 DEF Clean, Read
  <2>3. MessageInv'
    BY <2>1, SameReads DEF MessageInv
  <2>4. CleanInv'
    BY <2>1, <2>2 DEF CleanInv
  <2> QED
    BY <2>3, <2>4
<1>2. CASE SkipQuiet \/ Correlate
  BY <1>2, MessageScan
<1>3. CASE EndScan
  BY <1>3, MessageEndScan
<1>4. CASE Keep
  BY <1>4, MessageKeep
<1>5. CASE Drop \/ Publish \/ Finish
  <2>1. buffer' = buffer /\ found' = found /\ out' = out /\ pc' # "scan" /\ (pc' = "keep" => pc = "keep")
    BY <1>5 DEF Drop, Publish, Finish
  <2>2. MessageInv'
    BY <2>1, SameReads DEF MessageInv
  <2>3. CleanInv'
    BY <2>1 DEF CleanInv
  <2> QED
    BY <2>2, <2>3
<1>6. CASE NextPass
  <2>1. buffer' = buffer /\ found' = <<>> /\ out' = out /\ tried' = {} /\ pc' # "keep"
    BY <1>6 DEF NextPass
  <2>2. MessageInv'
    BY <2>1, SameReads DEF MessageInv
  <2>3. CleanInv'
    BY <2>1 DEF CleanInv
  <2> QED
    BY <2>2, <2>3
<1> QED
  BY <1>1, <1>2, <1>3, <1>4, <1>5, <1>6 DEF Next

THEOREM MessagesInvariant == Spec => [](MessageInv /\ CleanInv)
<1>1. Init => MessageInv /\ CleanInv
  BY MessageInit
<1>2. IInv /\ (MessageInv /\ CleanInv) /\ [Next]_vars => (MessageInv /\ CleanInv)'
  BY MessageNext
<1> QED
  BY <1>1, <1>2, Invariance, PTL DEF Spec

(* What a clean squitter scores is more than anything with errors can.     *)
THEOREM CleanWins == Spec => []CleanReadWins
<1>1. CleanInv => CleanReadWins
  <2> SUFFICES ASSUME CleanInv, NEW q \in tried \cap DOMAIN heard, pc = "scan",
                      NEW f \in Readable(q), Type(heard[q].reads[f]) \in Squitters,
                      Syndrome(heard[q].reads[f]) = {}
               PROVE  \E i \in DOMAIN found : found[i].at = q /\ Syndrome(found[i]) = {}
    BY DEF CleanReadWins
  <2>1. Clean(q)
    BY DEF Clean, Read
  <2> QED
    BY <2>1 DEF CleanInv
<1> QED
  BY <1>1, MessagesInvariant, PTL

-----------------------------------------------------------------------------
(* What leaves the passes is what was sent.                                *)
THEOREM RepairsRight == Spec => []RepairsAreRight
<1>1. IInv /\ MessageInv => RepairsAreRight
  <2> SUFFICES ASSUME IInv, MessageInv, NEW i \in DOMAIN out, B.multi,
                      Transmissions[out[i].of].overlay = {}, Cardinality(out[i].heard) <= 3
               PROVE  out[i].wrong = {}
    BY DEF RepairsAreRight
  <2>1. PICK r : IsRead(r) /\ Settled(out[i], r)
    BY DEF MessageInv
  <2>2. /\ out[i].of = r.of /\ out[i].heard = r.wrong /\ Errors(r) < 3
        /\ out[i].wrong = Fix(r.wrong, Repair(r))
    BY <2>1 DEF Settled
  <2>3. buffer \in Buffers
    BY DEF IInv, TypeInv
  <2>4. r.of \in DOMAIN Transmissions /\ r.wrong \subseteq 0 .. Bits(r) - 1
    BY <2>1, <2>3, ReadFacts
  <2>5. Fix(r.wrong, Repair(r)) = {}
    BY <2>2, <2>4, RepairsItself
  <2> QED
    BY <2>2, <2>5
<1> QED
  BY <1>1, Invariance, MessagesInvariant, PTL

-----------------------------------------------------------------------------
LEMMA FiniteBelow == \A k \in Nat : IsFiniteSet(0 .. k - 1)
BY FS_Interval

(* The address of a message that is accepted is its sender's.              *)
LEMMA AddressIsOwn ==
  ASSUME buffer \in Buffers, NEW r, IsRead(r), NEW m, Settled(m, r),
         Transmissions[r.of].overlay = {}, Transmissions[r.of].df \notin Replies,
         Cardinality(r.wrong) <= 2, Accepted(m)
  PROVE  Address(m) = Transmissions[r.of].address
<1> DEFINE df == Transmissions[r.of].df
           n == Bits(r)
<1>1. /\ r.of \in DOMAIN Transmissions /\ r.wrong \subseteq 0 .. n - 1
      /\ Length(Type(r)) \in {0, n}
  BY ReadFacts
<1>2. df \in {11, 17, 18} /\ n \in Nat /\ n = Length(df)
  BY <1>1, SentFacts DEF Bits, Replies, ShortTypes, LongTypes
<1>3. PICK a, p : m = [at |-> a, of |-> r.of, heard |-> r.wrong, pass |-> p,
                    wrong |-> IF B.multi THEN Fix(r.wrong, Repair(r)) ELSE r.wrong]
  BY DEF Settled
<1>4. m.wrong \in {r.wrong, {}}
  <2>1. ASSUME B.multi PROVE Fix(r.wrong, Repair(r)) = {}
    <3>1. Errors(r) < 3
      BY <2>1 DEF Settled
    <3>2. IsFiniteSet(r.wrong) /\ Cardinality(r.wrong) <= 3
      <4>1. IsFiniteSet(0 .. n - 1)
        BY <1>2, FiniteBelow
      <4>2. IsFiniteSet(r.wrong)
        BY <1>1, <4>1, FS_Subset
      <4> QED
        BY <4>2, FS_CardinalityType
    <3> QED
      BY <1>1, <3>1, <3>2, RepairsItself
  <2> QED
    BY <1>3, <2>1
<1>5. m.of = r.of /\ Bits(m) = n /\ m.wrong \subseteq 0 .. n - 1
  BY <1>1, <1>3, <1>4 DEF Bits
<1>6. IsFiniteSet(m.wrong) /\ Cardinality(m.wrong) <= 2 /\ Cardinality(m.wrong) \in Nat
  <2>1. IsFiniteSet(0 .. n - 1)
    BY <1>2, FiniteBelow
  <2>2. IsFiniteSet(m.wrong)
    BY <1>5, <2>1, FS_Subset
  <2>3. CASE m.wrong = r.wrong
    BY <2>2, <2>3, FS_CardinalityType
  <2>4. CASE m.wrong = {}
    <3>1. Cardinality(m.wrong) = 0
      BY <2>4, FS_EmptySet, Zenon
    <3> QED
      BY <2>2, <3>1
  <2> QED
    BY <1>4, <2>3, <2>4
<1>7. TypeOf[TypeBits(df)] = df
  BY <1>2, TypeIsRead
<1>8. Length(Type(m)) \in {0, n}
  <2>1. CASE m.wrong = r.wrong
    BY <1>1, <1>5, <2>1, SameReading
  <2>2. CASE m.wrong = {}
    <3>1. SymDiff(TypeBits(df), {} \cap (0 .. 4)) = TypeBits(df)
      BY DEF SymDiff
    <3>2. Type(m) = df
      BY <1>5, <1>7, <2>2, <3>1 DEF Type
    <3> QED
      BY <1>2, <3>2
  <2> QED
    BY <1>4, <2>1, <2>2
<1>9. Type(m) \notin {0, 4, 5}
  <2> SUFFICES ASSUME Type(m) \in {0, 4, 5} PROVE FALSE
    OBVIOUS
  <2>1. n = 56 /\ df = 11
    BY <1>2, <1>8 DEF Length, ShortTypes, LongTypes
  <2>2. Type(m) = TypeOf[SymDiff(TypeBits(11), m.wrong \cap (0 .. 4))]
    BY <1>5, <2>1 DEF Type
  <2> QED
    BY <1>6, <2>2, AllCallStaysChecked
<1>10. Errors(m) < 3
  BY <1>9 DEF Accepted
<1>11. Fix(m.wrong, Repair(m)) = {} /\ m.wrong \subseteq Repairable(n)
  <2>1. Cardinality(m.wrong) <= 3
    BY <1>6
  <2>2. m.of \in DOMAIN Transmissions /\ Transmissions[m.of].overlay = {} /\ m.wrong \subseteq 0 .. Bits(m) - 1
    BY <1>1, <1>5
  <2>3. Fix(m.wrong, Repair(m)) = {} /\ m.wrong \subseteq Repairable(Bits(m))
    BY <1>10, <2>1, <2>2, RepairsItself
  <2> QED
    BY <1>5, <2>3
<1>12. Type(m) = df
  <2>1. m.wrong \cap (0 .. 4) = {}
    BY <1>2, <1>11 DEF Repairable
  <2>2. SymDiff(TypeBits(df), m.wrong \cap (0 .. 4)) = TypeBits(df)
    BY <2>1 DEF SymDiff
  <2> QED
    BY <1>5, <1>7, <2>2 DEF Type
<1>13. Address(m) = AddressField(Repaired(m))
  BY <1>2, <1>12 DEF Address
<1>14. Repaired(m).of = r.of /\ Repaired(m).wrong = {}
  BY <1>2, <1>3, <1>9, <1>11 DEF Repaired
<1>15. SymDiff(Transmissions[r.of].address, {} \cap (8 .. 31)) = Transmissions[r.of].address
  BY DEF SymDiff
<1> QED
  BY <1>13, <1>14, <1>15 DEF AddressField

(* Senders of squitters and all-call replies are the only ones known.      *)
THEOREM SendersKnown == Spec => []OnlySendersAreKnown
<1> DEFINE reads == UNION {{c.reads[f] : f \in DOMAIN c.reads} : c \in UNION {B.shapes[q] : q \in DOMAIN B.shapes}}
           Plain == \A m \in reads : /\ Transmissions[m.of].overlay = {}
                                     /\ Transmissions[m.of].df \notin Replies
                                     /\ Cardinality(m.wrong) <= 2
           Own == B.known \cup {Transmissions[m.of].address : m \in reads}
<1>1. OnlySendersAreKnown <=> (Plain => tracked \cup known \subseteq Own)
  BY DEF OnlySendersAreKnown
<1>2. Init => OnlySendersAreKnown
  BY <1>1 DEF Init
<1>3. ASSUME IInv, MessageInv, OnlySendersAreKnown, [Next]_vars PROVE OnlySendersAreKnown'
  <2>1. buffer' = buffer
    BY <1>3 DEF Next, vars, SkipQuiet, Correlate, EndScan, Keep, Drop, NextPass, Publish, Finish
  <2>2. OnlySendersAreKnown' <=> (Plain => tracked' \cup known' \subseteq Own)
    BY <2>1 DEF OnlySendersAreKnown, B
  <2>3. CASE Publish /\ Accepted(out[next])
    <3>1. /\ next \in DOMAIN out /\ buffer \in Buffers
          /\ tracked' \cup known' \subseteq tracked \cup known \cup {Address(out[next])}
      BY <1>3, <2>3 DEF Publish, IInv, TypeInv, icao_filter_add
    <3>2. PICK r : IsRead(r) /\ Settled(out[next], r)
      BY <1>3, <3>1 DEF MessageInv
    <3>3. r \in reads
      BY <3>2 DEF IsRead
    <3>4. Plain => Address(out[next]) = Transmissions[r.of].address
      <4> HIDE DEF reads
      <4> QED
        BY <2>3, <3>1, <3>2, <3>3, AddressIsOwn
    <3>5. Plain => Address(out[next]) \in Own
      BY <3>3, <3>4
    <3> HIDE DEF Plain, Own
    <3> QED
      BY <1>1, <1>3, <2>2, <3>1, <3>5
  <2>4. CASE ~(Publish /\ Accepted(out[next]))
    <3>1. tracked' = tracked /\ known' = known
      BY <1>3, <2>4 DEF Next, vars, SkipQuiet, Correlate, EndScan, Keep, Drop, NextPass, Publish, Finish
    <3> HIDE DEF Plain, Own
    <3> QED
      BY <1>1, <1>3, <2>2, <3>1
  <2> QED
    BY <2>3, <2>4
<1>4. IInv /\ MessageInv /\ OnlySendersAreKnown /\ [Next]_vars => OnlySendersAreKnown'
  BY <1>3
<1> QED
  BY <1>2, <1>4, Invariance, MessagesInvariant, PTL DEF Spec

=============================================================================

----------------------------- MODULE BeastCodec -----------------------------
(***************************************************************************)
(* Beast frames as byte sequences (net/protocols/beast.rs): escaping,      *)
(* encoding, parsing, and the two loops that look for frames in a buffer.  *)
(* A frame is ESC, a type byte, a header of time stamp and RSSI, and a     *)
(* payload in which ESC is doubled; the header is neither escaped nor      *)
(* destuffed.  HeaderLen counts ESC and type; it is 9 in the code.         *)
(***************************************************************************)
EXTENDS Integers, Sequences, SequencesExt

CONSTANTS
  ESC,           (* 0x1a                                                    *)
  PayloadLen,    (* payload bytes by type byte: 0x31, 0x32, 0x33            *)
  HeaderLen,
  NoFrame

Byte == 0 .. 255

BeastFrame == [type : DOMAIN PayloadLen, payload : Seq(Byte)]

ASSUME CodecAssumption ==
  /\ HeaderLen \in Nat /\ HeaderLen > 2
  /\ PayloadLen \in [DOMAIN PayloadLen -> Nat \ {0}]
  /\ ESC \in Byte /\ DOMAIN PayloadLen \subseteq Byte
  /\ ESC \notin DOMAIN PayloadLen
  /\ NoFrame \notin BeastFrame

From(s, i) == SubSeq(s, i, Len(s))

Stuff(b) == IF b = ESC THEN <<ESC, ESC>> ELSE <<b>>

Escape(s) == FlattenSeq([i \in DOMAIN s |-> Stuff(s[i])])

Doubled(s, i) == s[i] = ESC /\ i < Len(s) /\ s[i + 1] = ESC

(* Two ESC in a row become one; a single one stays.                        *)
Destuff(s) ==
  LET rest[i \in 1 .. Len(s) + 1] ==
        IF i > Len(s) THEN <<>>
        ELSE <<s[i]>> \o rest[IF Doubled(s, i) THEN i + 2 ELSE i + 1]
  IN  rest[1]

Encode(type, header, payload) == <<ESC, type>> \o header \o Escape(payload)

MaxStuffed_Plain(type) == PayloadLen[type]      \* mutant: no room for doubled bytes

MaxStuffed(type) == 2 * PayloadLen[type]

(* parse_beast_frame: the frame at the start of d, whatever follows it.    *)
(* Too few bytes for the payload make a frame with a shorter payload.      *)
Parse(d) ==
  IF \/ Len(d) <= HeaderLen
     \/ d[1] # ESC
     \/ d[2] \notin DOMAIN PayloadLen
  THEN NoFrame
  ELSE LET raw == SubSeq(d, HeaderLen + 1, Min({Len(d), HeaderLen + MaxStuffed(d[2])}))
           payload == Destuff(raw)
       IN  [type |-> d[2],
            payload |-> SubSeq(payload, 1, Min({Len(payload), PayloadLen[d[2]]}))]

-----------------------------------------------------------------------------
Advance_Unstuffed(payload) == HeaderLen + Len(payload) \div 2    \* mutant

(* How far read_loop of a network client goes on after a frame: the        *)
(* longest the frame can have been, not the length it had.                 *)
Advance(payload) == HeaderLen + 2 * Len(payload)

(* The frames read_loop finds in the n bytes it read.  Parsing looks at    *)
(* the whole buffer, in which older bytes follow the n new ones.           *)
ClientFrames(buf, n) ==
  LET from[i \in Nat \ {0}] ==
        IF i > n THEN <<>>
        ELSE LET f == Parse(From(buf, i))
             IN  IF f = NoFrame THEN from[i + 1]
                 ELSE <<f>> \o from[i + Advance(f.payload)]
  IN  from[1]

-----------------------------------------------------------------------------
NextEsc_Longest(buf, i, n) ==       \* mutant: behind the longest the frame can be
  Min({n + 1, i - 1 + HeaderLen + MaxStuffed(buf[i])})

(* Where the scan goes on after a frame whose type is at i.                *)
NextEsc(buf, i, n) == Min({j \in i .. n : buf[j] = ESC} \cup {n + 1})

Used_Start(i, j) == i - 1           \* mutant: the frame itself stays in the buffer

(* What counts as used up by a frame at i when the next ESC is at j.       *)
Used(i, j) == j - 1

(* The frames read_beast_frames finds in the first n bytes of the buffer,  *)
(* and what is used up when it stops after each.                           *)
Found(buf, n) ==
  LET from[i \in Nat \ {0}] ==
        IF i > n THEN <<>>
        ELSE LET f == Parse(From(buf, i))
                 j == NextEsc(buf, i + 1, n)
             IN  IF f = NoFrame THEN from[i + 1]
                 ELSE <<[frame |-> f, used |-> Used(i, j)]>> \o from[j]
  IN  from[1]

(* Its inner loop: it stops at max frames.                                 *)
ScanFrames(buf, n, max) ==
  LET found == Found(buf, n)
      count == Min({max, Len(found)})
  IN  [frames |-> [m \in 1 .. count |-> found[m].frame],
       used   |-> IF count = 0 THEN 0 ELSE found[count].used]

=============================================================================

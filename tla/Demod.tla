------------------------------- MODULE Demod -------------------------------
(***************************************************************************)
(* One buffer of magnitudes on its way to messages: the search for         *)
(* preambles, the choice among the five phases a message may be read in    *)
(* (demod/demod_2400.rs), the repair of bit errors, the subtraction of     *)
(* what was found and the further passes over the rest, and what the main  *)
(* loop does with the messages (modes/parser.rs, demod/icao_filter.rs,     *)
(* main.rs).                                                               *)
(*                                                                         *)
(* Samples are abstracted to candidates: the positions whose samples pass  *)
(* the quick check, how strong the three correlations are there, and what  *)
(* the bits look like in each phase.  What a subtraction makes of them is  *)
(* left open: it may end candidates, change them and bring up new ones.    *)
(* A message is represented by the transmission it comes from and the bits *)
(* in which it differs from it.                                            *)
(***************************************************************************)
EXTENDS Crc, Sequences

CONSTANTS
  Transmissions,   (* what aircraft send, by name                           *)
  Buffers,         (* the buffers to demodulate, by name                    *)
  BufferOf(_)      (* what is in them                                       *)

(* Each position has the shapes its samples may have; those of "first" are *)
(* the candidates before any subtraction.                                  *)
ASSUME BufferAssumption ==
  \A b \in Buffers :
    /\ BufferOf(b).length \in Nat \ {0}
    /\ DOMAIN BufferOf(b).shapes \subseteq Nat
    /\ DOMAIN BufferOf(b).first \subseteq DOMAIN BufferOf(b).shapes
    /\ \A q \in DOMAIN BufferOf(b).first : BufferOf(b).first[q] \in BufferOf(b).shapes[q]
    /\ BufferOf(b).multi \in BOOLEAN

VARIABLES
  buffer,     (* the name of the buffer at hand                             *)
  heard,      (* the candidates in it, by position                          *)
  pc,         (* where the main loop is                                     *)
  pass,
  pa,         (* the position reached                                       *)
  tried,      (* history: candidates correlated in this pass                *)
  found,      (* what demodulate2400 returns                                *)
  next,       (* the message of found or out that is next                   *)
  out,        (* DemodResult.messages                                       *)
  known,      (* ICAO_FILTER                                                *)
  tracked     (* history: addresses given to the tracker                    *)

vars == <<buffer, heard, pc, pass, pa, tried, found, next, out, known, tracked>>

PreCheck    == 10                   \* positions of one quick check
LongSamples == 269                  \* MODES_LONG_MSG_SAMPLES
Phases      == 4 .. 8
Passes      == 4
Threshold   == 58                   \* preamble_threshold

ShortTypes == {0, 4, 5, 11}
LongTypes  == {16, 17, 18, 20, 21}
Replies    == {0, 4, 5, 16, 20, 21} \* parity overlaid with the address
Squitters  == {17, 18}

B == BufferOf(buffer)

Least(a, b)    == IF a < b THEN a ELSE b
Greatest(a, b) == IF a < b THEN b ELSE a

(* Positions that are tried: a message must end before the buffer does.    *)
Stop == Greatest(B.length - (LongSamples + 16), 0)

-----------------------------------------------------------------------------
(* A message as it was read.                                               *)

Weight == <<16, 8, 4, 2, 1>>

TypeBits(df) == {b \in 0 .. 4 : (df \div Weight[b + 1]) % 2 = 1}

TypeOf == [bits \in SUBSET (0 .. 4) |-> CHOOSE df \in 0 .. 31 : TypeBits(df) = bits]

Type(m) == TypeOf[SymDiff(TypeBits(Transmissions[m.of].df), m.wrong \cap (0 .. 4))]

Length(df) == CASE df \in LongTypes  -> 112
                [] df \in ShortTypes -> 56
                [] OTHER             -> 0

Bits(m) == Length(Transmissions[m.of].df)

(* Only types with a length are sent.                                      *)
ASSUME TransmissionAssumption ==
  \A t \in DOMAIN Transmissions : Transmissions[t].df \in ShortTypes \cup LongTypes

(* Each phase reads some transmission with some bits wrong.  What is read  *)
(* has the length of what was sent, or a type that no phase is scored for: *)
(* wrong type bits that turn a long message into a short one, or the other *)
(* way round, make another message of the samples and are not represented. *)
ASSUME ReadsAssumption ==
  \A b \in Buffers : \A q \in DOMAIN BufferOf(b).shapes : \A c \in BufferOf(b).shapes[q] :
    \A f \in DOMAIN c.reads :
      /\ f \in Phases
      /\ c.reads[f].of \in DOMAIN Transmissions
      /\ c.reads[f].wrong \subseteq 0 .. Bits(c.reads[f]) - 1
      /\ Length(Type(c.reads[f])) \in {0, Bits(c.reads[f])}

(* The three bytes after the first, and the CA bits of the first.          *)
AddressField(m) == SymDiff(Transmissions[m.of].address, m.wrong \cap (8 .. 31))
Capability(m)   == SymDiff(Transmissions[m.of].ca, m.wrong \cap (5 .. 7))

(* What is sent has no syndrome but what is overlaid on its parity.        *)
Syndrome(m) == Checksum(Bits(m), SymDiff(m.wrong, Transmissions[m.of].overlay))

Repair(m) == Diagnose(Bits(m), Syndrome(m))

(* How many bits a repair would change; 3 when there is none.              *)
ErrorCount(syndrome, repair) ==
  IF syndrome # {} /\ repair = {} THEN 3 ELSE Cardinality(repair)

Errors(m) == ErrorCount(Syndrome(m), Repair(m))

(* The rows of score_modes_message: no error, one, two, more; first for a  *)
(* known address, then for a new one.                                      *)
Points(m) ==
  CASE Type(m) \in Replies                   -> <<<<1000, 700, 100, 100>>, <<700, 500, 100, 100>>>>
    [] Type(m) = 11 /\ Capability(m) = {}    -> <<<<1600, 800, 100, 100>>, <<750, 400, 100, 100>>>>
    [] Type(m) = 11 /\ Capability(m) # {}    -> <<<<700, 800, 100, 100>>, <<500, 400, 100, 100>>>>
    [] Type(m) \in Squitters                 -> <<<<1800, 900, 450, 100>>, <<1400, 700, 350, 100>>>>

icao_filter_test(address) == address \in known

icao_filter_add(address) == known' = known \cup {address}

Score(m) == Points(m)[IF icao_filter_test(AddressField(m)) THEN 1 ELSE 2][Errors(m) + 1]

-----------------------------------------------------------------------------
(* Noise floor and thresholds.  The margin is the default 0.8.             *)

AdaptiveThreshold(p) ==
  Greatest((Threshold * 4 ^ p) \div 5 ^ p, (B.floor * 3) \div 2)

CurrentThreshold == IF pass = 0 THEN Threshold ELSE AdaptiveThreshold(pass)

-----------------------------------------------------------------------------
(* The scan of the buffer.                                                 *)

(* The samples slice_byte reads for a message of n bits: bytes are 19 or   *)
(* 20 samples apart.                                                       *)
Needed(phase, n) ==
  19 + phase \div 5 + 19 * (n \div 8 - 1)
     + Cardinality({i \in 0 .. n \div 8 - 2 : (phase + i) % 5 = 4}) + 20

(* Phases 4 and 5, 6 and 7, and 8 share a correlation.                     *)
Group(phase) == (phase - 2) \div 2

(* The phases that give a message at a candidate.                          *)
Readable(q) ==
  {f \in DOMAIN heard[q].reads :
     /\ heard[q].level[Group(f)] >= CurrentThreshold
     /\ Length(Type(heard[q].reads[f])) # 0
     /\ q + Needed(f, Length(Type(heard[q].reads[f]))) <= B.length}

(* The first phase among those with the highest score.                     *)
Winner(scored) ==
  CHOOSE s \in scored : \A t \in scored : s[1] > t[1] \/ (s[1] = t[1] /\ s[2] <= t[2])

(* What demodulate2400 returns for a candidate.                            *)
Finding(q, f) ==
  [at |-> q, of |-> heard[q].reads[f].of, wrong |-> heard[q].reads[f].wrong]

Best_Last(q) == Finding(q, Max(Readable(q)))      \* mutant: the last phase

Best(q) == Finding(q, Winner({<<Score(heard[q].reads[f]), f>> : f \in Readable(q)})[2])

(* The candidates within one quick check.                                  *)
Ahead == {q \in DOMAIN heard : pa <= q /\ q < Least(pa + PreCheck, Stop)}

SkipQuiet_Two ==                    \* mutant: two positions are left out
  /\ pc = "scan" /\ pa < Stop /\ Ahead = {}
  /\ pa' = Least(pa + PreCheck, Stop) + 2
  /\ UNCHANGED <<buffer, heard, pc, pass, tried, found, next, out, known, tracked>>

(* No position of a quick check passes: the scan goes on one further, and  *)
(* the position in between is not checked.                                 *)
SkipQuiet ==
  /\ pc = "scan" /\ pa < Stop /\ Ahead = {}
  /\ pa' = Least(pa + PreCheck, Stop) + 1
  /\ UNCHANGED <<buffer, heard, pc, pass, tried, found, next, out, known, tracked>>

Correlate_NextPosition ==           \* mutant: goes on at the next position
  /\ pc = "scan" /\ pa < Stop
  /\ \E q \in Ahead :
       /\ \A r \in Ahead : q <= r
       /\ tried' = tried \cup {q}
       /\ IF Readable(q) = {}
          THEN pa' = q + 1 /\ UNCHANGED found
          ELSE pa' = q + 1 /\ found' = Append(found, Best(q))
  /\ UNCHANGED <<buffer, heard, pc, pass, next, out, known, tracked>>

Correlate_Stay ==                   \* mutant: no way past an unreadable one
  /\ pc = "scan" /\ pa < Stop
  /\ \E q \in Ahead :
       /\ \A r \in Ahead : q <= r
       /\ tried' = tried \cup {q}
       /\ IF Readable(q) = {}
          THEN pa' = q /\ UNCHANGED found
          ELSE pa' = q + LongSamples /\ found' = Append(found, Best(q))
  /\ UNCHANGED <<buffer, heard, pc, pass, next, out, known, tracked>>

(* The first position that passes is correlated; a message of any kind     *)
(* moves the scan on by the length of a long one.                          *)
Correlate ==
  /\ pc = "scan" /\ pa < Stop
  /\ \E q \in Ahead :
       /\ \A r \in Ahead : q <= r
       /\ tried' = tried \cup {q}
       /\ IF Readable(q) = {}
          THEN pa' = q + 1 /\ UNCHANGED found
          ELSE pa' = q + LongSamples /\ found' = Append(found, Best(q))
  /\ UNCHANGED <<buffer, heard, pc, pass, next, out, known, tracked>>

(* A message of the result, with the bits that were wrong before repair.   *)
Kept(m, wrong) == [at |-> m.at, of |-> m.of, wrong |-> wrong, heard |-> m.wrong, pass |-> pass]

(* The end of the buffer: with a single pass all that was found is the     *)
(* result, with several it is looked at again.                             *)
EndScan ==
  /\ pc = "scan" /\ pa >= Stop
  /\ next' = 1
  /\ IF B.multi
     THEN pc' = "keep" /\ UNCHANGED out
     ELSE /\ pc' = "publish"
          /\ out' = [i \in DOMAIN found |-> Kept(found[i], found[i].wrong)]
  /\ UNCHANGED <<buffer, heard, pass, pa, tried, found, known, tracked>>

-----------------------------------------------------------------------------
(* The passes.                                                             *)

(* The positions for which a subtraction changes a sample that the quick   *)
(* check, the correlations or the longest message read.                    *)
Touched(at, n) ==
  {q \in DOMAIN B.shapes : /\ q < at + LongSamples + (n \div 8 - 7)
                           /\ at < q + Needed(8, 112)}

(* What is in the buffer afterwards: there, any shape or none.             *)
Subtract(touched) ==
  \E left \in SUBSET touched :
    \E shape \in [left -> UNION {B.shapes[q] : q \in left}] :
      /\ \A q \in left : shape[q] \in B.shapes[q]
      /\ heard' = [q \in (DOMAIN heard \ touched) \cup left |->
                     IF q \in left THEN shape[q] ELSE heard[q]]

Keep_Unrepaired ==                  \* mutant: repairs a copy
  /\ pc = "keep" /\ next <= Len(found)
  /\ LET m == found[next]
     IN  /\ Errors(m) < 3
         /\ out' = Append(out, Kept(m, m.wrong))
         /\ Subtract(Touched(m.at, Bits(m)))
  /\ next' = next + 1
  /\ UNCHANGED <<buffer, pc, pass, pa, tried, found, known, tracked>>

(* A message without errors, or with errors that can be repaired, is kept  *)
(* and subtracted.                                                         *)
Keep ==
  /\ pc = "keep" /\ next <= Len(found)
  /\ LET m == found[next]
     IN  /\ Errors(m) < 3
         /\ out' = Append(out, Kept(m, Fix(m.wrong, Repair(m))))
         /\ Subtract(Touched(m.at, Bits(m)))
  /\ next' = next + 1
  /\ UNCHANGED <<buffer, pc, pass, pa, tried, found, known, tracked>>

(* Everything else is dropped.                                             *)
Drop ==
  /\ pc = "keep" /\ next <= Len(found)
  /\ Errors(found[next]) = 3
  /\ next' = next + 1
  /\ UNCHANGED <<buffer, heard, pc, pass, pa, tried, found, out, known, tracked>>

NextPass_KeepsFound ==              \* mutant: looks at the same messages again
  /\ pc = "keep" /\ next > Len(found)
  /\ IF pass + 1 < Passes
     THEN pc' = "scan" /\ pass' = pass + 1
     ELSE pc' = "publish" /\ UNCHANGED pass
  /\ pa' = 0
  /\ tried' = {}
  /\ next' = 1
  /\ UNCHANGED <<buffer, heard, found, out, known, tracked>>

NextPass ==
  /\ pc = "keep" /\ next > Len(found)
  /\ IF pass + 1 < Passes
     THEN pc' = "scan" /\ pass' = pass + 1
     ELSE pc' = "publish" /\ UNCHANGED pass
  /\ pa' = 0
  /\ tried' = {}
  /\ found' = <<>>
  /\ next' = 1
  /\ UNCHANGED <<buffer, heard, out, known, tracked>>

-----------------------------------------------------------------------------
(* parse_modes_message, as far as checksum and address go.                 *)

Accepted(m) == Type(m) \in {0, 4, 5} \/ Errors(m) < 3

Repaired(m) ==
  IF Type(m) \in {0, 4, 5} THEN m ELSE [m EXCEPT !.wrong = Fix(@, Repair(m))]

(* For types 4 and 16 four other bytes of the message are taken.           *)
Address(m) ==
  CASE Type(m) \in {11, 17, 18} -> AddressField(Repaired(m))
    [] Type(m) \in {0, 5}       -> Syndrome(m)
    [] Type(m) \in {4, 16}      -> SymDiff(Transmissions[m.of].later, Repaired(m).wrong \cap (36 .. 59))
    [] OTHER                    -> {}

Publish_Unchecked ==                \* mutant: also what failed the checksum
  /\ pc = "publish" /\ next <= Len(out)
  /\ tracked' = tracked \cup {Address(out[next])}
  /\ icao_filter_add(Address(out[next]))
  /\ next' = next + 1
  /\ UNCHANGED <<buffer, heard, pc, pass, pa, tried, found, out>>

Publish ==
  /\ pc = "publish" /\ next <= Len(out)
  /\ IF Accepted(out[next])
     THEN /\ tracked' = tracked \cup {Address(out[next])}
          /\ IF Address(out[next]) # {}
             THEN icao_filter_add(Address(out[next]))
             ELSE UNCHANGED known
     ELSE UNCHANGED <<tracked, known>>
  /\ next' = next + 1
  /\ UNCHANGED <<buffer, heard, pc, pass, pa, tried, found, out>>

Finish ==
  /\ pc = "publish" /\ next > Len(out)
  /\ pc' = "done"
  /\ UNCHANGED <<buffer, heard, pass, pa, tried, found, next, out, known, tracked>>

-----------------------------------------------------------------------------
Init ==
  /\ buffer \in Buffers
  /\ heard = B.first
  /\ pc = "scan"
  /\ pass = 0
  /\ pa = 0
  /\ tried = {}
  /\ found = <<>>
  /\ next = 1
  /\ out = <<>>
  /\ known = B.known
  /\ tracked = {}

Next ==
  \/ SkipQuiet \/ Correlate \/ EndScan
  \/ Keep \/ Drop \/ NextPass
  \/ Publish \/ Finish

Spec == Init /\ [][Next]_vars

-----------------------------------------------------------------------------
Messages == [of : DOMAIN Transmissions, wrong : SUBSET (0 .. 111)]

TypeOK ==
  /\ DOMAIN heard \subseteq DOMAIN B.shapes
  /\ \A q \in DOMAIN heard : heard[q] \in B.shapes[q]
  /\ pc \in {"scan", "keep", "publish", "done"}
  /\ pass \in 0 .. Passes - 1
  /\ pa \in 0 .. Stop + LongSamples
  /\ tried \subseteq DOMAIN B.shapes
  /\ \A i \in DOMAIN found : found[i].at \in tried
  /\ next \in 1 .. Len(found) + Len(out) + 1
  /\ \A i \in DOMAIN out : out[i].at \in DOMAIN B.shapes

(* A message whose transmission has its plain parity and that was received *)
(* with at most three wrong bits leaves the passes exactly as it was sent: *)
(* one or two errors outside the type field are repaired, the rest is      *)
(* dropped, and no repair makes another valid message of it.               *)
RepairsAreRight ==
  \A i \in DOMAIN out :
    /\ B.multi
    /\ Transmissions[out[i].of].overlay = {}
    /\ Cardinality(out[i].heard) <= 3
    => out[i].wrong = {}

(* A position that passes the quick check is left out only together with   *)
(* neighbours that are not: of two in a row one is correlated, or both lie *)
(* under a message found before them.                                      *)
GapsAreSingle ==
  \A q \in DOMAIN heard :
    pc = "scan" /\ q + 1 \in DOMAIN heard /\ q + 1 < Least(pa, Stop)
    => \/ {q, q + 1} \cap tried # {}
       \/ \E i \in DOMAIN found : found[i].at < q /\ q < found[i].at + LongSamples

(* Whatever the other phases read, a squitter that one phase reads without *)
(* an error is what a candidate is taken for.                              *)
CleanReadWins ==
  \A q \in tried \cap DOMAIN heard :
    pc = "scan" /\ (\E f \in Readable(q) : Type(heard[q].reads[f]) \in Squitters /\ Syndrome(heard[q].reads[f]) = {})
    => \E i \in DOMAIN found : found[i].at = q /\ Syndrome(found[i]) = {}

(* The preamble of one transmission passes at several neighbouring         *)
(* positions, and yet a pass finds it once.                                *)
OncePerPass ==
  \A i, j \in DOMAIN out :
    i < j /\ out[i].pass = out[j].pass => out[i].at + LongSamples <= out[j].at

(* Who sends squitters and all-call replies only, with at most two wrong   *)
(* bits each, brings no address but its own to the tracker and the filter, *)
(* with one pass as with several.  (Wrong type bits that change the length *)
(* of a message are out of it, see ReadsAssumption.)                       *)
OnlySendersAreKnown ==
  LET reads == UNION {{c.reads[f] : f \in DOMAIN c.reads} : c \in UNION {B.shapes[q] : q \in DOMAIN B.shapes}}
  IN  (\A m \in reads : Transmissions[m.of].overlay = {} /\ Transmissions[m.of].df \notin Replies /\ Cardinality(m.wrong) <= 2)
      => tracked \cup known \subseteq B.known \cup {Transmissions[m.of].address : m \in reads}

(* Every step brings the end of the buffer nearer, whatever is in it: the  *)
(* scan never stays where it is and the passes do not go on for ever.      *)
Left ==
  CASE pc = "scan"    -> 4 * B.length * (Passes - pass) + 2 * B.length - pa
    [] pc = "keep"    -> 4 * B.length * (Passes - pass) + Len(found) + 1 - next
    [] pc = "publish" -> Len(out) + 2 - next
    [] pc = "done"    -> 0

BufferProgresses == [][Left' < Left /\ Left' >= 0]_vars

=============================================================================

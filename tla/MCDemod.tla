------------------------------ MODULE MCDemod ------------------------------
(***************************************************************************)
(* Instances of Demod for TLC.  A buffer is named by what is varied in it: *)
(*   "one"     one message with any one or two wrong bits, some with three *)
(*             of them, over several passes or, with wrong type bits, one, *)
(*   "phases"  one candidate, each phase with a reading of its own,        *)
(*   "scan"    candidates next to each other, at the ends of quick checks  *)
(*             and of messages, by type and strength,                      *)
(*   "remains" candidates that change under a subtraction.                 *)
(***************************************************************************)
EXTENDS Demod, TLC

(* Messages with addresses {8, 11, 30} and {9, 13}; the reply carries its  *)
(* own in the parity.                                                      *)
MCTransmissions ==
  [squitter |-> [df |-> 17, ca |-> {5, 7}, address |-> {8, 11, 30}, overlay |-> {},           later |-> {36}],
   other    |-> [df |-> 18, ca |-> {},     address |-> {9, 13},     overlay |-> {},           later |-> {}],
   allcall  |-> [df |-> 11, ca |-> {},     address |-> {9, 13},     overlay |-> {},           later |-> {37}],
   reply    |-> [df |-> 4,  ca |-> {6},    address |-> {20, 31},    overlay |-> {32, 35, 54}, later |-> {36, 39}]]

Heard(t, bits) == [of |-> t, wrong |-> bits]

Even(n) == [g \in 1 .. 3 |-> n]

Candidate(t, bits, strength) == [level |-> strength, reads |-> [f \in {5} |-> Heard(t, bits)]]

Samples(n) == LongSamples + 16 + n

SameLength(t, bits) ==
  Length(Type(Heard(t, bits))) \in {0, Length(MCTransmissions[t].df)}

WrongBits(t) ==
  LET n == Length(MCTransmissions[t].df)
  IN  {{b, c} : b, c \in 0 .. n - 1} \cup {{17, b, c} : b, c \in n - 40 .. n - 1}

OneWrong ==
  UNION {{<<"one", t, bits, TRUE>> : bits \in {w \in WrongBits(t) : SameLength(t, w)}} : t \in {"squitter", "allcall"}}
    \cup {<<"one", "squitter", {b, c}, FALSE>> : b \in {2, 4}, c \in 5 .. 111}

Readings == [good |-> {}, bad |-> {40}, alias |-> {33, 50, 71, 80, 90}]

PhaseCases ==
  {<<"phases", r, strength, {}>> : r \in [Phases -> DOMAIN Readings],
                                   strength \in {<<58, 58, 58>>, <<40, 58, 20>>, <<58, 20, 99>>}}
    \cup {<<"phases", r, <<58, 58, 58>>, {{8, 11, 30}}>> : r \in [Phases -> DOMAIN Readings]}

Kinds == {<<"squitter", 58>>, <<"reply", 58>>, <<"other", 40>>}

Positions ==
  {s \in SUBSET {0, 1, 10, 11, 21, 269, 270} : Cardinality(s) \in 1 .. 2}
    \cup {{0, 1, 270}, {0, 10, 11}, {10, 11, 21}}

ScanCases == UNION {{<<"scan", k, noise>> : k \in [s -> Kinds], noise \in {20, 255}} : s \in Positions}

(* What a subtraction may make of the samples: the message found again     *)
(* with wrong bits, another one below it, and candidates where none was.   *)
Remains == {{<<"squitter", {40, 41}>>}, {<<"other", {50}>>}, {<<"other", {50}>>, <<"allcall", {}>>}}

(* Where the message found first is, and where else its end or its         *)
(* beginning may bring up a candidate.                                     *)
Places == {<<0, 0>>, <<0, 275>>, <<289, 0>>, <<3, 4>>}

RemainCases == {<<"remains", places, remains>> : places \in Places, remains \in Remains}

Unchanged(candidates) ==
  [shapes |-> [q \in DOMAIN candidates |-> {candidates[q]}], first |-> candidates]

MCBufferOf(c) ==
  CASE c[1] = "one"    -> [length |-> Samples(5), known |-> {}, floor |-> 255, multi |-> c[4]]
                            @@ Unchanged([q \in {0} |-> Candidate(c[2], c[3], Even(58))])
    [] c[1] = "phases" -> [length |-> Samples(5), known |-> c[4], floor |-> 20, multi |-> TRUE]
                            @@ Unchanged([q \in {0} |-> [level |-> c[3], reads |-> [f \in Phases |-> Heard("squitter", Readings[c[2][f]])]]])
    [] c[1] = "scan"   -> [length |-> Samples(IF \E q \in DOMAIN c[2] : q > 11 THEN 275 ELSE 14),
                           known |-> {}, floor |-> c[3], multi |-> c[3] = 20]
                            @@ Unchanged([q \in DOMAIN c[2] |-> Candidate(c[2][q][1], {}, Even(c[2][q][2]))])
    [] c[1] = "remains" ->
         LET place  == c[2][1]
             first  == Candidate("squitter", {5}, Even(58))
             others == {Candidate(r[1], r[2], Even(50)) : r \in c[3]}
         IN  [length |-> Samples(295), known |-> {}, floor |-> 20, multi |-> TRUE,
              first  |-> [q \in {place} |-> first],
              shapes |-> [q \in {c[2][1], c[2][2]} |-> IF q = place THEN others \cup {first} ELSE others]]

MCBuffers == OneWrong \cup PhaseCases \cup ScanCases \cup RemainCases

=============================================================================

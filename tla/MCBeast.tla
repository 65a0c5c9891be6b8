------------------------------- MODULE MCBeast ------------------------------
(***************************************************************************)
(* Instances of BeastClients for TLC: one byte of time stamp and one of    *)
(* RSSI, payloads of one or two bytes over ESC, a type byte and a byte     *)
(* that is neither.                                                        *)
(***************************************************************************)
EXTENDS BeastClients

MCPayloadLen == [t \in {50, 51} |-> t - 49]

Frames(headers, payloads) ==
  {[type |-> 49 + Len(p), header |-> h, payload |-> p] : h \in headers, p \in payloads}

AnyPayload == {<<a>> : a \in {26, 50, 7}} \cup {<<a, b>> : a, b \in {26, 50, 7}}

PlainHeader == {<<7, 7>>}

(* A header with the start of a frame in it.                               *)
BadHeader == {<<26, 50>>}

(* Payloads in which the second byte of a doubled ESC is never followed by *)
(* a type byte: read_beast_frames would see the start of a frame there.    *)
(* At the end of a payload it may be followed by a byte of an older read.  *)
NoPhantom(p) == \A i \in DOMAIN p : p[i] = 26 => i < Len(p) /\ p[i + 1] = 7

(* What the programs are sent: messages of two aircraft, some without a    *)
(* key.                                                                    *)
ProgramPayload == {<<7>>, <<7, 7>>, <<50, 7>>, <<50, 50>>}

AllReaders == {"read_loop", "read_beast_frames", "record", "compare", "viewsb"}
LoopOnly   == {"read_loop"}

MCSendable ==
  [r \in Readers |->
     CASE r = "read_loop"         -> Frames(BadHeader, {<<26>>, <<50>>, <<26, 26>>, <<26, 50>>, <<7, 26>>})
       [] r = "read_beast_frames" -> Frames(PlainHeader, {p \in AnyPayload \ {<<7>>, <<7, 7>>} : NoPhantom(p)})
       [] r = "viewsb"            -> Frames(PlainHeader, {<<7>>, <<50, 7>>})
       [] OTHER                   -> Frames(PlainHeader, ProgramPayload)]

(* Reads that end inside frames are left to the readers on their own.      *)
MCCuts == [r \in Readers |-> IF r \in {"read_loop", "read_beast_frames"} THEN {1, 5} ELSE {}]

MCWholeFrames == [r \in Readers |-> IF r = "read_loop" THEN 2 ELSE 3]

(* All but record get more in one read than they asked for.                *)
MCMaxFrames == [r \in Readers |-> IF r = "record" THEN 1000 ELSE 2]

MCMaxSent == [r \in Readers |-> IF r = "compare" THEN 4 ELSE 3]

MCRecording == <<[type |-> 51, payload |-> <<7, 50>>], [type |-> 51, payload |-> <<50, 7>>],
                 [type |-> 50, payload |-> <<7>>], [type |-> 51, payload |-> <<7, 7>>]>>

(* What the documents promise is checked for two frames.                   *)
ShortSendable == [r \in Readers |-> Frames(PlainHeader, {<<7>>, <<50, 7>>})]
ShortMaxSent == [r \in Readers |-> 2]

=============================================================================

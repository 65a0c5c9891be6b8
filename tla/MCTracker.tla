----------------------------- MODULE MCTracker ------------------------------
(***************************************************************************)
(* Instances of Tracker for TLC.  Two CPR frames stand for an aircraft     *)
(* near the receiver and one out of range: a relative decode of the far    *)
(* frame yields an alias inside the receiver's own zone, a pair made of    *)
(* one near and one far frame a third, wrong position.                     *)
(***************************************************************************)
EXTENDS Tracker

CONSTANTS k1, k2, k0

MCFrame    == {"near", "far"}
MCPosition == {"near", "far", "alias", "ghost"}
MCInRange  == {"near", "alias"}

MCRelativeFix ==
  [x \in (MCFrame \cup {NoFrame}) \X Parity |->
     IF x[1] = "near" THEN "near" ELSE "alias"]

MCGlobalFix ==
  [x \in MCFrame \X MCFrame \X Parity |-> IF x[1] = x[2] THEN x[1] ELSE "ghost"]

Plainly(k) ==
  [addr |-> k, source |-> Adsb, valid |-> {}, value |-> [f \in Checked \cup Plain |-> 0],
   emergency |-> NoEmergency, nac_p |-> 0, signal |-> 0, cpr |-> NoCpr]

With(k, source, f, v) ==
  [Plainly(k) EXCEPT !.source = source, !.valid = {f}, !.value[f] = v]

Cpr(k, source, parity, frame) ==
  [Plainly(k) EXCEPT !.source = source, !.cpr = [parity |-> parity, frame |-> frame]]

(* Two aircraft and an ignored address, messages without content.          *)
TimingMessages == {Plainly(k1), Plainly(k2), Plainly(k0)}

(* One aircraft, altitudes from sources of several ranks.                  *)
FieldMessages ==
  {With(k1, Adsb, "baro_alt", 1), With(k1, ModeS, "baro_alt", 2),
   With(k1, Jaero, "geom_alt", 7), Plainly(k0)}

(* What the program's own parser hands over: it never sets source.         *)
ParserMessages ==
  {Cpr(k1, InvalidSource, p, "near") : p \in Parity}

=============================================================================

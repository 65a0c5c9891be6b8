----------------------------- MODULE MCConsole ------------------------------
(***************************************************************************)
(* Instances of Console for TLC: one aircraft whose fields come, change    *)
(* and go, and one that only counts.                                       *)
(***************************************************************************)
EXTENDS Console

CONSTANTS k1, k2

Plane(f, a, c, p) ==
  [addr |-> k1, df |-> f, signal |-> TRUE,
   snapshot |-> [alt |-> a, callsign |-> c, pos |-> p, squawk |-> None]]

Ident(s) ==
  [addr |-> k1, df |-> 21, signal |-> TRUE,
   snapshot |-> [alt |-> None, callsign |-> None, pos |-> None, squawk |-> s]]

Other(f) ==
  [addr |-> k2, df |-> f, signal |-> FALSE,
   snapshot |-> [alt |-> None, callsign |-> None, pos |-> None, squawk |-> None]]

MCMessage ==
  {Plane(17, 1, None, 0), Plane(17, 2, None, 0), Plane(17, None, 5, None), Plane(20, 1, 5, None),
   Ident(7), Other(11), Other(0)}

(* All of it without signals, and a short run with two of them.            *)
MCBounds == {[clock |-> 4, fed |-> 3, signals |-> 0], [clock |-> 0, fed |-> 2, signals |-> 2]}

=============================================================================

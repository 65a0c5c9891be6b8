---------------------------- MODULE AircraftTable ---------------------------
(***************************************************************************)
(* What the tracker promises to whoever reads the registry, with no tasks, *)
(* locks or records: a table of the aircraft heard recently.  An entry     *)
(* appears empty, counts messages one at a time, carries a time of last    *)
(* contact that is at most Lag behind, and disappears only after a silence *)
(* of Expire by that time.                                                 *)
(***************************************************************************)
EXTENDS Integers

CONSTANTS Address, Absent, Expire, Lag

VARIABLES clock, table

Init ==
  /\ clock = 0
  /\ table = [k \in Address |-> Absent]

Advance ==
  /\ clock' = clock + 1
  /\ UNCHANGED table

Appear(k) ==
  /\ table[k] = Absent
  /\ \E t \in (clock - Lag) .. clock :
       table' = [table EXCEPT ![k] = [seen |-> t, messages |-> 0]]
  /\ UNCHANGED clock

Hear(k) ==
  /\ table[k] # Absent
  /\ \E t \in (clock - Lag) .. clock :
       table' = [table EXCEPT ![k] = [seen |-> t, messages |-> table[k].messages + 1]]
  /\ UNCHANGED clock

Forget(k) ==
  /\ table[k] # Absent
  /\ table[k].seen + Expire <= clock
  /\ table' = [table EXCEPT ![k] = Absent]
  /\ UNCHANGED clock

Next == Advance \/ \E k \in Address : Appear(k) \/ Hear(k) \/ Forget(k)

Spec == Init /\ [][Next]_<<clock, table>>

=============================================================================

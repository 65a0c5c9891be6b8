------------------------------ MODULE Aircraft ------------------------------
(***************************************************************************)
(* The record kept for one aircraft (tracking/aircraft.rs) and everything  *)
(* Tracker::update_from_message writes into it (tracking/tracker.rs) while *)
(* it holds the aircraft's write lock.                                     *)
(*                                                                         *)
(* The numeric content of a CPR frame is abstract: what the two decoders   *)
(* return for it is given by the constants RelativeFix and GlobalFix, and  *)
(* InRange is the set of positions that pass the distance test against     *)
(* Tracker.max_range.                                                      *)
(***************************************************************************)
EXTENDS DataValidity

CONSTANTS
  Frame,          (* contents of CPR frames other than latitude = longitude = 0  *)
  NoFrame,        (* the all-zero frame, which also means "none received"   *)
  Position,       (* decoded positions                                      *)
  NoPosition,     (* lat = lon = 0.0, also "the decoder returned None"      *)
  ReceiverKnown,  (* user_lat or user_lon was configured                    *)
  InRange,        (* positions within max_range of the receiver             *)
  RelativeFix,    (* decode_cpr_relative around the receiver                *)
  GlobalFix       (* decode_cpr_airborne of an even and an odd frame        *)

Parity == {"even", "odd"}

ASSUME CprAssumption ==
  /\ NoFrame \notin Frame
  /\ NoPosition \notin Position
  /\ ReceiverKnown \in BOOLEAN
  /\ InRange \subseteq Position
  /\ RelativeFix \in [(Frame \cup {NoFrame}) \X Parity -> Position \cup {NoPosition}]
  /\ GlobalFix \in [Frame \X Frame \X Parity -> Position \cup {NoPosition}]

(* Fields guarded by a DataValidity, and fields that are plainly           *)
(* overwritten by a message that carries them.                             *)
Checked == {"baro_alt", "geom_alt", "callsign", "gs", "squawk"}
Plain   == {"ias", "tas", "mach", "nav_altitude_mcp", "nav_altitude_fms",
            "nav_qnh", "track", "baro_rate"}

Unset == -9999        (* INVALID_ALTITUDE; stands for "" and 0 elsewhere    *)
EmptyCallsign == 0    (* a callsign that trims to the empty string          *)
NoEmergency == 0
SignalSlots == 8

NoCpr == [parity |-> "none", frame |-> NoFrame]

(* A decoded message: valid is the set of fields whose *_valid flag the    *)
(* parser set, value their values.                                         *)
MessageType(Address) ==
  [addr : Address, source : DataSource,
   valid : SUBSET (Checked \cup Plain), value : [Checked \cup Plain -> Int],
   emergency : Nat, nac_p : Nat, signal : Nat,
   cpr : [parity : Parity, frame : Frame \cup {NoFrame}] \cup {NoCpr}]

AircraftType(Address) ==
  [addr : Address, seen : Int, seen_pos : Int, messages : Nat,
   valid : [Checked \cup {"position"} -> Validity],
   value : [Checked -> Int], other : [Plain -> Int],
   geom_delta : Int, emergency : Nat, nac_p : Nat,
   cpr : [Parity -> Frame \cup {NoFrame}],
   position : Position \cup {NoPosition},
   signal : [0 .. SignalSlots - 1 -> Nat], signal_next : Nat]

NewAircraft(addr, now) ==
  [addr |-> addr, seen |-> now, seen_pos |-> 0, messages |-> 0,
   valid |-> [f \in Checked \cup {"position"} |-> NewValidity],
   value |-> [f \in Checked |-> Unset], other |-> [f \in Plain |-> 0],
   geom_delta |-> 0, emergency |-> NoEmergency, nac_p |-> 0,
   cpr |-> [p \in Parity |-> NoFrame],
   position |-> NoPosition,
   signal |-> [i \in 0 .. SignalSlots - 1 |-> 0], signal_next |-> 0]

-----------------------------------------------------------------------------
(* The parts of update_from_message.                                       *)

Carries(m, f) ==
  /\ f \in m.valid
  /\ f = "callsign" => m.value[f] # EmptyCallsign

(* The value is written whether or not the validity record accepted the    *)
(* source.                                                                 *)
UpdateChecked(a, m, now) ==
  [a EXCEPT
    !.valid = [f \in Checked \cup {"position"} |->
                 IF Carries(m, f) THEN Accept(a.valid[f], m.source, now) ELSE a.valid[f]],
    !.value = [f \in Checked |-> IF Carries(m, f) THEN m.value[f] ELSE a.value[f]]]

UpdateGeomDelta_Fresh(a, now) ==    \* mutant: the shorter of the two limits
  IF /\ IsValid(a.valid["baro_alt"], now, TRACK_STALE)
     /\ IsValid(a.valid["geom_alt"], now, TRACK_STALE)
  THEN [a EXCEPT !.geom_delta = a.value["geom_alt"] - a.value["baro_alt"]]
  ELSE a

UpdateGeomDelta(a, now) ==
  IF /\ IsValid(a.valid["baro_alt"], now, TRACK_EXPIRE)
     /\ IsValid(a.valid["geom_alt"], now, TRACK_EXPIRE)
  THEN [a EXCEPT !.geom_delta = a.value["geom_alt"] - a.value["baro_alt"]]
  ELSE a

(* An emergency state is taken over but never cleared by a message that    *)
(* reports none; the accuracy is overwritten by every message.             *)
UpdatePlain(a, m) ==
  [a EXCEPT
    !.other = [f \in Plain |-> IF f \in m.valid THEN m.value[f] ELSE a.other[f]],
    !.emergency = IF m.emergency # NoEmergency THEN m.emergency ELSE @,
    !.nac_p = m.nac_p]

StoreFrame(a, m) == [a EXCEPT !.cpr[m.cpr.parity] = m.cpr.frame]

SetPosition(a, p, source, now) ==
  [a EXCEPT !.position = p, !.valid["position"] = Accept(@, source, now), !.seen_pos = now]

(* One frame against the receiver's own position, with the range filter.   *)
RelativeDecode(a, m, now) ==
  LET p == RelativeFix[<<m.cpr.frame, m.cpr.parity>>]
  IN  IF ReceiverKnown /\ p \in InRange THEN SetPosition(a, p, m.source, now) ELSE a

(* The latest even frame with the latest odd frame, of whatever age.       *)
GlobalDecode(a, m, now) ==
  IF a.cpr["even"] = NoFrame \/ a.cpr["odd"] = NoFrame
  THEN a
  ELSE LET p == GlobalFix[<<a.cpr["even"], a.cpr["odd"], m.cpr.parity>>]
       IN  IF p \in Position THEN SetPosition(a, p, m.source, now) ELSE a

UpdatePosition(a, m, now) ==
  IF m.cpr = NoCpr THEN a
  ELSE GlobalDecode(RelativeDecode(StoreFrame(a, m), m, now), m, now)

AddSignal(a, m) ==
  IF m.signal = 0 THEN a
  ELSE [a EXCEPT !.signal[a.signal_next % SignalSlots] = m.signal,
                 !.signal_next = @ + 1]

Update_SeenNotSet(a, m, now) ==     \* mutant: as before release 0.6.0
  [a EXCEPT !.messages = @ + 1]

(* update_from_message under the aircraft's write lock.                    *)
Update(a, m, now) ==
  LET b == AddSignal(UpdatePosition(UpdatePlain(
             UpdateGeomDelta(UpdateChecked(a, m, now), now), m), m, now), m)
  IN  [b EXCEPT !.messages = @ + 1, !.seen = now]

-----------------------------------------------------------------------------
(* encode_sbs_aircraft: the MSG types of the lines emitted for an aircraft *)
(* by a report at time now.                                                *)
SbsLines(a, now) ==
  {7, 8}
  \cup {t \in {3} : IsValid(a.valid["position"], now, TRACK_STALE) /\ a.position # NoPosition}
  \cup {t \in {4} : IsValid(a.valid["gs"], now, TRACK_STALE)}
  \cup {t \in {1} : IsValid(a.valid["callsign"], now, TRACK_STALE)}
  \cup {t \in {5} : IsValid(a.valid["baro_alt"], now, TRACK_STALE)}

=============================================================================

---------------------------- MODULE TrackerProofs ---------------------------
(***************************************************************************)
(* The safety properties of Tracker for all values of its constants.       *)
(*                                                                         *)
(* None of the properties is inductive alone.  TimesInv bounds the age of  *)
(* the time stamps in flight, PlacesInv says which record a task in the    *)
(* middle of an update holds and what a sweep still has to look at,        *)
(* ReadersInv what an iteration has copied of the registry, and AgesInv    *)
(* relates each record's `seen` to the clock and to the stamp of the last  *)
(* sweep.  Each is proved to be preserved by every action.  The lemmas     *)
(* about the operators of Aircraft come first: each part of an update      *)
(* keeps the record well typed, and what it leaves alone.                  *)
(***************************************************************************)
EXTENDS Tracker, TLAPS

(* A validity record that is valid at some time was valid at every earlier *)
(* one: validity is only lost by waiting.                                  *)
LEMMA ValidEarlier ==
  ASSUME NEW v \in Validity, NEW e \in Int, NEW s \in Int, NEW t \in Int,
         s <= t, IsValid(v, t, e)
  PROVE  IsValid(v, s, e)
BY ExpireAssumption DEF IsValid, Validity, DataSource

(* Accepting a source yields a validity record.                            *)
LEMMA AcceptType ==
  ASSUME NEW v \in Validity, NEW s \in DataSource, NEW t \in Int
  PROVE  Accept(v, s, t) \in Validity
BY DEF Accept, Validity, DataSource

(* A new aircraft is well typed.                                           *)
LEMMA NewAircraftType ==
  ASSUME NEW k \in Address, NEW t \in Int
  PROVE  NewAircraft(k, t) \in AircraftType(Address)
BY DEF NewAircraft, AircraftType, NewValidity, Validity, DataSource, InvalidSource,
       Checked, Plain, Parity, Unset, NoEmergency, SignalSlots

LEMMA UpdateCheckedType ==
  ASSUME NEW a \in AircraftType(Address),
         NEW m \in MessageType(Address), NEW t \in Int
  PROVE  UpdateChecked(a, m, t) \in AircraftType(Address)
BY AcceptType DEF UpdateChecked, AircraftType, MessageType

LEMMA UpdateGeomDeltaType ==
  ASSUME NEW a \in AircraftType(Address), NEW t \in Int
  PROVE  UpdateGeomDelta(a, t) \in AircraftType(Address)
<1>1. /\ a.value["geom_alt"] \in Int
      /\ a.value["baro_alt"] \in Int
  BY DEF AircraftType, Checked
<1>2. a.value["geom_alt"] - a.value["baro_alt"] \in Int
  BY <1>1
<1>3. ASSUME NEW d \in Int
      PROVE  [a EXCEPT !.geom_delta = d] \in AircraftType(Address)
  BY DEF AircraftType
<1> QED
  BY <1>2, <1>3 DEF UpdateGeomDelta

LEMMA UpdatePlainType ==
  ASSUME NEW a \in AircraftType(Address), NEW m \in MessageType(Address)
  PROVE  UpdatePlain(a, m) \in AircraftType(Address)
BY DEF UpdatePlain, AircraftType, MessageType

LEMMA SetPositionType ==
  ASSUME NEW a \in AircraftType(Address), NEW p \in Position,
         NEW s \in DataSource, NEW t \in Int
  PROVE  SetPosition(a, p, s, t) \in AircraftType(Address)
BY AcceptType DEF SetPosition, AircraftType

LEMMA UpdatePositionType ==
  ASSUME NEW a \in AircraftType(Address),
         NEW m \in MessageType(Address), NEW t \in Int
  PROVE  UpdatePosition(a, m, t) \in AircraftType(Address)
<1>1. CASE m.cpr = NoCpr
  BY <1>1 DEF UpdatePosition
<1>2. CASE m.cpr # NoCpr
  <2>1. m.cpr \in [parity : Parity, frame : Frame \cup {NoFrame}]
    BY <1>2 DEF MessageType
  <2>2. m.source \in DataSource
    BY DEF MessageType
  <2> DEFINE b == StoreFrame(a, m)
  <2>3. b \in AircraftType(Address)
    BY <2>1 DEF StoreFrame, AircraftType
  <2> DEFINE c == RelativeDecode(b, m, t)
  <2>4. c \in AircraftType(Address)
    BY <2>2, <2>3, SetPositionType, CprAssumption DEF RelativeDecode
  <2>5. GlobalDecode(c, m, t) \in AircraftType(Address)
    BY <2>2, <2>4, SetPositionType DEF GlobalDecode
  <2> QED
    BY <1>2, <2>5 DEF UpdatePosition
<1> QED
  BY <1>1, <1>2

LEMMA AddSignalType ==
  ASSUME NEW a \in AircraftType(Address), NEW m \in MessageType(Address)
  PROVE  AddSignal(a, m) \in AircraftType(Address)
<1>1. m.signal \in Nat /\ a.signal_next + 1 \in Nat
  BY DEF AircraftType, MessageType
<1>2. ASSUME NEW i, NEW l \in Nat, NEW n \in Nat
      PROVE  [a EXCEPT !.signal[i] = l, !.signal_next = n] \in AircraftType(Address)
  BY DEF AircraftType
<1> QED
  BY <1>1, <1>2 DEF AddSignal

(* The whole update keeps the record well typed.                           *)
LEMMA UpdateType ==
  ASSUME NEW a \in AircraftType(Address),
         NEW m \in MessageType(Address), NEW t \in Int
  PROVE  Update(a, m, t) \in AircraftType(Address)
<1> DEFINE b == UpdateChecked(a, m, t)
           c == UpdateGeomDelta(b, t)
           d == UpdatePlain(c, m)
           e == UpdatePosition(d, m, t)
           f == AddSignal(e, m)
<1>1. b \in AircraftType(Address)  BY UpdateCheckedType
<1>2. c \in AircraftType(Address)  BY <1>1, UpdateGeomDeltaType
<1>3. d \in AircraftType(Address)  BY <1>2, UpdatePlainType
<1>4. e \in AircraftType(Address)  BY <1>3, UpdatePositionType
<1>5. f \in AircraftType(Address)  BY <1>4, AddSignalType
<1>6. Update(a, m, t) = [f EXCEPT !.messages = @ + 1, !.seen = t]
  BY DEF Update
<1>7. ASSUME NEW g \in AircraftType(Address)
      PROVE  [g EXCEPT !.messages = @ + 1, !.seen = t] \in AircraftType(Address)
  <2>1. g.messages + 1 \in Nat
    BY DEF AircraftType
  <2>2. ASSUME NEW n \in Nat
        PROVE  [g EXCEPT !.messages = n, !.seen = t] \in AircraftType(Address)
    BY DEF AircraftType
  <2> QED
    BY <2>1, <2>2
<1> QED BY <1>5, <1>6, <1>7

-----------------------------------------------------------------------------
(* What the later parts of an update leave as they found it.               *)
Untouched(a, b) ==
  /\ b.addr = a.addr
  /\ b.messages = a.messages
  /\ b.value = a.value
  /\ b.geom_delta = a.geom_delta
  /\ \A f \in Checked : b.valid[f] = a.valid[f]

LEMMA UntouchedTrans ==
  ASSUME NEW a, NEW b, NEW c, Untouched(a, b), Untouched(b, c)
  PROVE  Untouched(a, c)
BY DEF Untouched

LEMMA SetPositionUntouched ==
  ASSUME NEW a \in AircraftType(Address), NEW p, NEW s, NEW t
  PROVE  Untouched(a, SetPosition(a, p, s, t))
<1>1. ASSUME NEW f \in Checked  PROVE f # "position" /\ f \in DOMAIN a.valid
  BY DEF Checked, AircraftType
<1> QED
  BY <1>1 DEF Untouched, SetPosition, AircraftType

LEMMA UpdatePositionUntouched ==
  ASSUME NEW a \in AircraftType(Address),
         NEW m \in MessageType(Address), NEW t \in Int
  PROVE  Untouched(a, UpdatePosition(a, m, t))
<1>1. CASE m.cpr = NoCpr
  BY <1>1 DEF UpdatePosition, Untouched
<1>2. CASE m.cpr # NoCpr
  <2>1. m.cpr \in [parity : Parity, frame : Frame \cup {NoFrame}]
    BY <1>2 DEF MessageType
  <2>2. m.source \in DataSource
    BY DEF MessageType
  <2> DEFINE b == StoreFrame(a, m)
             c == RelativeDecode(b, m, t)
             d == GlobalDecode(c, m, t)
  <2>3. b \in AircraftType(Address) /\ Untouched(a, b)
    BY <2>1 DEF StoreFrame, AircraftType, Untouched
  <2>4. c \in AircraftType(Address)
    BY <2>2, <2>3, SetPositionType, CprAssumption DEF RelativeDecode
  <2>5. Untouched(b, c)
    <3>1. Untouched(b, b)
      BY DEF Untouched
    <3> QED
      BY <2>3, <3>1, SetPositionUntouched DEF RelativeDecode
  <2>6. Untouched(c, d)
    <3>1. Untouched(c, c)
      BY DEF Untouched
    <3> QED
      BY <2>4, <3>1, SetPositionUntouched DEF GlobalDecode
  <2>7. Untouched(a, d)
    BY <2>3, <2>5, <2>6, UntouchedTrans
  <2> QED
    BY <1>2, <2>7 DEF UpdatePosition
<1> QED
  BY <1>1, <1>2

(* What Tracker relies on: an update keeps the address, counts one         *)
(* message, records the sender's time stamp and leaves a geom_delta that   *)
(* is right for every later observer who still sees both altitudes valid.  *)
LEMMA UpdateEffect ==
  ASSUME NEW a \in AircraftType(Address),
         NEW m \in MessageType(Address), NEW t \in Int
  PROVE  LET u == Update(a, m, t) IN
         /\ u.addr = a.addr
         /\ u.messages = a.messages + 1
         /\ u.seen = t
         /\ \A c \in Int :
              /\ t <= c
              /\ IsValid(u.valid["baro_alt"], c, TRACK_EXPIRE)
              /\ IsValid(u.valid["geom_alt"], c, TRACK_EXPIRE)
              => u.geom_delta = u.value["geom_alt"] - u.value["baro_alt"]
<1> DEFINE b == UpdateChecked(a, m, t)
           c == UpdateGeomDelta(b, t)
           d == UpdatePlain(c, m)
           e == UpdatePosition(d, m, t)
           f == AddSignal(e, m)
<1>1. /\ b \in AircraftType(Address)
      /\ b.addr = a.addr
      /\ b.messages = a.messages
  <2>1. b \in AircraftType(Address)
    BY UpdateCheckedType
  <2>2. b.addr = a.addr /\ b.messages = a.messages
    BY DEF UpdateChecked, AircraftType
  <2> QED
    BY <2>1, <2>2
<1>2. /\ c \in AircraftType(Address)
      /\ c.addr = b.addr
      /\ c.messages = b.messages
      /\ c.value = b.value
      /\ c.valid = b.valid
      /\ IsValid(c.valid["baro_alt"], t, TRACK_EXPIRE)
           /\ IsValid(c.valid["geom_alt"], t, TRACK_EXPIRE)
         => c.geom_delta = c.value["geom_alt"] - c.value["baro_alt"]
  <2> HIDE DEF b
  <2>1. c \in AircraftType(Address)
    BY <1>1, UpdateGeomDeltaType
  <2> QED
    BY <1>1, <2>1 DEF UpdateGeomDelta, AircraftType
<1>3. d \in AircraftType(Address) /\ Untouched(c, d)
  <2> HIDE DEF c
  <2>1. d \in AircraftType(Address)
    BY <1>2, UpdatePlainType
  <2> QED
    BY <1>2, <2>1 DEF UpdatePlain, AircraftType, Untouched
<1>4. e \in AircraftType(Address) /\ Untouched(d, e)
  <2> HIDE DEF d
  <2> QED
    BY <1>3, UpdatePositionType, UpdatePositionUntouched
<1>5. f \in AircraftType(Address) /\ Untouched(e, f)
  <2> HIDE DEF e
  <2>1. f \in AircraftType(Address)
    BY <1>4, AddSignalType
  <2> QED
    BY <1>4, <2>1 DEF AddSignal, AircraftType, Untouched
<1>6. Untouched(c, f)
  BY <1>3, <1>4, <1>5, UntouchedTrans
<1> DEFINE u == [f EXCEPT !.messages = @ + 1, !.seen = t]
<1>7. /\ Untouched(f, [u EXCEPT !.messages = f.messages])
      /\ u.messages = f.messages + 1
      /\ u.seen = t
      /\ u.addr = f.addr
      /\ u.value = f.value
      /\ u.valid = f.valid
      /\ u.geom_delta = f.geom_delta
  <2> HIDE DEF f
  <2> QED
    BY <1>5 DEF AircraftType, Untouched
<1>8. Update(a, m, t) = u
  BY DEF Update
<1>9. /\ u.addr = a.addr
      /\ u.messages = a.messages + 1
      /\ u.seen = t
  <2> HIDE DEF b, c, d, e, f, u
  <2> QED BY <1>1, <1>2, <1>6, <1>7 DEF Untouched
<1>10. ASSUME NEW n \in Int, t <= n,
              IsValid(u.valid["baro_alt"], n, TRACK_EXPIRE),
              IsValid(u.valid["geom_alt"], n, TRACK_EXPIRE)
       PROVE  u.geom_delta = u.value["geom_alt"] - u.value["baro_alt"]
  <2> HIDE DEF b, c, d, e, f, u
  <2>1. /\ u.valid["baro_alt"] = c.valid["baro_alt"]
        /\ u.valid["geom_alt"] = c.valid["geom_alt"]
        /\ u.value = c.value
        /\ u.geom_delta = c.geom_delta
    BY <1>6, <1>7 DEF Untouched, Checked
  <2>2. /\ c.valid["baro_alt"] \in Validity
        /\ c.valid["geom_alt"] \in Validity
        /\ TRACK_EXPIRE \in Int
    <3>1. c.valid \in [Checked \cup {"position"} -> Validity]
      BY <1>2 DEF AircraftType
    <3> QED
      BY <3>1, ExpireAssumption DEF Checked
  <2>3. /\ IsValid(c.valid["baro_alt"], t, TRACK_EXPIRE)
        /\ IsValid(c.valid["geom_alt"], t, TRACK_EXPIRE)
    BY <1>10, <2>1, <2>2, ValidEarlier
  <2> QED
    BY <1>2, <2>1, <2>3
<1> QED
  BY <1>8, <1>9, <1>10

-----------------------------------------------------------------------------
TimesInv ==
  \A t \in Task :
    /\ now[t] <= clock
    /\ Busy(t) => clock <= now[t] + MaxLag

PlacesInv ==
  /\ pc["main"] \in {"read", "batch", "lookup", "apply", "sweep"}
  /\ pc["incoming"] \in {"recv", "lookup", "apply"}
  /\ \A t \in Task :
       /\ pc[t] \in {"lookup", "apply"} => msg[t] \in Message
       /\ pc[t] = "apply" => msg[t].addr \notin BadAddress
       /\ orphan[t] # NoAircraft => pc[t] = "apply"
  /\ RecordsInPlace
  /\ Sweeping => todo \subseteq Registered

(* The aircraft the last sweep has decided to keep.                        *)
Swept == IF pc["main"] = "read" THEN Registered
         ELSE IF Sweeping THEN Registered \ todo ELSE {}

AgesInv ==
  /\ OrphanOnlyIfExpired
  /\ \A k \in Swept : now["main"] < registry[k].seen + TRACK_EXPIRE
  /\ \A k \in Registered : heard[k] <= registry[k].seen + MaxLag

-----------------------------------------------------------------------------
(* Facts about the constants, in the form the steps below use.             *)
LEMMA MessageFacts ==
  ASSUME NEW m \in Message
  PROVE  m \in MessageType(Address) /\ m.addr \in Address
BY TrackerAssumption DEF MessageType

LEMMA TaskFacts == Task = {"main", "incoming"} /\ "main" \in Task /\ "incoming" \in Task
BY DEF Task

-----------------------------------------------------------------------------
(* Types.                                                                  *)
LEMMA TypeInit == Init => TypeOK
BY TrackerAssumption DEF Init, TypeOK, Task

LEMMA TypeStep ==
  ASSUME TypeOK, PlacesInv, [Next]_vars
  PROVE  TypeOK'
<1> USE TrackerAssumption
<1>1. ASSUME Tick
      PROVE  TypeOK'
  BY <1>1 DEF Tick, TypeOK, taskVars, readerVars, Registered, Idle
<1>2. ASSUME NEW n \in 0 .. MaxBatch, ReadBuffer(n)
      PROVE  TypeOK'
  BY <1>2 DEF ReadBuffer, TypeOK, taskVars, readerVars, Registered, Idle
<1>3. ASSUME NEW m \in Message, NextMessage(m)
      PROVE  TypeOK'
  <2>1. left \in 0 .. MaxBatch /\ left > 0 => left - 1 \in 0 .. MaxBatch
    OBVIOUS
  <2> QED
    BY <1>3, <2>1 DEF NextMessage, TypeOK, taskVars, readerVars
<1>4. ASSUME NEW m \in Message, Receive(m)
      PROVE  TypeOK'
  BY <1>4 DEF Receive, TypeOK, taskVars, readerVars, Registered, Idle
<1>5. ASSUME NEW t \in Task, Ignore(t)
      PROVE  TypeOK'
  BY <1>5 DEF Ignore, TypeOK, taskVars, readerVars, Registered, Idle
<1>6. ASSUME NEW t \in Task, GetOrCreate(t)
      PROVE  TypeOK'
  <2>1. msg[t] \in Message /\ msg[t].addr \in Address /\ now[t] \in Int
    BY <1>6, MessageFacts DEF GetOrCreate, PlacesInv, TypeOK
  <2>2. NewAircraft(msg[t].addr, now[t]) \in AircraftType(Address)
    BY <2>1, NewAircraftType
  <2>3. registry' \in [Address -> AircraftType(Address) \cup {NoAircraft}]
    BY <1>6, <2>1, <2>2 DEF GetOrCreate, TypeOK
  <2> QED
    BY <1>6, <2>1, <2>3 DEF GetOrCreate, TypeOK, readerVars
<1>7. ASSUME NEW t \in Task, Apply(t)
      PROVE  TypeOK'
  <2>1. msg[t] \in Message /\ msg[t] \in MessageType(Address) /\ msg[t].addr \in Address
    BY <1>7, MessageFacts DEF Apply, PlacesInv
  <2>2. ASSUME orphan[t] = NoAircraft
        PROVE  registry[msg[t].addr] \in AircraftType(Address)
    BY <1>7, <2>1, <2>2 DEF Apply, PlacesInv, RecordsInPlace, Registered, TypeOK
  <2>3. ASSUME orphan[t] = NoAircraft
        PROVE  Update(registry[msg[t].addr], msg[t], now[t]) \in AircraftType(Address)
    BY <2>1, <2>2, <2>3, UpdateType DEF TypeOK
  <2>4. registry' \in [Address -> AircraftType(Address) \cup {NoAircraft}]
    BY <1>7, <2>1, <2>3 DEF Apply, TypeOK
  <2>5. pc' \in [Task -> {"read", "batch", "recv", "lookup", "apply", "sweep"}]
    BY <1>7 DEF Apply, TypeOK, Idle
  <2> QED
    BY <1>7, <2>1, <2>4, <2>5 DEF Apply, TypeOK, readerVars
<1>8. ASSUME BeginSweep
      PROVE  TypeOK'
  BY <1>8 DEF BeginSweep, TypeOK, taskVars, readerVars, Registered, Idle
<1>9. ASSUME NEW k \in Address, SweepKeep(k)
      PROVE  TypeOK'
  BY <1>9 DEF SweepKeep, TypeOK, taskVars, readerVars, Registered, Idle
<1>10. ASSUME NEW k \in Address, SweepRemove(k)
      PROVE  TypeOK'
  <2>1. orphan' \in [Task -> AircraftType(Address) \cup {NoAircraft}]
    BY <1>10 DEF SweepRemove, TypeOK
  <2>2. registry' \in [Address -> AircraftType(Address) \cup {NoAircraft}]
    BY <1>10 DEF SweepRemove, TypeOK
  <2> QED
    BY <1>10, <2>1, <2>2 DEF SweepRemove, TypeOK, readerVars
<1>11. ASSUME EndSweep
      PROVE  TypeOK'
  BY <1>11 DEF EndSweep, TypeOK, taskVars, readerVars, Registered, Idle
<1>12. ASSUME NEW r \in Reader, BeginReport(r)
      PROVE  TypeOK'
  BY <1>12 DEF BeginReport, TypeOK, taskVars, readerVars, Registered, Idle
<1>13. ASSUME NEW r \in Reader, NEW k \in Address, CopyAircraft(r, k)
      PROVE  TypeOK'
  BY <1>13 DEF CopyAircraft, TypeOK, taskVars, readerVars, Registered, Idle
<1>14. ASSUME NEW r \in Reader, EndReport(r)
      PROVE  TypeOK'
  BY <1>14 DEF EndReport, TypeOK, taskVars, readerVars, Registered, Idle
<1>15. CASE UNCHANGED vars
  BY <1>15 DEF vars, TypeOK, taskVars, readerVars, Registered, Idle
<1> QED
  BY <1>1, <1>2, <1>3, <1>4, <1>5, <1>6, <1>7, <1>8, <1>9, <1>10, <1>11, <1>12, <1>13, <1>14, <1>15 DEF Next

-----------------------------------------------------------------------------
(* The two steps that write records, seen from the registry.               *)
LEMMA GetOrCreateEffect ==
  ASSUME TypeOK, PlacesInv, NEW t \in Task, GetOrCreate(t), NEW k, k = msg[t].addr
  PROVE  /\ k \in Address
         /\ k \notin BadAddress
         /\ Registered' = Registered \cup {k}
         /\ \A j \in Registered : registry'[j] = registry[j] /\ heard'[j] = heard[j]
         /\ k \notin Registered =>
              registry'[k] = NewAircraft(k, now[t]) /\ heard'[k] = clock
<1>1. k \in Address /\ now[t] \in Int
  BY MessageFacts DEF GetOrCreate, PlacesInv, TypeOK
<1>2. NewAircraft(k, now[t]) # NoAircraft
  BY <1>1, NewAircraftType, TrackerAssumption
<1>3. k \notin BadAddress
  BY DEF GetOrCreate
<1>4. CASE registry[k] = NoAircraft
  BY <1>1, <1>2, <1>3, <1>4 DEF GetOrCreate, Registered, TypeOK
<1>5. CASE registry[k] # NoAircraft
  BY <1>1, <1>3, <1>5 DEF GetOrCreate, Registered, TypeOK
<1> QED
  BY <1>4, <1>5

LEMMA ApplyEffect ==
  ASSUME TypeOK, PlacesInv, NEW t \in Task, Apply(t), NEW k, k = msg[t].addr
  PROVE  /\ Registered' = Registered
         /\ \A j \in Registered :
              \/ registry'[j] = registry[j] /\ heard'[j] = heard[j]
              \/ /\ j = k
                 /\ registry[j] \in AircraftType(Address)
                 /\ msg[t] \in MessageType(Address)
                 /\ registry'[j] = Update(registry[j], msg[t], now[t])
                 /\ heard'[j] = clock
<1>1. k \in Address /\ msg[t] \in MessageType(Address) /\ now[t] \in Int
  BY MessageFacts DEF Apply, PlacesInv, TypeOK
<1>2. CASE orphan[t] # NoAircraft
  BY <1>2 DEF Apply, Registered
<1>3. CASE orphan[t] = NoAircraft
  <2>1. k \in Registered /\ registry[k] \in AircraftType(Address)
    BY <1>1, <1>3 DEF Apply, PlacesInv, RecordsInPlace, Registered, TypeOK
  <2>2. Update(registry[k], msg[t], now[t]) # NoAircraft
    BY <1>1, <2>1, UpdateType, TrackerAssumption
  <2>3. /\ registry' = [registry EXCEPT ![k] = Update(registry[k], msg[t], now[t])]
        /\ heard' = [heard EXCEPT ![k] = clock]
    BY <1>3 DEF Apply
  <2> QED
    BY <1>1, <2>1, <2>2, <2>3 DEF Registered, TypeOK
<1> QED
  BY <1>2, <1>3

-----------------------------------------------------------------------------
(* Time stamps in flight: a step that makes a task busy either takes its   *)
(* stamp or follows one that did, and Tick waits for the oldest of them.   *)
LEMMA TimesInit == Init => TimesInv
BY TrackerAssumption DEF Init, TimesInv, Busy, Task

LEMMA TimesStep ==
  ASSUME TypeOK, PlacesInv, TimesInv, [Next]_vars
  PROVE  TimesInv'
<1> USE TrackerAssumption
<1>a. clock \in Nat /\ \A t \in Task : now[t] \in Nat
  BY DEF TypeOK
<1>1. ASSUME Tick
      PROVE  TimesInv'
  BY <1>1, <1>a DEF Tick, TimesInv, Busy, TypeOK, PlacesInv, Task, taskVars, Idle, Sweeping
<1>2. ASSUME NEW n \in 0 .. MaxBatch, ReadBuffer(n)
      PROVE  TimesInv'
  BY <1>2, <1>a DEF ReadBuffer, TimesInv, Busy, TypeOK, PlacesInv, Task, taskVars, Idle, Sweeping
<1>3. ASSUME NEW m \in Message, NextMessage(m)
      PROVE  TimesInv'
  BY <1>3, <1>a DEF NextMessage, TimesInv, Busy, TypeOK, PlacesInv, Task, taskVars, Idle, Sweeping
<1>4. ASSUME NEW m \in Message, Receive(m)
      PROVE  TimesInv'
  BY <1>4, <1>a DEF Receive, TimesInv, Busy, TypeOK, PlacesInv, Task, taskVars, Idle, Sweeping
<1>5. ASSUME NEW t \in Task, Ignore(t)
      PROVE  TimesInv'
  BY <1>5, <1>a DEF Ignore, TimesInv, Busy, TypeOK, PlacesInv, Task, taskVars, Idle, Sweeping
<1>6. ASSUME NEW t \in Task, GetOrCreate(t)
      PROVE  TimesInv'
  BY <1>6, <1>a DEF GetOrCreate, TimesInv, Busy, TypeOK, PlacesInv, Task, taskVars, Idle, Sweeping
<1>7. ASSUME NEW t \in Task, Apply(t)
      PROVE  TimesInv'
  BY <1>7, <1>a DEF Apply, TimesInv, Busy, TypeOK, PlacesInv, Task, taskVars, Idle, Sweeping
<1>8. ASSUME BeginSweep
      PROVE  TimesInv'
  BY <1>8, <1>a DEF BeginSweep, TimesInv, Busy, TypeOK, PlacesInv, Task, taskVars, Idle, Sweeping
<1>9. ASSUME NEW k \in Address, SweepKeep(k)
      PROVE  TimesInv'
  BY <1>9, <1>a DEF SweepKeep, TimesInv, Busy, TypeOK, PlacesInv, Task, taskVars, Idle, Sweeping
<1>10. ASSUME NEW k \in Address, SweepRemove(k)
      PROVE  TimesInv'
  BY <1>10, <1>a DEF SweepRemove, TimesInv, Busy, TypeOK, PlacesInv, Task, taskVars, Idle, Sweeping
<1>11. ASSUME EndSweep
      PROVE  TimesInv'
  BY <1>11, <1>a DEF EndSweep, TimesInv, Busy, TypeOK, PlacesInv, Task, taskVars, Idle, Sweeping
<1>12. ASSUME NEW r \in Reader, BeginReport(r)
      PROVE  TimesInv'
  BY <1>12, <1>a DEF BeginReport, TimesInv, Busy, TypeOK, PlacesInv, Task, taskVars, Idle, Sweeping
<1>13. ASSUME NEW r \in Reader, NEW k \in Address, CopyAircraft(r, k)
      PROVE  TimesInv'
  BY <1>13, <1>a DEF CopyAircraft, TimesInv, Busy, TypeOK, PlacesInv, Task, taskVars, Idle, Sweeping
<1>14. ASSUME NEW r \in Reader, EndReport(r)
      PROVE  TimesInv'
  BY <1>14, <1>a DEF EndReport, TimesInv, Busy, TypeOK, PlacesInv, Task, taskVars, Idle, Sweeping
<1>15. CASE UNCHANGED vars
  BY <1>15, <1>a DEF vars, TimesInv, Busy, TypeOK, PlacesInv, Task, taskVars, Idle, Sweeping
<1> QED
  BY <1>1, <1>2, <1>3, <1>4, <1>5, <1>6, <1>7, <1>8, <1>9, <1>10, <1>11, <1>12, <1>13, <1>14, <1>15 DEF Next

-----------------------------------------------------------------------------
(* Who holds which record: only the main task sweeps, so it never finds    *)
(* itself in the middle of an update there, and an aircraft that another   *)
(* task is about to update leaves the registry only as that task's orphan. *)
LEMMA PlacesInit == Init => PlacesInv
BY DEF Init, PlacesInv, RecordsInPlace, Registered, Sweeping, Task

LEMMA PlacesStep ==
  ASSUME TypeOK, PlacesInv, [Next]_vars
  PROVE  PlacesInv'
<1> USE TrackerAssumption
<1>1. ASSUME Tick
      PROVE  PlacesInv'
  BY <1>1 DEF Tick, PlacesInv, RecordsInPlace, Registered, TypeOK, Task, taskVars, readerVars, Idle, Sweeping
<1>2. ASSUME NEW n \in 0 .. MaxBatch, ReadBuffer(n)
      PROVE  PlacesInv'
  BY <1>2 DEF ReadBuffer, PlacesInv, RecordsInPlace, Registered, TypeOK, Task, taskVars, readerVars, Idle, Sweeping
<1>3. ASSUME NEW m \in Message, NextMessage(m)
      PROVE  PlacesInv'
  BY <1>3 DEF NextMessage, PlacesInv, RecordsInPlace, Registered, TypeOK, Task, taskVars, readerVars, Idle, Sweeping
<1>4. ASSUME NEW m \in Message, Receive(m)
      PROVE  PlacesInv'
  BY <1>4 DEF Receive, PlacesInv, RecordsInPlace, Registered, TypeOK, Task, taskVars, readerVars, Idle, Sweeping
<1>5. ASSUME NEW t \in Task, Ignore(t)
      PROVE  PlacesInv'
  BY <1>5 DEF Ignore, PlacesInv, RecordsInPlace, Registered, TypeOK, Task, taskVars, readerVars, Idle, Sweeping
<1>6. ASSUME NEW t \in Task, GetOrCreate(t)
      PROVE  PlacesInv'
  <2> DEFINE k == msg[t].addr
  <2>1. /\ k \in Address
        /\ k \notin BadAddress
        /\ Registered' = Registered \cup {k}
        /\ \A j \in Registered : registry'[j] = registry[j]
        /\ k \notin Registered => registry'[k] = NewAircraft(k, now[t])
    BY <1>6, GetOrCreateEffect
  <2>2. NewAircraft(k, now[t]).addr = k
    BY DEF NewAircraft
  <2>3. \A j \in Registered' : registry'[j].addr = j /\ j \notin BadAddress
    BY <2>1, <2>2 DEF PlacesInv, RecordsInPlace
  <2>4. /\ \A s \in Task : s # t => pc'[s] = pc[s]
        /\ pc[t] = "lookup"
        /\ pc'[t] = "apply"
        /\ UNCHANGED <<msg, orphan, todo>>
        /\ ~Sweeping'
    BY <1>6 DEF GetOrCreate, TypeOK, Sweeping, Task
  <2>5. \A s \in Task : pc'[s] = "apply" /\ orphan'[s] = NoAircraft => msg'[s].addr \in Registered'
    BY <2>1, <2>4 DEF PlacesInv, RecordsInPlace
  <2> HIDE DEF k
  <2>6. RecordsInPlace'
    BY <2>3, <2>4, <2>5 DEF PlacesInv, RecordsInPlace
  <2> QED
    BY <1>6, <2>1, <2>4, <2>6 DEF PlacesInv, k, Task
<1>7. ASSUME NEW t \in Task, Apply(t)
      PROVE  PlacesInv'
  <2>1. /\ Registered' = Registered
        /\ \A j \in Registered :
             \/ registry'[j] = registry[j]
             \/ /\ registry[j] \in AircraftType(Address)
                /\ msg[t] \in MessageType(Address)
                /\ registry'[j] = Update(registry[j], msg[t], now[t])
    BY <1>7, ApplyEffect
  <2>2. \A j \in Registered : registry'[j].addr = registry[j].addr
    BY <2>1, UpdateEffect DEF TypeOK
  <2>3. /\ \A s \in Task : s # t => pc'[s] = pc[s] /\ orphan'[s] = orphan[s] /\ msg'[s] = msg[s]
        /\ orphan'[t] = NoAircraft
        /\ pc'[t] = Idle(t)
        /\ pc'["main"] = "sweep" => pc["main"] = "sweep"
        /\ todo' = todo
    BY <1>7 DEF Apply, TypeOK, Idle, Task
  <2>4. RecordsInPlace'
    BY <2>1, <2>2, <2>3 DEF PlacesInv, RecordsInPlace, Task, Idle
  <2> QED
    BY <2>1, <2>3, <2>4 DEF PlacesInv, Task, Idle, Sweeping
<1>8. ASSUME BeginSweep
      PROVE  PlacesInv'
  BY <1>8 DEF BeginSweep, PlacesInv, RecordsInPlace, Registered, TypeOK, Task, taskVars, readerVars, Idle, Sweeping
<1>9. ASSUME NEW k \in Address, SweepKeep(k)
      PROVE  PlacesInv'
  BY <1>9 DEF SweepKeep, PlacesInv, RecordsInPlace, Registered, TypeOK, Task, taskVars, readerVars, Idle, Sweeping
<1>10. ASSUME NEW k \in Address, SweepRemove(k)
      PROVE  PlacesInv'
  BY <1>10 DEF SweepRemove, PlacesInv, RecordsInPlace, Registered, TypeOK, Task, taskVars, readerVars, Idle, Sweeping
<1>11. ASSUME EndSweep
      PROVE  PlacesInv'
  BY <1>11 DEF EndSweep, PlacesInv, RecordsInPlace, Registered, TypeOK, Task, taskVars, readerVars, Idle, Sweeping
<1>12. ASSUME NEW r \in Reader, BeginReport(r)
      PROVE  PlacesInv'
  BY <1>12 DEF BeginReport, PlacesInv, RecordsInPlace, Registered, TypeOK, Task, taskVars, readerVars, Idle, Sweeping
<1>13. ASSUME NEW r \in Reader, NEW k \in Address, CopyAircraft(r, k)
      PROVE  PlacesInv'
  BY <1>13 DEF CopyAircraft, PlacesInv, RecordsInPlace, Registered, TypeOK, Task, taskVars, readerVars, Idle, Sweeping
<1>14. ASSUME NEW r \in Reader, EndReport(r)
      PROVE  PlacesInv'
  BY <1>14 DEF EndReport, PlacesInv, RecordsInPlace, Registered, TypeOK, Task, taskVars, readerVars, Idle, Sweeping
<1>15. CASE UNCHANGED vars
  BY <1>15 DEF vars, PlacesInv, RecordsInPlace, Registered, TypeOK, Task, taskVars, readerVars, Idle, Sweeping
<1> QED
  BY <1>1, <1>2, <1>3, <1>4, <1>5, <1>6, <1>7, <1>8, <1>9, <1>10, <1>11, <1>12, <1>13, <1>14, <1>15 DEF Next

-----------------------------------------------------------------------------
(* Ages: a stamp in flight is at most MaxLag < TRACK_EXPIRE old, so what a *)
(* task writes during or after a sweep is younger than what it may remove. *)
LEMMA AgesInit == Init => AgesInv
BY DEF Init, AgesInv, OrphanOnlyIfExpired, Swept, Registered, Sweeping, Task

LEMMA AgesStep ==
  ASSUME TypeOK, PlacesInv, TimesInv, AgesInv, [Next]_vars
  PROVE  AgesInv'
<1> USE TrackerAssumption, ExpireAssumption
<1>a. /\ clock \in Nat
      /\ \A t \in Task : now[t] \in Nat
      /\ \A k \in Registered : registry[k].seen \in Int /\ heard[k] \in Nat
      /\ \A t \in Task : orphan[t] # NoAircraft => orphan[t].seen \in Int
  BY DEF TypeOK, Registered, AircraftType
<1>1. ASSUME Tick
      PROVE  AgesInv'
  BY <1>1, <1>a DEF Tick, taskVars, AgesInv, OrphanOnlyIfExpired, Swept, Registered, Sweeping
<1>2. ASSUME NEW n \in 0 .. MaxBatch, ReadBuffer(n)
      PROVE  AgesInv'
  BY <1>2, <1>a DEF ReadBuffer, TypeOK, taskVars, AgesInv, OrphanOnlyIfExpired, Swept, Registered, Sweeping, Idle, Task
<1>3. ASSUME NEW m \in Message, NextMessage(m)
      PROVE  AgesInv'
  BY <1>3, <1>a DEF NextMessage, TypeOK, taskVars, AgesInv, OrphanOnlyIfExpired, Swept, Registered, Sweeping, Idle, Task
<1>4. ASSUME NEW m \in Message, Receive(m)
      PROVE  AgesInv'
  BY <1>4, <1>a DEF Receive, TypeOK, taskVars, AgesInv, OrphanOnlyIfExpired, Swept, Registered, Sweeping, Idle, Task
<1>5. ASSUME NEW t \in Task, Ignore(t)
      PROVE  AgesInv'
  BY <1>5, <1>a DEF Ignore, TypeOK, taskVars, AgesInv, OrphanOnlyIfExpired, Swept, Registered, Sweeping, Idle, Task
<1>6. ASSUME NEW t \in Task, GetOrCreate(t)
      PROVE  AgesInv'
  <2> DEFINE k == msg[t].addr
  <2>1. /\ Registered' = Registered \cup {k}
        /\ \A j \in Registered : registry'[j] = registry[j] /\ heard'[j] = heard[j]
        /\ k \notin Registered =>
             registry'[k] = NewAircraft(k, now[t]) /\ heard'[k] = clock
    BY <1>6, GetOrCreateEffect
  <2>2. NewAircraft(k, now[t]).seen = now[t]
    BY DEF NewAircraft
  <2>3. /\ now[t] <= clock
        /\ clock <= now[t] + MaxLag
        /\ now["main"] <= clock
    BY <1>6 DEF TimesInv, Busy, GetOrCreate, Task
  <2>4. /\ UNCHANGED <<clock, now, orphan, todo>>
        /\ ~Sweeping
        /\ ~Sweeping'
        /\ pc'["main"] = "read" => pc["main"] = "read"
    BY <1>6 DEF GetOrCreate, Sweeping, TypeOK, Task
  <2> HIDE DEF k
  <2>5. \A j \in Registered' : heard'[j] <= registry'[j].seen + MaxLag
    BY <1>a, <2>1, <2>2, <2>3 DEF AgesInv
  <2>6. \A j \in Swept' : now'["main"] < registry'[j].seen + TRACK_EXPIRE
    BY <1>a, <2>1, <2>2, <2>3, <2>4 DEF AgesInv, Swept, Task
  <2> QED
    BY <2>4, <2>5, <2>6 DEF AgesInv, OrphanOnlyIfExpired
<1>7. ASSUME NEW t \in Task, Apply(t)
      PROVE  AgesInv'
  <2>1. /\ Registered' = Registered
        /\ \A j \in Registered :
             \/ registry'[j] = registry[j] /\ heard'[j] = heard[j]
             \/ /\ registry[j] \in AircraftType(Address)
                /\ msg[t] \in MessageType(Address)
                /\ registry'[j] = Update(registry[j], msg[t], now[t])
                /\ heard'[j] = clock
    BY <1>7, ApplyEffect
  <2>2. \A j \in Registered :
          \/ registry'[j] = registry[j] /\ heard'[j] = heard[j]
          \/ registry'[j].seen = now[t] /\ heard'[j] = clock
    BY <1>a, <2>1, UpdateEffect
  <2>3. /\ now[t] <= clock
        /\ clock <= now[t] + MaxLag
        /\ now["main"] <= clock
    BY <1>7 DEF TimesInv, Busy, Apply, Task
  <2>4. /\ UNCHANGED <<clock, now, todo>>
        /\ Sweeping' = Sweeping
        /\ pc'["main"] = "read" <=> pc["main"] = "read"
        /\ \A s \in Task : orphan'[s] \in {NoAircraft, orphan[s]}
    BY <1>7 DEF Apply, Sweeping, TypeOK, Task, Idle
  <2>5. \A j \in Registered' : heard'[j] <= registry'[j].seen + MaxLag
    BY <1>a, <2>1, <2>2, <2>3 DEF AgesInv
  <2>6. \A j \in Swept' : now'["main"] < registry'[j].seen + TRACK_EXPIRE
    BY <1>a, <2>1, <2>2, <2>3, <2>4 DEF AgesInv, Swept, Task
  <2> QED
    BY <2>4, <2>5, <2>6 DEF AgesInv, OrphanOnlyIfExpired
<1>8. ASSUME BeginSweep
      PROVE  AgesInv'
  BY <1>8, <1>a DEF BeginSweep, TypeOK, taskVars, AgesInv, OrphanOnlyIfExpired, Swept, Registered, Sweeping, Idle, Task
<1>9. ASSUME NEW k \in Address, SweepKeep(k)
      PROVE  AgesInv'
  BY <1>9, <1>a DEF SweepKeep, Retained, AgesInv, OrphanOnlyIfExpired, Swept, Registered, Sweeping, Task
<1>10. ASSUME NEW k \in Address, SweepRemove(k)
      PROVE  AgesInv'
  <2>1. /\ Registered' = Registered \ {k}
        /\ \A j \in Registered' : registry'[j] = registry[j]
        /\ UNCHANGED <<clock, now, heard>>
        /\ Sweeping /\ Sweeping'
        /\ todo' = todo \ {k}
        /\ k \in Registered
    BY <1>10 DEF SweepRemove, Registered, TypeOK, Sweeping, PlacesInv
  <2>2. registry[k].seen + TRACK_EXPIRE <= clock
    <3>1. now["main"] <= clock /\ now["main"] \in Nat
      BY <1>a DEF TimesInv, Task
    <3>2. ~(now["main"] < registry[k].seen + TRACK_EXPIRE)
      BY <1>10 DEF SweepRemove, Retained
    <3> QED
      BY <1>a, <2>1, <3>1, <3>2
  <2>3. \A s \in Task : orphan'[s] \in {orphan[s], registry[k]}
    BY <1>10 DEF SweepRemove
  <2>4. Swept' \subseteq Swept
    BY <2>1 DEF Swept, Sweeping
  <2> QED
    BY <2>1, <2>2, <2>3, <2>4 DEF AgesInv, OrphanOnlyIfExpired, Task, Swept, Sweeping
<1>11. ASSUME EndSweep
      PROVE  AgesInv'
  BY <1>11, <1>a DEF EndSweep, TypeOK, taskVars, AgesInv, OrphanOnlyIfExpired, Swept, Registered, Sweeping, Idle, Task
<1>12. ASSUME NEW r \in Reader, BeginReport(r)
      PROVE  AgesInv'
  BY <1>12, <1>a DEF BeginReport, TypeOK, taskVars, AgesInv, OrphanOnlyIfExpired, Swept, Registered, Sweeping, Idle, Task
<1>13. ASSUME NEW r \in Reader, NEW k \in Address, CopyAircraft(r, k)
      PROVE  AgesInv'
  BY <1>13, <1>a DEF CopyAircraft, TypeOK, taskVars, AgesInv, OrphanOnlyIfExpired, Swept, Registered, Sweeping, Idle, Task
<1>14. ASSUME NEW r \in Reader, EndReport(r)
      PROVE  AgesInv'
  BY <1>14, <1>a DEF EndReport, TypeOK, taskVars, AgesInv, OrphanOnlyIfExpired, Swept, Registered, Sweeping, Idle, Task
<1>15. CASE UNCHANGED vars
  BY <1>15, <1>a DEF vars, TypeOK, taskVars, AgesInv, OrphanOnlyIfExpired, Swept, Registered, Sweeping, Idle, Task
<1> QED
  BY <1>1, <1>2, <1>3, <1>4, <1>5, <1>6, <1>7, <1>8, <1>9, <1>10, <1>11, <1>12, <1>13, <1>14, <1>15 DEF Next

-----------------------------------------------------------------------------
(* The altitude difference: an update leaves it right for every later      *)
(* observer, and between updates time only makes altitudes invalid.        *)
DeltaRight(a, c) ==
  /\ IsValid(a.valid["baro_alt"], c, TRACK_EXPIRE)
  /\ IsValid(a.valid["geom_alt"], c, TRACK_EXPIRE)
  => a.geom_delta = a.value["geom_alt"] - a.value["baro_alt"]

LEMMA DeltaRightLater ==
  ASSUME NEW a \in AircraftType(Address), NEW c \in Nat, DeltaRight(a, c)
  PROVE  DeltaRight(a, c + 1)
<1>1. /\ a.valid["baro_alt"] \in Validity
      /\ a.valid["geom_alt"] \in Validity
      /\ TRACK_EXPIRE \in Int
  BY ExpireAssumption DEF AircraftType, Checked
<1> QED
  BY <1>1, ValidEarlier DEF DeltaRight

LEMMA DeltaInit == Init => DeltaConsistent
BY DEF Init, DeltaConsistent, Registered

LEMMA DeltaStep ==
  ASSUME TypeOK, PlacesInv, TimesInv, DeltaConsistent, [Next]_vars
  PROVE  DeltaConsistent'
<1>a. \A k \in Registered : DeltaRight(registry[k], clock)
  BY DEF DeltaConsistent, DeltaRight
<1>b. SUFFICES \A j \in Registered' : DeltaRight(registry'[j], clock')
  BY DEF DeltaConsistent, DeltaRight
<1>c. ASSUME UNCHANGED <<registry, clock>>
      PROVE  \A j \in Registered' : DeltaRight(registry'[j], clock')
  BY <1>a, <1>c DEF Registered
<1>1. ASSUME Tick
      PROVE  \A j \in Registered' : DeltaRight(registry'[j], clock')
  <2>1. clock' = clock + 1 /\ registry' = registry /\ clock \in Nat
    BY <1>1 DEF Tick, TypeOK
  <2>2. \A k \in Registered : registry[k] \in AircraftType(Address)
    BY DEF TypeOK, Registered
  <2> QED
    BY <1>a, <2>1, <2>2, DeltaRightLater DEF Registered
<1>2. ASSUME NEW n \in 0 .. MaxBatch, ReadBuffer(n)
      PROVE  \A j \in Registered' : DeltaRight(registry'[j], clock')
  BY <1>2, <1>c DEF ReadBuffer
<1>3. ASSUME NEW m \in Message, NextMessage(m)
      PROVE  \A j \in Registered' : DeltaRight(registry'[j], clock')
  BY <1>3, <1>c DEF NextMessage
<1>4. ASSUME NEW m \in Message, Receive(m)
      PROVE  \A j \in Registered' : DeltaRight(registry'[j], clock')
  BY <1>4, <1>c DEF Receive
<1>5. ASSUME NEW t \in Task, Ignore(t)
      PROVE  \A j \in Registered' : DeltaRight(registry'[j], clock')
  BY <1>5, <1>c DEF Ignore
<1>6. ASSUME NEW t \in Task, GetOrCreate(t)
      PROVE  \A j \in Registered' : DeltaRight(registry'[j], clock')
  <2> DEFINE k == msg[t].addr
  <2>1. /\ Registered' = Registered \cup {k}
        /\ \A j \in Registered : registry'[j] = registry[j]
        /\ k \notin Registered => registry'[k] = NewAircraft(k, now[t])
        /\ clock' = clock
    BY <1>6, GetOrCreateEffect DEF GetOrCreate
  <2>2. DeltaRight(NewAircraft(k, now[t]), clock)
    BY DEF DeltaRight, NewAircraft, NewValidity, IsValid, Checked
  <2> HIDE DEF k
  <2> QED
    BY <1>a, <2>1, <2>2
<1>7. ASSUME NEW t \in Task, Apply(t)
      PROVE  \A j \in Registered' : DeltaRight(registry'[j], clock')
  <2>1. /\ Registered' = Registered
        /\ \A j \in Registered :
             \/ registry'[j] = registry[j]
             \/ /\ registry[j] \in AircraftType(Address)
                /\ msg[t] \in MessageType(Address)
                /\ registry'[j] = Update(registry[j], msg[t], now[t])
    BY <1>7, ApplyEffect
  <2>2. clock' = clock /\ clock \in Int /\ now[t] \in Int /\ now[t] <= clock
    BY <1>7 DEF Apply, TypeOK, TimesInv
  <2>3. ASSUME NEW a \in AircraftType(Address), NEW m \in MessageType(Address)
        PROVE  DeltaRight(Update(a, m, now[t]), clock)
    BY <2>2, UpdateEffect DEF DeltaRight
  <2> QED
    BY <1>a, <2>1, <2>2, <2>3
<1>8. ASSUME BeginSweep
      PROVE  \A j \in Registered' : DeltaRight(registry'[j], clock')
  BY <1>8, <1>c DEF BeginSweep
<1>9. ASSUME NEW k \in Address, SweepKeep(k)
      PROVE  \A j \in Registered' : DeltaRight(registry'[j], clock')
  BY <1>9, <1>c DEF SweepKeep
<1>10. ASSUME NEW k \in Address, SweepRemove(k)
      PROVE  \A j \in Registered' : DeltaRight(registry'[j], clock')
  BY <1>10, <1>a DEF SweepRemove, Registered, TypeOK
<1>11. ASSUME EndSweep
      PROVE  \A j \in Registered' : DeltaRight(registry'[j], clock')
  BY <1>11, <1>c DEF EndSweep
<1>12. ASSUME NEW r \in Reader, BeginReport(r)
      PROVE  \A j \in Registered' : DeltaRight(registry'[j], clock')
  BY <1>12, <1>c DEF BeginReport
<1>13. ASSUME NEW r \in Reader, NEW k \in Address, CopyAircraft(r, k)
      PROVE  \A j \in Registered' : DeltaRight(registry'[j], clock')
  BY <1>13, <1>c DEF CopyAircraft
<1>14. ASSUME NEW r \in Reader, EndReport(r)
      PROVE  \A j \in Registered' : DeltaRight(registry'[j], clock')
  BY <1>14, <1>c DEF EndReport
<1>15. CASE UNCHANGED vars
  BY <1>15, <1>c DEF vars, vars
<1> QED
  BY <1>1, <1>2, <1>3, <1>4, <1>5, <1>6, <1>7, <1>8, <1>9, <1>10, <1>11, <1>12, <1>13, <1>14, <1>15 DEF Next

-----------------------------------------------------------------------------
(* Iterations hold the map's read lock: no sweep runs under them, and what *)
(* they copied and still have to copy is the registry.                     *)
ReadersInv ==
  \A r \in Iterating : ~Sweeping /\ rtodo[r] \cup report[r] = Registered

LEMMA ReadersInit == Init => ReadersInv
BY DEF Init, ReadersInv, Iterating

LEMMA ReadersStep ==
  ASSUME TypeOK, PlacesInv, ReadersInv, [Next]_vars
  PROVE  ReadersInv'
<1>a. pc["incoming"] # "sweep" /\ "main" \in Task
  BY DEF PlacesInv, Task
<1>b. ASSUME UNCHANGED <<rpc, rtodo, report>>, Registered' = Registered, Sweeping' => Sweeping
      PROVE  ReadersInv'
  BY <1>b DEF ReadersInv, Iterating
<1>1. ASSUME Tick
      PROVE  ReadersInv'
  BY <1>1, <1>a, <1>b DEF Tick, taskVars, readerVars, Registered, Sweeping, Idle, TypeOK
<1>2. ASSUME NEW n \in 0 .. MaxBatch, ReadBuffer(n)
      PROVE  ReadersInv'
  BY <1>2, <1>a, <1>b DEF ReadBuffer, taskVars, readerVars, Registered, Sweeping, Idle, TypeOK
<1>3. ASSUME NEW m \in Message, NextMessage(m)
      PROVE  ReadersInv'
  BY <1>3, <1>a, <1>b DEF NextMessage, taskVars, readerVars, Registered, Sweeping, Idle, TypeOK
<1>4. ASSUME NEW m \in Message, Receive(m)
      PROVE  ReadersInv'
  BY <1>4, <1>a, <1>b DEF Receive, taskVars, readerVars, Registered, Sweeping, Idle, TypeOK
<1>5. ASSUME NEW t \in Task, Ignore(t)
      PROVE  ReadersInv'
  BY <1>5, <1>a, <1>b DEF Ignore, taskVars, readerVars, Registered, Sweeping, Idle, TypeOK
<1>6. ASSUME NEW t \in Task, GetOrCreate(t)
      PROVE  ReadersInv'
  BY <1>6 DEF GetOrCreate, ReadersInv, Iterating, readerVars
<1>7. ASSUME NEW t \in Task, Apply(t)
      PROVE  ReadersInv'
  <2>1. Registered' = Registered
    BY <1>7, ApplyEffect
  <2> QED
    BY <1>7, <1>a, <1>b, <2>1 DEF Apply, readerVars, Sweeping, Idle, TypeOK
<1>8. ASSUME BeginSweep
      PROVE  ReadersInv'
  BY <1>8 DEF BeginSweep, ReadersInv, Iterating, readerVars
<1>9. ASSUME NEW k \in Address, SweepKeep(k)
      PROVE  ReadersInv'
  BY <1>9, <1>a, <1>b DEF SweepKeep, taskVars, readerVars, Registered, Sweeping, Idle, TypeOK
<1>10. ASSUME NEW k \in Address, SweepRemove(k)
      PROVE  ReadersInv'
  BY <1>10 DEF SweepRemove, ReadersInv, Iterating, Sweeping, readerVars
<1>11. ASSUME EndSweep
      PROVE  ReadersInv'
  BY <1>11, <1>a, <1>b DEF EndSweep, taskVars, readerVars, Registered, Sweeping, Idle, TypeOK
<1>12. ASSUME NEW r \in Reader, BeginReport(r)
      PROVE  ReadersInv'
  BY <1>12, <1>a DEF BeginReport, TypeOK, ReadersInv, Iterating, Registered, Sweeping, taskVars, readerVars
<1>13. ASSUME NEW r \in Reader, NEW k \in Address, CopyAircraft(r, k)
      PROVE  ReadersInv'
  BY <1>13, <1>a DEF CopyAircraft, TypeOK, ReadersInv, Iterating, Registered, Sweeping, taskVars, readerVars
<1>14. ASSUME NEW r \in Reader, EndReport(r)
      PROVE  ReadersInv'
  BY <1>14, <1>a DEF EndReport, TypeOK, ReadersInv, Iterating, Registered, Sweeping, taskVars, readerVars
<1>15. CASE UNCHANGED vars
  BY <1>15, <1>a DEF vars, TypeOK, ReadersInv, Iterating, Registered, Sweeping, taskVars, readerVars
<1> QED
  BY <1>1, <1>2, <1>3, <1>4, <1>5, <1>6, <1>7, <1>8, <1>9, <1>10, <1>11, <1>12, <1>13, <1>14, <1>15 DEF Next

-----------------------------------------------------------------------------
(* The inductive invariant, and what follows from it.                      *)
IInv == TypeOK /\ TimesInv /\ PlacesInv /\ ReadersInv /\ AgesInv /\ DeltaConsistent

LEMMA IInvInit == Init => IInv
BY TypeInit, TimesInit, PlacesInit, ReadersInit, AgesInit, DeltaInit DEF IInv

LEMMA IInvStep == IInv /\ [Next]_vars => IInv'
<1> SUFFICES ASSUME IInv, [Next]_vars
             PROVE  IInv'
  OBVIOUS
<1>1. TypeOK /\ TimesInv /\ PlacesInv /\ ReadersInv /\ AgesInv /\ DeltaConsistent
  BY DEF IInv
<1>2. TypeOK'           BY <1>1, TypeStep
<1>3. TimesInv'         BY <1>1, TimesStep
<1>4. PlacesInv'        BY <1>1, PlacesStep
<1>5. ReadersInv'       BY <1>1, ReadersStep
<1>6. AgesInv'          BY <1>1, AgesStep
<1>7. DeltaConsistent'  BY <1>1, DeltaStep
<1> QED
  BY <1>2, <1>3, <1>4, <1>5, <1>6, <1>7 DEF IInv

LEMMA Invariance == Spec => []IInv
BY IInvInit, IInvStep, PTL DEF Spec

(* Every reachable state is well typed.                                    *)
THEOREM TypeCorrect == Spec => []TypeOK
<1>1. IInv => TypeOK
  BY DEF IInv
<1> QED
  BY <1>1, Invariance, PTL

(* Records stay under their own address, ignored addresses are never       *)
(* tracked, and only the main task removes aircraft.                       *)
THEOREM RecordsStayInPlace == Spec => []RecordsInPlace
<1>1. IInv => RecordsInPlace
  BY DEF IInv, PlacesInv
<1> QED
  BY <1>1, Invariance, PTL

(* The race of an update with the removal of its aircraft only loses       *)
(* updates of aircraft that were silent for TRACK_EXPIRE.                  *)
THEOREM LostUpdatesAreLate == Spec => []OrphanOnlyIfExpired
<1>1. IInv => OrphanOnlyIfExpired
  BY DEF IInv, AgesInv
<1> QED
  BY <1>1, Invariance, PTL

(* After a sweep nothing stale is left, for any number of aircraft and any *)
(* lag below TRACK_EXPIRE.                                                 *)
THEOREM SweepsAreComplete == Spec => []SweepLeavesNoStale
<1>1. IInv => SweepLeavesNoStale
  BY DEF IInv, AgesInv, Swept, SweepLeavesNoStale
<1> QED
  BY <1>1, Invariance, PTL

(* A geom_delta seen with two valid altitudes is their difference.         *)
THEOREM DeltaIsConsistent == Spec => []DeltaConsistent
<1>1. IInv => DeltaConsistent
  BY DEF IInv
<1> QED
  BY <1>1, Invariance, PTL

(* A finished iteration has reported exactly the registered aircraft.      *)
THEOREM ReportsAreComplete == Spec => []ReportCoversRegistry
<1>1. IInv => ReportCoversRegistry
  BY DEF IInv, ReadersInv, ReportCoversRegistry
<1> QED
  BY <1>1, Invariance, PTL

-----------------------------------------------------------------------------
(* Only SweepRemove takes an aircraft out of the registry.                 *)
LEMMA Removal ==
  ASSUME IInv, [Next]_vars, NEW k \in Registered, k \notin Registered'
  PROVE  SweepRemove(k)
<1>1. TypeOK /\ PlacesInv
  BY DEF IInv
<1>2. ASSUME NEW t \in Task, GetOrCreate(t)  PROVE FALSE
  BY <1>1, <1>2, GetOrCreateEffect
<1>3. ASSUME NEW t \in Task, Apply(t)  PROVE FALSE
  BY <1>1, <1>3, ApplyEffect
<1>4. ASSUME NEW j \in Address, SweepRemove(j)  PROVE SweepRemove(k)
  BY <1>1, <1>4 DEF SweepRemove, Registered, TypeOK
<1>5. registry' # registry
  BY DEF Registered
<1> QED
  BY <1>2, <1>3, <1>4, <1>5
  DEF Next, vars, Tick, ReadBuffer, NextMessage, Receive, Ignore, BeginSweep, SweepKeep,
      EndSweep, BeginReport, CopyAircraft, EndReport

(* An aircraft disappears only after a silence of TRACK_EXPIRE less MaxLag. *)
THEOREM ExpiryIsJustified == Spec => ExpiryNeedsSilence
<1>1. ASSUME IInv, [Next]_vars, NEW k \in Address,
             registry[k] # NoAircraft, registry'[k] = NoAircraft
      PROVE  heard[k] + TRACK_EXPIRE <= clock + MaxLag
  <2>1. k \in Registered /\ k \notin Registered'
    BY <1>1 DEF Registered
  <2>2. SweepRemove(k)
    BY <1>1, <2>1, Removal
  <2>3. /\ registry[k].seen \in Int /\ heard[k] \in Nat
        /\ clock \in Nat /\ now["main"] \in Nat
    BY <1>1, <2>1 DEF IInv, TypeOK, Registered, AircraftType, Task
  <2>4. heard[k] <= registry[k].seen + MaxLag /\ now["main"] <= clock
    BY <1>1, <2>1 DEF IInv, AgesInv, TimesInv, Task
  <2>5. ~(now["main"] < registry[k].seen + TRACK_EXPIRE)
    BY <2>2 DEF SweepRemove, Retained
  <2> QED
    BY <2>3, <2>4, <2>5, TrackerAssumption, ExpireAssumption
<1>2. IInv /\ [Next]_vars =>
        [\A k \in Address :
           registry[k] # NoAircraft /\ registry'[k] = NoAircraft
             => heard[k] + TRACK_EXPIRE <= clock + MaxLag]_vars
  BY <1>1
<1> QED
  BY <1>2, Invariance, PTL DEF Spec, ExpiryNeedsSilence

-----------------------------------------------------------------------------
(* Tracker implements AircraftTable: Tick advances the clock, creating an  *)
(* aircraft and applying a message to it are Appear and Hear, a removal is *)
(* Forget, and every other step is a stutter.                              *)
LEMMA EntriesUnchanged ==
  ASSUME UNCHANGED registry
  PROVE  entries' = entries
BY DEF entries, Entry

LEMMA TableStep ==
  ASSUME IInv, [Next]_vars
  PROVE  [Table!Next]_<<clock, entries>>
<1> USE TrackerAssumption
<1>1. /\ TypeOK /\ PlacesInv /\ TimesInv
      /\ clock \in Nat
      /\ \A t \in Task : now[t] \in Nat
  BY DEF IInv, TypeOK
<1>2. ASSUME UNCHANGED <<clock, registry>>
      PROVE  [Table!Next]_<<clock, entries>>
  BY <1>2, EntriesUnchanged
<1>3. CASE Tick
  BY <1>3, EntriesUnchanged DEF Tick, Table!Next, Table!Advance
<1>4. ASSUME NEW t \in Task, GetOrCreate(t)
      PROVE  [Table!Next]_<<clock, entries>>
  <2> DEFINE k == msg[t].addr
  <2>1. k \in Address
    BY <1>1, <1>4, GetOrCreateEffect
  <2>2. CASE registry[k] = NoAircraft
    <3>1. /\ registry' = [registry EXCEPT ![k] = NewAircraft(k, now[t])]
          /\ clock' = clock
      BY <1>4, <2>2 DEF GetOrCreate
    <3>2. NewAircraft(k, now[t]) # NoAircraft
      BY <1>1, <2>1, NewAircraftType
    <3>3. /\ NewAircraft(k, now[t]).seen = now[t]
          /\ NewAircraft(k, now[t]).messages = 0
      BY DEF NewAircraft
    <3>4. now[t] \in (clock - MaxLag) .. clock
      BY <1>1, <1>4 DEF TimesInv, Busy, GetOrCreate
    <3>5. entries[k] = NoAircraft
      BY <2>1, <2>2 DEF entries, Entry
    <3> HIDE DEF k
    <3>6. entries' = [entries EXCEPT ![k] = [seen |-> now[t], messages |-> 0]]
      BY <1>1, <2>1, <3>1, <3>2, <3>3 DEF entries, Entry, TypeOK
    <3>7. Table!Appear(k)
      BY <3>1, <3>4, <3>5, <3>6 DEF Table!Appear
    <3> QED
      BY <2>1, <3>7 DEF Table!Next
  <2>3. CASE registry[k] # NoAircraft
    BY <1>2, <1>4, <2>3 DEF GetOrCreate
  <2> QED
    BY <2>2, <2>3
<1>5. ASSUME NEW t \in Task, Apply(t)
      PROVE  [Table!Next]_<<clock, entries>>
  <2> DEFINE k == msg[t].addr
             u == Update(registry[k], msg[t], now[t])
  <2>1. k \in Address /\ msg[t] \in MessageType(Address)
    BY <1>1, <1>5, MessageFacts DEF Apply, PlacesInv
  <2>2. CASE orphan[t] = NoAircraft
    <3>1. registry' = [registry EXCEPT ![k] = u] /\ clock' = clock
      BY <1>5, <2>2 DEF Apply
    <3>2. registry[k] \in AircraftType(Address) /\ registry[k] # NoAircraft
      BY <1>1, <1>5, <2>1, <2>2 DEF Apply, PlacesInv, RecordsInPlace, Registered, TypeOK
    <3>3. /\ u \in AircraftType(Address)
          /\ u.seen = now[t]
          /\ u.messages = registry[k].messages + 1
      BY <1>1, <2>1, <3>2, UpdateType, UpdateEffect
    <3>4. now[t] \in (clock - MaxLag) .. clock
      BY <1>1, <1>5 DEF TimesInv, Busy, Apply
    <3>5. entries[k].messages = registry[k].messages
      BY <2>1, <3>2 DEF entries, Entry
    <3>6. entries[k] # NoAircraft
      <4>1. registry[k].seen \in Int /\ registry[k].messages \in Nat
        BY <3>2 DEF AircraftType
      <4>2. entries[k] = [seen |-> registry[k].seen, messages |-> registry[k].messages]
        BY <2>1, <3>2 DEF entries, Entry
      <4> QED
        BY <4>1, <4>2
    <3> HIDE DEF k, u
    <3>7. entries' = [entries EXCEPT ![k] = [seen |-> now[t], messages |-> entries[k].messages + 1]]
      BY <1>1, <2>1, <3>1, <3>3, <3>5 DEF entries, Entry, TypeOK
    <3>8. Table!Hear(k)
      BY <3>1, <3>4, <3>6, <3>7 DEF Table!Hear
    <3> QED
      BY <2>1, <3>8 DEF Table!Next
  <2>3. CASE orphan[t] # NoAircraft
    BY <1>2, <1>5, <2>3 DEF Apply
  <2> QED
    BY <2>2, <2>3
<1>6. ASSUME NEW k \in Address, SweepRemove(k)
      PROVE  [Table!Next]_<<clock, entries>>
  <2>1. /\ registry' = [registry EXCEPT ![k] = NoAircraft] /\ clock' = clock
        /\ registry[k] # NoAircraft
        /\ registry[k] \in AircraftType(Address)
    BY <1>1, <1>6 DEF SweepRemove, PlacesInv, Registered, TypeOK
  <2>2. registry[k].seen \in Int /\ registry[k].messages \in Nat
    BY <2>1 DEF AircraftType
  <2>3. entries[k] = [seen |-> registry[k].seen, messages |-> registry[k].messages]
    BY <2>1 DEF entries, Entry
  <2>4. registry[k].seen + TRACK_EXPIRE <= clock
    <3>1. ~(now["main"] < registry[k].seen + TRACK_EXPIRE)
      BY <1>6 DEF SweepRemove, Retained
    <3>2. now["main"] \in Nat /\ now["main"] <= clock
      BY <1>1 DEF TimesInv, Task
    <3> QED
      BY <1>1, <2>2, <3>1, <3>2, ExpireAssumption
  <2>5. entries' = [entries EXCEPT ![k] = NoAircraft]
    BY <1>1, <2>1 DEF entries, Entry, TypeOK
  <2>6. Table!Forget(k)
    BY <2>1, <2>2, <2>3, <2>4, <2>5 DEF Table!Forget
  <2> QED
    BY <2>6 DEF Table!Next
<1> QED
  BY <1>2, <1>3, <1>4, <1>5, <1>6
  DEF Next, vars, taskVars, readerVars, ReadBuffer, NextMessage, Receive, Ignore, BeginSweep,
      SweepKeep, EndSweep, BeginReport, CopyAircraft, EndReport

(* The tasks, their locks and their records implement the plain table.     *)
THEOREM TrackerImplementsTable == Spec => ImplementsTable
<1>1. Init => Table!Init
  BY DEF Init, Table!Init, entries, Entry
<1>2. IInv /\ [Next]_vars => [Table!Next]_<<clock, entries>>
  BY TableStep
<1> QED
  BY <1>1, <1>2, Invariance, PTL DEF Spec, ImplementsTable, Table!Spec

=============================================================================

------------------------------ MODULE Tracker -------------------------------
(***************************************************************************)
(* The shared aircraft registry and the tasks of the program that use it   *)
(* (tracking/tracker.rs, tracking/aircraft.rs, main.rs):                   *)
(*                                                                         *)
(*   "main"      the sample loop: per buffer it takes one time stamp,      *)
(*               feeds every decoded message, then removes stale aircraft; *)
(*   "incoming"  the consumer of messages from network clients: one time   *)
(*               stamp per message, never removes anything;                *)
(*   Reader      the periodic SBS and JSON tasks, which copy all aircraft. *)
(*                                                                         *)
(* Steps are the critical sections of the two kinds of RwLock.  The lock   *)
(* of the map is held over several steps by a sweep (write) and by an      *)
(* iteration (read); the lock of one aircraft never is, so it needs no     *)
(* state.  Between get_or_create and the update a task owns only an Arc:   *)
(* when the aircraft is swept meanwhile, that record lives on as orphan[t] *)
(* and is dropped by the task after the update.                            *)
(***************************************************************************)
EXTENDS Aircraft, FiniteSets

CONSTANTS
  Address,       (* 24-bit addresses messages may carry                     *)
  BadAddress,    (* those the tracker ignores: 0 and 0xFFFFFF               *)
  Message,       (* messages that passed the CRC check                      *)
  Reader,        (* the SBS and the JSON task                               *)
  NoAircraft,
  MaxBatch,      (* bound: messages decoded from one sample buffer          *)
  MaxLag,        (* bound: time from a task's time stamp to its last use    *)
  MaxClock,      (* bound on the clock                                      *)
  MaxMessages    (* bound on the message counter of one aircraft            *)

Task == {"main", "incoming"}

ASSUME TrackerAssumption ==
  /\ BadAddress \subseteq Address
  /\ Message \subseteq MessageType(Address)
  /\ NoAircraft \notin AircraftType(Address) \cup [seen : Int, messages : Nat]
  /\ MaxBatch \in Nat
  /\ MaxLag \in Nat
  /\ MaxLag < TRACK_EXPIRE
  /\ MaxClock \in Nat
  /\ MaxMessages \in Nat

VARIABLES
  clock,      (* SystemTime::now(), taken to be monotonic                   *)
  registry,   (* AircraftRegistry.aircraft                                  *)
  pc,         (* where each task is                                         *)
  msg,        (* the message a task is working on                           *)
  now,        (* the time stamp a task captured last                        *)
  orphan,     (* a swept aircraft that a task still holds an Arc of         *)
  left,       (* messages of the current buffer not yet fed                 *)
  todo,       (* aircraft the current sweep has not looked at               *)
  rpc,        (* where each reader is                                       *)
  rtodo,      (* aircraft its iteration has not copied                      *)
  report,     (* aircraft its iteration has copied                          *)
  heard       (* history: when a message last reached the registered record *)

taskVars   == <<pc, msg, now, orphan, left, todo>>
readerVars == <<rpc, rtodo, report>>
vars == <<clock, registry, taskVars, readerVars, heard>>

Registered == {k \in Address : registry[k] # NoAircraft}
Sweeping   == pc["main"] = "sweep"
Iterating  == {r \in Reader : rpc[r] = "iter"}
Idle(t)    == IF t = "main" THEN "batch" ELSE "recv"
Busy(t)    == pc[t] \notin {"read", "recv"}

TypeOK ==
  /\ clock \in Nat
  /\ registry \in [Address -> AircraftType(Address) \cup {NoAircraft}]
  /\ pc \in [Task -> {"read", "batch", "recv", "lookup", "apply", "sweep"}]
  /\ msg \in [Task -> Message \cup {NoAircraft}]
  /\ now \in [Task -> Nat]
  /\ orphan \in [Task -> AircraftType(Address) \cup {NoAircraft}]
  /\ left \in 0 .. MaxBatch
  /\ todo \in SUBSET Address
  /\ rpc \in [Reader -> {"wait", "iter"}]
  /\ rtodo \in [Reader -> SUBSET Address]
  /\ report \in [Reader -> SUBSET Address]
  /\ heard \in [Address -> Nat]

Init ==
  /\ clock = 0
  /\ registry = [k \in Address |-> NoAircraft]
  /\ pc = [t \in Task |-> IF t = "main" THEN "read" ELSE "recv"]
  /\ msg = [t \in Task |-> NoAircraft]
  /\ now = [t \in Task |-> 0]
  /\ orphan = [t \in Task |-> NoAircraft]
  /\ left = 0
  /\ todo = {}
  /\ rpc = [r \in Reader |-> "wait"]
  /\ rtodo = [r \in Reader |-> {}]
  /\ report = [r \in Reader |-> {}]
  /\ heard = [k \in Address |-> 0]

-----------------------------------------------------------------------------
(* Time passes; MaxLag bounds how long a task works with one time stamp.   *)
Tick ==
  /\ clock < MaxClock
  /\ \A t \in Task : Busy(t) => clock < now[t] + MaxLag
  /\ clock' = clock + 1
  /\ UNCHANGED <<registry, taskVars, readerVars, heard>>

(* read_samples returned a buffer, n messages were decoded from it.        *)
ReadBuffer(n) ==
  /\ pc["main"] = "read"
  /\ pc' = [pc EXCEPT !["main"] = "batch"]
  /\ now' = [now EXCEPT !["main"] = clock]
  /\ left' = n
  /\ UNCHANGED <<clock, registry, msg, orphan, todo, readerVars, heard>>

WithinBound(m) ==
  registry[m.addr] # NoAircraft => registry[m.addr].messages < MaxMessages

(* The main task turns to the next message of its buffer.                  *)
NextMessage(m) ==
  /\ pc["main"] = "batch"
  /\ left > 0
  /\ WithinBound(m)
  /\ pc' = [pc EXCEPT !["main"] = "lookup"]
  /\ msg' = [msg EXCEPT !["main"] = m]
  /\ left' = left - 1
  /\ UNCHANGED <<clock, registry, now, orphan, todo, readerVars, heard>>

(* A message from a network client; its time stamp is taken here.          *)
Receive(m) ==
  /\ pc["incoming"] = "recv"
  /\ WithinBound(m)
  /\ pc' = [pc EXCEPT !["incoming"] = "lookup"]
  /\ msg' = [msg EXCEPT !["incoming"] = m]
  /\ now' = [now EXCEPT !["incoming"] = clock]
  /\ UNCHANGED <<clock, registry, orphan, left, todo, readerVars, heard>>

(* update_from_message returns None.                                       *)
Ignore(t) ==
  /\ pc[t] = "lookup"
  /\ msg[t].addr \in BadAddress
  /\ pc' = [pc EXCEPT ![t] = Idle(t)]
  /\ msg' = [msg EXCEPT ![t] = NoAircraft]
  /\ UNCHANGED <<clock, registry, now, orphan, left, todo, readerVars, heard>>

GetOrCreate_AnyAddress(t) ==        \* mutant: no test for 0 and 0xFFFFFF
  LET k == msg[t].addr IN
  /\ pc[t] = "lookup"
  /\ ~Sweeping
  /\ Iterating = {}
  /\ registry[k] = NoAircraft
  /\ registry' = [registry EXCEPT ![k] = NewAircraft(k, now[t])]
  /\ heard' = [heard EXCEPT ![k] = clock]
  /\ pc' = [pc EXCEPT ![t] = "apply"]
  /\ UNCHANGED <<clock, msg, now, orphan, left, todo, readerVars>>

GetOrCreate_Insert(t) ==            \* mutant: insert instead of entry().or_insert
  LET k == msg[t].addr IN
  /\ pc[t] = "lookup"
  /\ k \notin BadAddress
  /\ ~Sweeping
  /\ Iterating = {}
  /\ registry' = [registry EXCEPT ![k] = NewAircraft(k, now[t])]
  /\ heard' = [heard EXCEPT ![k] = clock]
  /\ pc' = [pc EXCEPT ![t] = "apply"]
  /\ UNCHANGED <<clock, msg, now, orphan, left, todo, readerVars>>

GetOrCreate_NoLock(t) ==            \* mutant: the map is not locked for writing
  LET k == msg[t].addr IN
  /\ pc[t] = "lookup"
  /\ k \notin BadAddress
  /\ ~Sweeping
  /\ IF registry[k] = NoAircraft
     THEN /\ registry' = [registry EXCEPT ![k] = NewAircraft(k, now[t])]
          /\ heard' = [heard EXCEPT ![k] = clock]
     ELSE UNCHANGED <<registry, heard>>
  /\ pc' = [pc EXCEPT ![t] = "apply"]
  /\ UNCHANGED <<clock, msg, now, orphan, left, todo, readerVars>>

(* get_or_create, under the map's write lock.                              *)
GetOrCreate(t) ==
  LET k == msg[t].addr IN
  /\ pc[t] = "lookup"
  /\ k \notin BadAddress
  /\ ~Sweeping
  /\ Iterating = {}
  /\ IF registry[k] = NoAircraft
     THEN /\ registry' = [registry EXCEPT ![k] = NewAircraft(k, now[t])]
          /\ heard' = [heard EXCEPT ![k] = clock]
     ELSE UNCHANGED <<registry, heard>>
  /\ pc' = [pc EXCEPT ![t] = "apply"]
  /\ UNCHANGED <<clock, msg, now, orphan, left, todo, readerVars>>

(* The update under the aircraft's write lock, to the record the task      *)
(* holds: the registered one, or one nobody else can reach any more.       *)
Apply(t) ==
  LET k == msg[t].addr IN
  /\ pc[t] = "apply"
  /\ IF orphan[t] = NoAircraft
     THEN /\ registry' = [registry EXCEPT ![k] = Update(@, msg[t], now[t])]
          /\ heard' = [heard EXCEPT ![k] = clock]
          /\ UNCHANGED orphan
     ELSE /\ orphan' = [orphan EXCEPT ![t] = NoAircraft]
          /\ UNCHANGED <<registry, heard>>
  /\ pc' = [pc EXCEPT ![t] = Idle(t)]
  /\ msg' = [msg EXCEPT ![t] = NoAircraft]
  /\ UNCHANGED <<clock, now, left, todo, readerVars>>

-----------------------------------------------------------------------------
(* remove_stale: HashMap::retain under the map's write lock, one aircraft  *)
(* lock at a time.                                                         *)
BeginSweep ==
  /\ pc["main"] = "batch"
  /\ left = 0
  /\ Iterating = {}
  /\ pc' = [pc EXCEPT !["main"] = "sweep"]
  /\ todo' = Registered
  /\ UNCHANGED <<clock, registry, msg, now, orphan, left, readerVars, heard>>

Retained_Early(a, n) == n + 1 < a.seen + TRACK_EXPIRE    \* mutant: one too soon
Retained_Late(a, n)  == n <= a.seen + TRACK_EXPIRE       \* mutant: one too late

Retained(a, n) == n < a.seen + TRACK_EXPIRE

SweepKeep(k) ==
  /\ Sweeping
  /\ k \in todo
  /\ Retained(registry[k], now["main"])
  /\ todo' = todo \ {k}
  /\ UNCHANGED <<clock, registry, pc, msg, now, orphan, left, readerVars, heard>>

SweepRemove(k) ==
  /\ Sweeping
  /\ k \in todo
  /\ ~Retained(registry[k], now["main"])
  /\ todo' = todo \ {k}
  /\ registry' = [registry EXCEPT ![k] = NoAircraft]
  /\ orphan' = [t \in Task |->
                  IF /\ pc[t] = "apply"
                     /\ msg[t].addr = k
                     /\ orphan[t] = NoAircraft
                  THEN registry[k] ELSE orphan[t]]
  /\ UNCHANGED <<clock, pc, msg, now, left, readerVars, heard>>

EndSweep_Again ==                   \* mutant: the sweep starts over
  /\ Sweeping
  /\ todo = {}
  /\ pc' = [pc EXCEPT !["main"] = "batch"]
  /\ UNCHANGED <<clock, registry, msg, now, orphan, left, todo, readerVars, heard>>

EndSweep ==
  /\ Sweeping
  /\ todo = {}
  /\ pc' = [pc EXCEPT !["main"] = "read"]
  /\ UNCHANGED <<clock, registry, msg, now, orphan, left, todo, readerVars, heard>>

-----------------------------------------------------------------------------
(* iter_aircraft: the map's read lock, then each aircraft's.               *)
BeginReport(r) ==
  /\ rpc[r] = "wait"
  /\ ~Sweeping
  /\ rpc' = [rpc EXCEPT ![r] = "iter"]
  /\ rtodo' = [rtodo EXCEPT ![r] = Registered]
  /\ report' = [report EXCEPT ![r] = {}]
  /\ UNCHANGED <<clock, registry, taskVars, heard>>

CopyAircraft(r, k) ==
  /\ rpc[r] = "iter"
  /\ k \in rtodo[r]
  /\ rtodo' = [rtodo EXCEPT ![r] = @ \ {k}]
  /\ report' = [report EXCEPT ![r] = @ \cup {k}]
  /\ UNCHANGED <<clock, registry, taskVars, rpc, heard>>

EndReport_Again(r) ==               \* mutant: iterates on without unlocking
  /\ rpc[r] = "iter"
  /\ rtodo[r] = {}
  /\ rtodo' = [rtodo EXCEPT ![r] = Registered]
  /\ report' = [report EXCEPT ![r] = {}]
  /\ UNCHANGED <<clock, registry, taskVars, rpc, heard>>

EndReport(r) ==
  /\ rpc[r] = "iter"
  /\ rtodo[r] = {}
  /\ rpc' = [rpc EXCEPT ![r] = "wait"]
  /\ report' = [report EXCEPT ![r] = {}]
  /\ UNCHANGED <<clock, registry, taskVars, rtodo, heard>>

-----------------------------------------------------------------------------
Next ==
  \/ Tick
  \/ \E n \in 0 .. MaxBatch : ReadBuffer(n)
  \/ \E m \in Message : NextMessage(m) \/ Receive(m)
  \/ \E t \in Task : Ignore(t) \/ GetOrCreate(t) \/ Apply(t)
  \/ BeginSweep
  \/ \E k \in Address : SweepKeep(k) \/ SweepRemove(k)
  \/ EndSweep
  \/ \E r \in Reader :
       \/ BeginReport(r)
       \/ \E k \in Address : CopyAircraft(r, k)
       \/ EndReport(r)

Spec == Init /\ [][Next]_vars

(* The runtime keeps polling every spawned task, and the futex RwLock lets *)
(* a waiting writer in, so a lock that is free again and again is got.     *)
(* Nothing is promised about buffers, clients, timers or time.             *)
Fairness ==
  /\ \A t \in Task : WF_vars(Ignore(t)) /\ SF_vars(GetOrCreate(t)) /\ WF_vars(Apply(t))
  /\ WF_vars(\E m \in Message : NextMessage(m))
  /\ SF_vars(BeginSweep)
  /\ WF_vars(\E k \in Address : SweepKeep(k) \/ SweepRemove(k))
  /\ WF_vars(EndSweep)
  /\ \A r \in Reader : WF_vars((\E k \in Address : CopyAircraft(r, k)) \/ EndReport(r))

FairSpec == Spec /\ Fairness

-----------------------------------------------------------------------------
(* Invariants                                                              *)

(* The address under which update_from_message keeps a record is the       *)
(* record's own, never an ignored one, and the main task, which alone      *)
(* removes aircraft, never holds a record that is out of the registry.     *)
RecordsInPlace ==
  /\ \A k \in Registered : registry[k].addr = k /\ k \notin BadAddress
  /\ orphan["main"] = NoAircraft
  /\ \A t \in Task : pc[t] = "apply" /\ orphan[t] = NoAircraft => msg[t].addr \in Registered

(* An update that reaches nobody (its aircraft was swept between           *)
(* get_or_create and the aircraft's lock) is only ever lost for an         *)
(* aircraft that had been silent for TRACK_EXPIRE.                         *)
OrphanOnlyIfExpired ==
  \A t \in Task : orphan[t] # NoAircraft => orphan[t].seen + TRACK_EXPIRE <= clock

(* Between buffers nothing in the registry is older than what the last     *)
(* sweep was entitled to keep, whatever the incoming task did during the   *)
(* sweep or after it with a time stamp it took before.                     *)
SweepLeavesNoStale ==
  pc["main"] = "read" =>
    \A k \in Registered : now["main"] < registry[k].seen + TRACK_EXPIRE

(* Whoever sees both altitudes valid sees a geom_delta that is their       *)
(* difference, although values, validity and delta are written under       *)
(* different conditions and by two tasks with unordered time stamps.       *)
DeltaConsistent ==
  \A k \in Registered :
    LET a == registry[k] IN
    /\ IsValid(a.valid["baro_alt"], clock, TRACK_EXPIRE)
    /\ IsValid(a.valid["geom_alt"], clock, TRACK_EXPIRE)
    => a.geom_delta = a.value["geom_alt"] - a.value["baro_alt"]

(* A report that has come to its end covers exactly the aircraft that are  *)
(* registered: none was added, removed or skipped under the iteration.     *)
ReportCoversRegistry ==
  \A r \in Iterating : rtodo[r] = {} => report[r] = Registered

(* "Emits ... MSG,3 (position) ... when data is valid" (CHANGELOG, 0.7.0): *)
(* a position decoded less than TRACK_STALE ago is reported.  No message   *)
(* the parser returns has a source, so no field of an aircraft the program *)
(* tracks is ever valid.                                                   *)
FreshPositionReported ==
  \A k \in Registered :
    LET a == registry[k] IN
    a.position # NoPosition /\ clock < a.seen_pos + TRACK_STALE => 3 \in SbsLines(a, clock)

(* Action properties                                                       *)

(* remove_stale drops an aircraft only after a silence of TRACK_EXPIRE     *)
(* less the age time stamps may have: `seen` is the sender's stamp, and    *)
(* the main task's stamp for a whole buffer can put it back.               *)
ExpiryNeedsSilence ==
  [][\A k \in Address :
       registry[k] # NoAircraft /\ registry'[k] = NoAircraft
         => heard[k] + TRACK_EXPIRE <= clock + MaxLag]_vars

(* Refinement                                                              *)

Entry(k) ==
  IF registry[k] = NoAircraft THEN NoAircraft
  ELSE [seen |-> registry[k].seen, messages |-> registry[k].messages]

entries == [k \in Address |-> Entry(k)]

Table == INSTANCE AircraftTable WITH
  Absent <- NoAircraft, Expire <- TRACK_EXPIRE, Lag <- MaxLag, table <- entries

(* The tasks together implement the table of recently heard aircraft.      *)

ImplementsTable == Table!Spec

(* Liveness                                                                *)

(* A message of a network client that got as far as the tracker reaches    *)
(* its aircraft, and a buffer ends with its sweep: the sweeps and reports  *)
(* that hold the map's lock over many aircraft do not shut the two tasks   *)
(* out.  (An aircraft's own lock is taken and released within a step: who  *)
(* holds it waits for nothing.)                                            *)
MessagesAreApplied == pc["incoming"] = "lookup" ~> pc["incoming"] = "recv"
BuffersAreFinished == pc["main"] = "batch" ~> pc["main"] = "read"

=============================================================================

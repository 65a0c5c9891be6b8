------------------------------ MODULE Console -------------------------------
(***************************************************************************)
(* Console output (console/outputter.rs, state.rs, stats_accumulator.rs)   *)
(* as the main loop of main.rs drives it: the statistics of the last       *)
(* minute, and the medium level's lines with what has changed per          *)
(* aircraft, both of which are written at every level; and the lines for   *)
(* single messages, which depend on the level the signal tasks have set.   *)
(*                                                                         *)
(* A snapshot keeps four fields: alt stands for the six numeric ones,      *)
(* which all go through field_change; squawk for squawk, category and      *)
(* airground, which are kept and never compared; pos is set or not, but    *)
(* never other than 0: nothing sets decoded_lat.  The text of lines is     *)
(* left out.                                                               *)
(***************************************************************************)
EXTENDS ConsoleLevel, Sequences, FiniteSets

CONSTANTS
  Message,         (* what the main loop feeds                              *)
  Address,
  None,            (* Option::None, and "not in the map"                    *)
  Window,          (* seconds a low report looks back and waits: 60         *)
  MediumInterval,  (* medium_interval_secs                                  *)
  PosStep,         (* 0.001 degrees                                         *)
  Bounds           (* bounds on time, messages and signals, one of which is *)
                   (* chosen at the start                                   *)

Snapshot == [alt : Int \cup {None}, callsign : Int \cup {None}, pos : {0, None}, squawk : Int \cup {None}]
Fields   == {"alt", "callsign", "pos", "squawk"}
Compared == Fields \ {"squawk"}

ASSUME ConsoleAssumption ==
  /\ Message \subseteq [addr : Address, df : 0 .. 31, signal : BOOLEAN, snapshot : Snapshot]
  /\ Window \in Nat \ {0}
  /\ MediumInterval \in Nat
  /\ PosStep \in Nat
  /\ Bounds \subseteq [clock : Nat, fed : Nat, signals : Nat]

VARIABLES
  bounds,
  clock,
  outLevel,   (* Outputter.level                                            *)
  mpc,        (* where the main loop is                                     *)
  stamp,      (* now_monotonic of the buffer in work                        *)
  lastLow,    (* last_low_report                                            *)
  lastMedium, (* last_medium_report                                         *)
  baseline,   (* last_aircraft_states                                       *)
  current,    (* current_aircraft_states                                    *)
  deques,     (* message_timestamps, df_types, signal_readings              *)
  report,     (* history: the last low report                               *)
  shown,      (* history: what the medium lines have shown of an aircraft   *)
  fed         (* history: the messages fed, with their stamps               *)

mediumVars  == <<lastMedium, baseline, current, shown>>
lowVars     == <<lastLow, deques, report>>
vars == <<bounds, clock, outLevel, mpc, stamp, mediumVars, lowVars, fed, levelVars>>

Deques == {"message_timestamps", "df_types", "signal_readings"}

NoReport == [at |-> 0, messages |-> 0, signals |-> 0, dfs |-> [d \in 0 .. 31 |-> 0]]

NoneShown == [f \in Fields |-> None]

Init ==
  /\ bounds \in Bounds
  /\ LevelInit
  /\ bounds.signals = 0 => level = 0
  /\ outLevel = level
  /\ clock = 0
  /\ mpc = "read"
  /\ stamp = 0
  /\ lastLow = 0
  /\ lastMedium = 0
  /\ baseline = [k \in Address |-> None]
  /\ current = [k \in Address |-> None]
  /\ deques = [q \in Deques |-> <<>>]
  /\ report = NoReport
  /\ shown = [k \in Address |-> NoneShown]
  /\ fed = <<>>

Tick ==
  /\ clock < bounds.clock
  /\ clock' = clock + 1
  /\ UNCHANGED <<bounds, outLevel, mpc, stamp, mediumVars, lowVars, fed, levelVars>>

-----------------------------------------------------------------------------
(* The main loop.                                                          *)
ReadBuffer ==
  /\ mpc = "read"
  /\ mpc' = "batch"
  /\ stamp' = clock
  /\ UNCHANGED <<bounds, clock, outLevel, mediumVars, lowVars, fed, levelVars>>

Recorded_Front(m) ==                \* mutant: push_front
  LET entry == [at |-> stamp, df |-> m.df]
  IN  [q \in Deques |->
         IF q = "signal_readings" /\ ~m.signal THEN deques[q] ELSE <<entry>> \o deques[q]]

(* record_message.                                                         *)
Recorded(m) ==
  LET entry == [at |-> stamp, df |-> m.df]
  IN  [q \in Deques |->
         IF q = "signal_readings" /\ ~m.signal THEN deques[q] ELSE Append(deques[q], entry)]

Feed_KeepsLevel(m) ==               \* mutant: the level is not set again
  /\ mpc = "batch"
  /\ Len(fed) < bounds.fed
  /\ deques' = Recorded(m)
  /\ current' = [current EXCEPT ![m.addr] = m.snapshot]
  /\ fed' = Append(fed, [at |-> stamp, msg |-> m])
  /\ UNCHANGED <<bounds, clock, outLevel, mpc, stamp, lastLow, report, lastMedium, baseline, shown, levelVars>>

(* set_level and feed, for a message that passed the checksum.             *)
Feed(m) ==
  /\ mpc = "batch"
  /\ Len(fed) < bounds.fed
  /\ outLevel' = level
  /\ deques' = Recorded(m)
  /\ current' = [current EXCEPT ![m.addr] = m.snapshot]
  /\ fed' = Append(fed, [at |-> stamp, msg |-> m])
  /\ UNCHANGED <<bounds, clock, mpc, stamp, lastLow, report, lastMedium, baseline, shown, levelVars>>

(* Whether feed returns a line for the message: format_high leaves out     *)
(* all-calls and short surveillance without an altitude.                   *)
Printed(m, l) ==
  CASE l = 3 -> TRUE
    [] l = 2 -> m.df # 11 /\ (m.df = 0 => m.snapshot.alt # None)
    [] OTHER -> FALSE

(* aggregate: each deque is popped at its front as long as that is older   *)
(* than the window.                                                        *)
DropOld(q, start) ==
  LET k == CHOOSE k \in 1 .. Len(q) + 1 :
             /\ \A i \in 1 .. k - 1 : q[i].at < start
             /\ k <= Len(q) => q[k].at >= start
  IN  SubSeq(q, k, Len(q))

Aggregated_DfKept(now) ==           \* mutant: df_types is not pruned (before 0.6.0)
  [q \in Deques |-> IF q = "df_types" THEN deques[q] ELSE DropOld(deques[q], now - Window)]

Aggregated(now) == [q \in Deques |-> DropOld(deques[q], now - Window)]

ReportOf(d, now) ==
  [at |-> now,
   messages |-> Len(d["message_timestamps"]),
   signals |-> Len(d["signal_readings"]),
   dfs |-> [f \in 0 .. 31 |-> Cardinality({i \in DOMAIN d["df_types"] : d["df_types"][i].df = f})]]

FlushLow(now) ==
  IF now - lastLow >= Window
  THEN /\ deques' = Aggregated(now)
       /\ report' = ReportOf(deques', now)
       /\ lastLow' = now
  ELSE UNCHANGED lowVars

(* diff_snapshots: the fields a line shows, and as what.                   *)
Differs(f, p, c) ==
  IF p = None \/ c = None
  THEN p # c
  ELSE IF f = "pos" THEN c - p > PosStep \/ p - c > PosStep ELSE p # c

Diff_NoLost(prev, now) ==           \* mutant: a field that is gone is not reported
  [f \in {g \in Compared : now[g] # None /\ Differs(g, prev[g], now[g])} |-> now[f]]

Diff(prev, now) == [f \in {g \in Compared : Differs(g, prev[g], now[g])} |-> now[f]]

(* The line for an aircraft heard in this interval compares it with the    *)
(* interval before, or with nothing.                                       *)
Line(k) ==
  IF baseline[k] = None THEN Diff(NoneShown, current[k]) ELSE Diff(baseline[k], current[k])

(* A reader of the lines starts over when an aircraft has missed an        *)
(* interval, as the code does.                                             *)
Overlay(k) ==
  LET old  == IF baseline[k] = None THEN NoneShown ELSE shown[k]
      line == Line(k)
  IN  [f \in Fields |-> IF f \in DOMAIN line THEN line[f] ELSE old[f]]

FlushMedium(now) ==
  IF now - lastMedium >= MediumInterval
  THEN /\ shown' = [k \in Address |-> IF current[k] = None THEN shown[k] ELSE Overlay(k)]
       /\ baseline' = current
       /\ current' = [k \in Address |-> None]
       /\ lastMedium' = now
  ELSE UNCHANGED mediumVars

(* The end of a buffer: flush_low and flush_medium with a later time.      *)
Flush ==
  /\ mpc = "batch"
  /\ mpc' = "read"
  /\ FlushLow(clock)
  /\ FlushMedium(clock)
  /\ UNCHANGED <<bounds, clock, outLevel, stamp, fed, levelVars>>

(* flush_low_final: last_low_report is set back so that it reports, or,    *)
(* where the monotonic clock cannot go back that far, to now so that it    *)
(* does not.                                                               *)
Stop ==
  /\ mpc = "read"
  /\ mpc' = "stop"
  /\ lastLow' = clock
  /\ \/ /\ deques' = Aggregated(clock)
        /\ report' = ReportOf(deques', clock)
     \/ UNCHANGED <<deques, report>>
  /\ UNCHANGED <<bounds, clock, outLevel, stamp, mediumVars, fed, levelVars>>

(* The signal tasks.                                                       *)
Signal ==
  /\ LevelNext
  /\ received' <= bounds.signals
  /\ UNCHANGED <<bounds, clock, outLevel, mpc, stamp, mediumVars, lowVars, fed>>

Next ==
  \/ Tick
  \/ ReadBuffer
  \/ \E m \in Message : Feed(m)
  \/ Flush
  \/ Stop
  \/ Signal

Spec == Init /\ [][Next]_vars

-----------------------------------------------------------------------------
(* The messages a report made at a given time should count.                *)
InWindow(at) == {i \in DOMAIN fed : fed[i].at >= at - Window /\ fed[i].at <= at}

(* Each low report counts exactly the messages of the last minute, in the  *)
(* rate, among the signals and by downlink format, although three deques   *)
(* are pruned, only at their front and only when a report is made.  (The   *)
(* format percentages once exceeded 100: df_types was not pruned.)         *)
ReportCountsLastMinute ==
  [][report' # report =>
       LET seen == InWindow(report'.at) IN
       /\ report'.messages = Cardinality(seen)
       /\ report'.signals = Cardinality({i \in seen : fed[i].msg.signal})
       /\ \A f \in 0 .. 31 : report'.dfs[f] = Cardinality({i \in seen : fed[i].msg.df = f})]_vars

(* "Per-aircraft change summary every N seconds - each line shows only     *)
(* fields that changed since the last report" (README.readsb.md:78): a     *)
(* reader who applies the medium lines of consecutive intervals knows the  *)
(* fields of the baseline that diff_snapshots compares; no change and no   *)
(* loss of one of them is left out, whatever came and went between.  Of    *)
(* the others, squawk, category and airground, no line shows any change.   *)
BaselineIsShown ==
  \A k \in Address : \A f \in Compared : baseline[k] # None => shown[k][f] = baseline[k][f]

(* "Send SIGUSR1 to cycle forward (Low -> Medium -> High -> Max -> Low) or *)
(* SIGUSR2 to cycle backward" (README.readsb.md): from the first message   *)
(* on, whatever buffer it belongs to, lines are printed as the signals     *)
(* received before it ask for.  The code loads and stores the level in two *)
(* steps, so this needs that no two signals were in work at the same time. *)
LinesFollowSignals ==
  [][fed' # fed /\ ~overlapped /\ (\A s \in Signals : task[s] = "recv")
       => Printed(fed'[Len(fed')].msg, outLevel') = Printed(fed'[Len(fed')].msg, asked % 4)]_vars

=============================================================================

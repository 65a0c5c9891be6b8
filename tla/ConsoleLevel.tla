---------------------------- MODULE ConsoleLevel ----------------------------
(***************************************************************************)
(* The console level and the two tasks of main.rs that cycle it.  Each     *)
(* receives its signal, loads the level and stores the next one; they run  *)
(* on different threads and share nothing but the atomic.                  *)
(***************************************************************************)
EXTENDS Integers

Signals == {"SIGUSR1", "SIGUSR2"}

VARIABLES
  level,      (* CONSOLE_LEVEL: 0 low, 1 medium, 2 high, 3 max              *)
  pending,    (* signals raised and not yet received                        *)
  task,       (* where each task is                                         *)
  cur,        (* the level it has loaded                                    *)
  asked,      (* history: the steps forward the received signals ask for    *)
  received,   (* history: how many have been received                       *)
  overlapped  (* history: one was received while the other was in work      *)

levelVars == <<level, pending, task, cur, asked, received, overlapped>>

LevelInit ==
  /\ level \in 0 .. 3
  /\ pending = [s \in Signals |-> FALSE]
  /\ task = [s \in Signals |-> "recv"]
  /\ cur = [s \in Signals |-> 0]
  /\ asked = level
  /\ received = 0
  /\ overlapped = FALSE

(* A signal raised again before it is received is received once.           *)
Raise(s) ==
  /\ ~pending[s]
  /\ pending' = [pending EXCEPT ![s] = TRUE]
  /\ UNCHANGED <<level, task, cur, asked, received, overlapped>>

cycle_level(n, forward) == IF forward THEN (n + 1) % 4 ELSE (n + 3) % 4

Forward(s) == s = "SIGUSR1"

Load(s) ==
  /\ task[s] = "recv"
  /\ pending[s]
  /\ pending' = [pending EXCEPT ![s] = FALSE]
  /\ task' = [task EXCEPT ![s] = "store"]
  /\ cur' = [cur EXCEPT ![s] = level]
  /\ asked' = IF Forward(s) THEN asked + 1 ELSE asked - 1
  /\ received' = received + 1
  /\ overlapped' = (overlapped \/ \E t \in Signals : task[t] = "store")
  /\ UNCHANGED level

Store(s) ==
  /\ task[s] = "store"
  /\ level' = cycle_level(cur[s], Forward(s))
  /\ task' = [task EXCEPT ![s] = "recv"]
  /\ UNCHANGED <<pending, cur, asked, received, overlapped>>

LevelNext == \E s \in Signals : Raise(s) \/ Load(s) \/ Store(s)

=============================================================================

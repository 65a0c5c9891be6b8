------------------------------ MODULE SdrSetup ------------------------------
(***************************************************************************)
(* How main opens the device the samples of SampleStream come from         *)
(* (main.rs, sdr/manager.rs, sdr/rtl_tcp.rs, sdr/ifile.rs).  An rtl_tcp    *)
(* server is tried three times, says what it is, and is sent its settings  *)
(* before the reader task begins to run; a configured gain is sent while   *)
(* it runs.  Nothing is answered, and commands may get lost with the       *)
(* connection.                                                             *)
(***************************************************************************)
EXTENDS SampleStream

CONSTANTS
  MaxRetries,      (* 3                                                     *)
  Gains,           (* what may be configured as the gain                    *)
  DefaultGain,     (* 49.6                                                  *)
  NoGain           (* none is configured                                    *)

VARIABLES
  phase,      (* where main is with opening the device                      *)
  attempts,   (* connections that failed                                    *)
  info,       (* what the server has said it is                             *)
  gain,       (* config.gain                                                *)
  commands,   (* what has been written to the server                        *)
  broken      (* a write has failed                                         *)

setupVars == <<phase, attempts, info, gain, commands, broken>>
allVars   == <<vars, setupVars>>

Settings ==
  <<<<"SET_FREQ", 1090>>, <<"SET_SAMPLE_RATE", 2400>>, <<"SET_GAIN_MODE", 1>>, <<"SET_GAIN", DefaultGain>>>>

SetupInit ==
  /\ Init
  /\ phase = "connect"
  /\ attempts = 0
  /\ info = "none"
  /\ gain \in Gains \cup {NoGain}
  /\ commands = <<>>
  /\ broken = FALSE

-----------------------------------------------------------------------------
(* The server: once connected it says what it is, good or bad, and then    *)
(* sends samples, without waiting for anything; it may go at any time.     *)

ServerInfo(kind) ==
  /\ phase = "info" /\ info = "none" /\ ended = "open"
  /\ info' = kind
  /\ UNCHANGED <<vars, phase, attempts, gain, commands, broken>>

Server ==
  /\ ~IsFile /\ phase \notin {"connect", "wait"}
  /\ \/ info = "good" /\ ServerSend
     \/ \E how \in {"eof", "error"} : ServerEnd(how)
  /\ UNCHANGED setupVars

-----------------------------------------------------------------------------
(* connect                                                                 *)

Connect ==
  /\ ~IsFile /\ phase = "connect" /\ attempts < MaxRetries
  /\ phase' = "info"
  /\ UNCHANGED <<vars, attempts, info, gain, commands, broken>>

ConnectFails ==
  /\ ~IsFile /\ phase = "connect" /\ attempts < MaxRetries
  /\ attempts' = attempts + 1
  /\ phase' = "wait"
  /\ UNCHANGED <<vars, info, gain, commands, broken>>

(* Five seconds, after the last attempt too.                               *)
Waited ==
  /\ phase = "wait"
  /\ phase' = "connect"
  /\ UNCHANGED <<vars, attempts, info, gain, commands, broken>>

GiveUp ==
  /\ phase = "connect" /\ attempts = MaxRetries
  /\ phase' = "failed"
  /\ OpenFails
  /\ UNCHANGED <<attempts, info, gain, commands, broken>>

ReadInfo ==
  /\ phase = "info" /\ info = "good"
  /\ phase' = "configure"
  /\ UNCHANGED <<vars, attempts, info, gain, commands, broken>>

(* A wrong magic number, or the connection ends: it is not tried again.    *)
BadInfo ==
  /\ phase = "info"
  /\ info = "bad" \/ ended = "error" \/ (ended = "eof" /\ info = "none")
  /\ phase' = "failed"
  /\ OpenFails
  /\ UNCHANGED <<attempts, info, gain, commands, broken>>

SendCommand ==
  /\ phase = "configure" /\ Len(commands) < Len(Settings)
  /\ commands' = Append(commands, Settings[Len(commands) + 1])
  /\ UNCHANGED <<vars, phase, attempts, info, gain, broken>>

(* send_command writes a command and its parameter one after the other.    *)
Half(command) == <<command[1]>>

CommandFails ==
  /\ phase = "configure" /\ Len(commands) < Len(Settings) /\ ended # "open"
  /\ commands' \in {commands, Append(commands, Half(Settings[Len(commands) + 1]))}
  /\ phase' = "failed"
  /\ broken' = TRUE
  /\ OpenFails
  /\ UNCHANGED <<attempts, info, gain>>

SpawnReader_First ==                \* mutant: the reader runs before the settings are sent
  /\ phase = "configure"
  /\ phase' = "gain"
  /\ Open
  /\ UNCHANGED <<attempts, info, gain, commands, broken>>

SpawnReader ==
  /\ phase = "configure" /\ Len(commands) = Len(Settings)
  /\ phase' = "gain"
  /\ Open
  /\ UNCHANGED <<attempts, info, gain, commands, broken>>

-----------------------------------------------------------------------------
(* A file is opened, or is not there.                                      *)
OpenFile ==
  /\ IsFile /\ phase = "connect"
  /\ \/ Open /\ phase' = "gain"
     \/ OpenFails /\ phase' = "failed"
  /\ UNCHANGED <<attempts, info, gain, commands, broken>>

(* SdrManager::set_gain: the mode, then the gain.  If one cannot be        *)
(* written there is a warning and main goes on.  Files have no gain.       *)
GainCommands == IF IsFile THEN <<>> ELSE <<<<"SET_GAIN_MODE", 1>>, <<"SET_GAIN", gain>>>>

Written(n) ==
  IF n = Len(GainCommands)
  THEN {GainCommands}
  ELSE {SubSeq(GainCommands, 1, n), Append(SubSeq(GainCommands, 1, n), Half(GainCommands[n + 1]))}

SetGain ==
  /\ phase = "gain"
  /\ phase' = "running"
  /\ IF gain = NoGain
     THEN UNCHANGED <<commands, broken>>
     ELSE \E n \in 0 .. Len(GainCommands) :
            /\ n < Len(GainCommands) => ended # "open"
            /\ \E written \in Written(n) : commands' = commands \o written
            /\ broken' = (n < Len(GainCommands))
  /\ UNCHANGED <<vars, attempts, info, gain>>

-----------------------------------------------------------------------------
Setup ==
  \/ Connect \/ ConnectFails \/ Waited \/ GiveUp
  \/ ReadInfo \/ BadInfo
  \/ SendCommand \/ CommandFails \/ SpawnReader
  \/ OpenFile
  \/ SetGain

Reader == (\E n \in ReadSizes[device] : ReaderRead(n)) \/ ReaderEnd \/ ReaderSend

Reading == ReadRtlTcp \/ (\E n \in ReadSizes[device] : ReadFile(n)) \/ ReadFileEnd

Looping ==
  /\ phase = "running"
  /\ \/ Begin \/ (\E n \in ReadSizes[device] : BeginAfterHeader(n))
     \/ Top \/ Break \/ Retry \/ Wake \/ Process

Running == Reader \/ Reading \/ Looping \/ ReadFileError \/ Interrupt

SetupNext ==
  \/ \E kind \in {"good", "bad"} : ServerInfo(kind)
  \/ Server
  \/ Setup
  \/ Running /\ UNCHANGED setupVars

SetupSpec == SetupInit /\ [][SetupNext]_allVars

(* The runtime polls the reader task and the main task, and timers end.    *)
(* The server, the user and file errors are not fair.                      *)
SetupFairSpec ==
  /\ SetupSpec
  /\ WF_allVars(Setup)
  /\ WF_allVars(Reader /\ UNCHANGED setupVars)
  /\ WF_allVars(Reading /\ UNCHANGED setupVars)
  /\ WF_allVars(Looping /\ UNCHANGED setupVars)

-----------------------------------------------------------------------------
(* The samples the demodulator gets are those of a receiver that has been  *)
(* told all of its settings first, in whatever state the connection is;    *)
(* and the gain is the configured one unless a write has failed.           *)
SettingsComeFirst ==
  ~IsFile /\ phase # "failed" =>
    /\ taken > 0 \/ queue # <<>> =>
         Len(commands) >= Len(Settings) /\ SubSeq(commands, 1, Len(Settings)) = Settings
    /\ mpc \notin {"open", "opened"} /\ ~broken /\ commands # <<>> =>
         commands[Len(commands)] = <<"SET_GAIN", IF gain = NoGain THEN DefaultGain ELSE gain>>

=============================================================================

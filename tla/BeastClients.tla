---------------------------- MODULE BeastClients ----------------------------
(***************************************************************************)
(* The programs that read a Beast server with read_beast_frames            *)
(* (BeastReaders) and what they do with a batch of frames: record writes   *)
(* them to a file that can be replayed, compare sets them against a        *)
(* recording (bin/beast-client.rs), viewsb tracks them and writes          *)
(* snapshots (viewsb/runner.rs, viewsb/output.rs).  A program is a single  *)
(* thread: it does not read while it works.                                *)
(*                                                                         *)
(* A key, ICAO and type in the code, is the first byte of a payload here,  *)
(* and a payload has one if it has more bytes than that.  Every frame is   *)
(* taken to have a good CRC, so that viewsb counts and tracks all of them. *)
(***************************************************************************)
EXTENDS BeastReaders, FiniteSets

CONSTANTS
  Recording,     (* the frames of the file that compare is given            *)
  Varying,       (* keys whose type is 17, 18 or 19                         *)
  Positioned,    (* keys of aircraft that have sent their position          *)
  Windows,       (* windows to compare: duration / window                   *)
  Count,         (* viewsb --count, 0 for none                              *)
  MaxTurns       (* bound on the turns of viewsb, by the lines of its CSV   *)

(* decode_record takes any type and any payload.                           *)
ASSUME RecordingAssumption == Recording \in Seq([type : Byte, payload : Seq(Byte)])

VARIABLES
  pc,
  done,          (* frames of got that have been dealt with                 *)
  file,          (* the recording being written                             *)
  writing,       (* what is left of the record being written                *)
  windows,       (* windows compared                                        *)
  tally,         (* the cumulative counts of compare                        *)
  compared,      (* history: keys on the two sides of those windows         *)
  interactive,
  registry,      (* the keys of the aircraft tracked                        *)
  final,         (* the last snapshot is being written, of all aircraft     *)
  json,          (* the snapshot and its temporary file                     *)
  csv,
  header_written

(* Histories of the files: those whose last write failed, or any write of  *)
(* the recording; the frames recorded whole before its first torn record,  *)
(* and whether there is one.                                               *)
VARIABLES failed, kept, torn

recordVars  == <<file, writing, kept, torn>>
compareVars == <<windows, tally, compared>>
viewVars    == <<interactive, registry, final, json, csv, header_written>>

programVars == <<done, failed, recordVars, compareVars, viewVars>>

allVars == <<vars, pc, programVars>>

(* Versions of a file: a snapshot is how many frames have been dealt with  *)
(* and which aircraft are shown.                                           *)
Torn   == <<-1, {}>>
Header == <<-2, {}>>

NewFrames == From(got, done + 1)

-----------------------------------------------------------------------------
(* The reader, which runs while its program waits for a batch.             *)

AtWork == IF reader \in {"record", "compare", "viewsb"} THEN "work" ELSE "read"

Batch(r) ==
  /\ pc = "read"
  /\ BatchRead(r)
  /\ pc' = IF got' # got THEN AtWork ELSE pc
  /\ UNCHANGED programVars

Timeout ==
  /\ pc = "read" /\ Len(csv) < MaxTurns
  /\ BatchEnd
  /\ pc' = AtWork
  /\ UNCHANGED programVars

(* Only compare does not go on reading: its window is over.                *)
ReadError ==
  /\ pc = "read" /\ Len(csv) < MaxTurns
  /\ BatchError
  /\ pc' = IF reader = "compare" THEN "over" ELSE AtWork
  /\ UNCHANGED programVars

-----------------------------------------------------------------------------
(* record.  What a record has beside type and length, time stamp and       *)
(* flags, is left out.                                                     *)

Record(frame) == <<frame.type, Len(frame.payload)>> \o frame.payload

RecordNext ==
  /\ reader = "record" /\ pc = "work" /\ writing = <<>> /\ done < Len(got)
  /\ writing' = Record(got[done + 1])
  /\ done' = done + 1
  /\ UNCHANGED <<vars, pc, failed, file, kept, torn, compareVars, viewVars>>

(* write_all: some of the bytes reach the file,                            *)
RecordWrite ==
  /\ writing # <<>>
  /\ \E n \in 1 .. Len(writing) :
       /\ file' = file \o SubSeq(writing, 1, n)
       /\ writing' = From(writing, n + 1)
  /\ kept' = IF writing' = <<>> /\ ~torn THEN Append(kept, got[done]) ELSE kept
  /\ UNCHANGED <<vars, pc, done, failed, torn, compareVars, viewVars>>

(* or the rest cannot be written, which is ignored: the next record        *)
(* follows what there is.                                                  *)
RecordFails ==
  /\ writing # <<>>
  /\ torn' = (torn \/ Len(writing) < Len(Record(got[done])))
  /\ writing' = <<>>
  /\ failed' = failed \cup {"file"}
  /\ UNCHANGED <<vars, pc, done, file, kept, compareVars, viewVars>>

RecordDone ==
  /\ reader = "record" /\ pc = "work" /\ writing = <<>> /\ done = Len(got)
  /\ pc' = "read"
  /\ UNCHANGED <<vars, programVars>>

Complete_Header(bytes, i) == i + 1 <= Len(bytes)   \* mutant: only the header must be there

(* The record at i and all of its payload are in the file.                 *)
Complete(bytes, i) == i + 1 <= Len(bytes) /\ i + 1 + bytes[i + 1] <= Len(bytes)

(* read_records_from_file                                                  *)
Replay(bytes) ==
  LET from[i \in 1 .. Len(bytes) + 1] ==
        IF Complete(bytes, i)
        THEN <<[type |-> bytes[i], payload |-> SubSeq(bytes, i + 2, Min({i + 1 + bytes[i + 1], Len(bytes)}))]>>
               \o from[Min({i + 2 + bytes[i + 1], Len(bytes) + 1})]
        ELSE <<>>
  IN  from[1]

-----------------------------------------------------------------------------
(* compare, a file against a server.                                       *)

Key(frame) == frame.payload[1]

Keyed(seen) == {i \in DOMAIN seen : Len(seen[i].payload) > 1}

(* The last payload of every key.                                          *)
build_key_map(seen) ==
  [k \in {Key(seen[i]) : i \in Keyed(seen)} |->
     seen[Max({i \in Keyed(seen) : Key(seen[i]) = k})].payload]

print_window_diff_Twice(left, right) ==    \* mutant: lists the keys of both sides
  LET shared == DOMAIN left \cap DOMAIN right
      other  == {k \in shared : left[k] # right[k]}
  IN  [matched    |-> Cardinality(shared \ other),
       varies     |-> Cardinality(other),
       diff       |-> Cardinality(other \ Varying),
       left_only  |-> Cardinality(DOMAIN left \ shared),
       right_only |-> Cardinality(DOMAIN right \ shared)]

(* How the keys of both sides are counted.                                 *)
print_window_diff(left, right) ==
  LET shared == DOMAIN left \cap DOMAIN right
      other  == {k \in shared : left[k] # right[k]}
  IN  [matched    |-> Cardinality(shared \ other),
       varies     |-> Cardinality(other \cap Varying),
       diff       |-> Cardinality(other \ Varying),
       left_only  |-> Cardinality(DOMAIN left \ shared),
       right_only |-> Cardinality(DOMAIN right \ shared)]

Plus(a, b) == [x \in DOMAIN a |-> a[x] + b[x]]

(* A batch does not end the window before its time is over, unless there  *)
(* are as many frames as max_frames by then.                               *)
CompareOn ==
  /\ reader = "compare" /\ pc = "work" /\ Len(NewFrames) < MaxFrames[reader]
  /\ pc' = "read"
  /\ UNCHANGED <<vars, programVars>>

(* The end of a window: a new connection is made for the next one, and     *)
(* what the server has sent on the old one is not read any more.           *)
CompareWindow ==
  /\ reader = "compare" /\ pc \in {"work", "over"}
  /\ windows' = windows + 1
  /\ IF NewFrames = <<>>
     THEN UNCHANGED <<tally, compared>>
     ELSE LET left == build_key_map(Recording)
              right == build_key_map(NewFrames)
          IN  /\ tally' = Plus(tally, print_window_diff(left, right))
              /\ compared' = <<compared[1] + Cardinality(DOMAIN left), compared[2] + Cardinality(DOMAIN right)>>
  /\ done' = Len(got)
  /\ pc' = IF windows' >= Windows THEN "end" ELSE "read"
  /\ wire' = <<>> /\ pending' = <<>> /\ sent' = SubSeq(sent, 1, Taken)
  /\ UNCHANGED <<reader, buf, offset, frames, got, uncut, due, lost, clean>>
  /\ UNCHANGED <<failed, recordVars, viewVars>>

-----------------------------------------------------------------------------
(* viewsb.                                                                 *)

CountReached == Count > 0 /\ done >= Count

(* The frames of the batch reach the tracker, aircraft not heard for long  *)
(* are removed, and the table is shown; without a terminal it ends there   *)
(* if enough messages have been counted, but for the final snapshot.       *)
ViewUpdate ==
  /\ reader = "viewsb" /\ pc = "work"
  /\ LET heard == {Key(NewFrames[i]) : i \in DOMAIN NewFrames}
     IN  \E stale \in SUBSET (registry \ heard) : registry' = (registry \cup heard) \ stale
  /\ done' = Len(got)
  /\ final' = (~interactive /\ Count > 0 /\ done' >= Count)
  /\ pc' = "json"
  /\ UNCHANGED <<vars, failed, recordVars, compareVars, interactive, json, csv, header_written>>

(* The user quits.                                                         *)
ViewQuit ==
  /\ pc = "json" /\ interactive
  /\ pc' = "end"
  /\ UNCHANGED <<vars, programVars>>

(* Aircraft whose position is not known are in the final snapshot only.    *)
Snapshot == <<done, IF final THEN registry ELSE registry \cap Positioned>>

JsonCreate_InPlace ==               \* mutant: no temporary file
  /\ pc = "json"
  /\ json' = [path |-> {Torn}, tmp |-> {Torn}]
  /\ pc' = "write"
  /\ UNCHANGED <<vars, done, failed, recordVars, compareVars, interactive, registry, final, csv, header_written>>

(* A file is a set of the versions it may be read as: none, one, or Torn.  *)
JsonCreate ==
  /\ pc = "json"
  /\ json' = [json EXCEPT !.tmp = {Torn}]
  /\ pc' = "write"
  /\ UNCHANGED <<vars, done, failed, recordVars, compareVars, interactive, registry, final, csv, header_written>>

JsonWrite ==
  /\ pc = "write"
  /\ json' = [json EXCEPT !.tmp = {Snapshot}]
  /\ pc' = "rename"
  /\ UNCHANGED <<vars, done, failed, recordVars, compareVars, interactive, registry, final, csv, header_written>>

JsonRename ==
  /\ pc = "rename"
  /\ json' = [path |-> json.tmp, tmp |-> {}]
  /\ failed' = failed \ {"json"}
  /\ pc' = "csv"
  /\ UNCHANGED <<vars, done, recordVars, compareVars, interactive, registry, final, csv, header_written>>

(* Creating, writing or renaming fails, which is ignored.                  *)
JsonFails ==
  /\ pc \in {"json", "write", "rename"}
  /\ failed' = failed \cup {"json"}
  /\ pc' = "csv"
  /\ UNCHANGED <<vars, done, recordVars, compareVars, viewVars>>

(* The next turn begins unless enough messages have been counted.          *)
NextTurn == pc' = IF CountReached THEN "end" ELSE "read"

CsvHeader ==
  /\ pc = "csv" /\ ~header_written
  /\ csv' = Append(csv, Header)
  /\ header_written' = TRUE
  /\ UNCHANGED <<vars, pc, done, failed, recordVars, compareVars, interactive, registry, final, json>>

CsvRows ==
  /\ pc = "csv" /\ header_written
  /\ csv' = Append(csv, Snapshot)
  /\ failed' = failed \ {"csv"}
  /\ NextTurn
  /\ UNCHANGED <<vars, done, recordVars, compareVars, interactive, registry, final, json, header_written>>

(* Opening fails, or writing, maybe after a part, and that too is ignored: *)
(* what is appended next begins where the part ends.                       *)
CsvFails ==
  /\ pc = "csv"
  /\ csv' \in {csv, Append(csv, Torn)}
  /\ failed' = failed \cup {"csv"}
  /\ NextTurn
  /\ UNCHANGED <<vars, done, recordVars, compareVars, interactive, registry, final, json, header_written>>

-----------------------------------------------------------------------------
ClientsInit ==
  /\ Init
  /\ pc = "read"
  /\ done = 0
  /\ file = <<>> /\ writing = <<>>
  /\ windows = 0
  /\ tally = [matched |-> 0, varies |-> 0, diff |-> 0, left_only |-> 0, right_only |-> 0]
  /\ compared = <<0, 0>>
  /\ interactive \in (IF reader = "viewsb" THEN BOOLEAN ELSE {FALSE})
  /\ registry = {}
  /\ final = FALSE
  /\ json = [path |-> {}, tmp |-> {}]
  /\ csv = <<>> /\ header_written = FALSE
  /\ failed = {}
  /\ kept = <<>> /\ torn = FALSE

ClientsNext ==
  \/ (\E f \in Sendable[reader] : Send(f)) /\ UNCHANGED <<pc, programVars>>
  \/ (\E r \in Reads : ClientRead(r)) /\ UNCHANGED <<pc, programVars>>
  \/ \E r \in Reads : Batch(r)
  \/ Timeout \/ ReadError
  \/ RecordNext \/ RecordWrite \/ RecordFails \/ RecordDone
  \/ CompareOn \/ CompareWindow
  \/ ViewUpdate \/ ViewQuit
  \/ JsonCreate \/ JsonWrite \/ JsonRename \/ JsonFails
  \/ CsvHeader \/ CsvRows \/ CsvFails

ClientsSpec == ClientsInit /\ [][ClientsNext]_allVars

-----------------------------------------------------------------------------
(* Whenever record is killed and whichever writes fail, replaying its file *)
(* gives first, in order, the frames received whose records were written   *)
(* whole before the first of which only a part was; if there is none of    *)
(* these it gives nothing else, and if no write has failed no frame is     *)
(* missing but the one being written.  After a torn record the replay may  *)
(* give anything: its length takes in the beginning of the next one.       *)
RecordingIsUsable ==
  LET replayed == Replay(file)
      recorded == IF writing = <<>> THEN done ELSE done - 1
  IN  /\ IsPrefix(kept, replayed)
      /\ ~torn => replayed = kept
      /\ reader = "record" /\ failed = {} => kept = SubSeq(got, 1, recorded)

(* A key that does not vary has one payload in the recording.              *)
OneEach ==
  \A i, j \in Keyed(Recording) :
    Key(Recording[i]) = Key(Recording[j]) /\ Key(Recording[i]) \notin Varying
      => Recording[i].payload = Recording[j].payload

(* The counts of compare cover every key of either side once, whatever the *)
(* windows saw.  When all the frames received are frames of the recording, *)
(* in any order and any number, none is counted as sent by the server      *)
(* only, and none as different if each key that does not vary has one      *)
(* payload in the recording; a key of several, as messages of types other  *)
(* than 17 to 19 often are, is compared by the last of each side.          *)
ComparisonIsFair ==
  reader = "compare" =>
    /\ tally.matched + tally.varies + tally.diff + tally.left_only = compared[1]
    /\ tally.matched + tally.varies + tally.diff + tally.right_only = compared[2]
    /\ (\A i \in DOMAIN got : \E j \in DOMAIN Recording : got[i] = Recording[j])
         => tally.right_only = 0 /\ (OneEach => tally.diff = 0)

(* Whoever opens the JSON file, also after a crash and whichever writes    *)
(* and renames fail, finds none or a whole one; in the CSV file the header *)
(* is there once, before all snapshots, and these are in order; and when   *)
(* viewsb has ended at its count without a terminal, each file whose last  *)
(* write did not fail ends in all that was counted and every aircraft not  *)
(* expired by then, positions or not.                                      *)
SnapshotsAreWhole ==
  /\ Torn \notin json.path
  /\ \A j \in DOMAIN csv :
       /\ csv[j] = Header => \A i \in 1 .. j - 1 : csv[i] = Torn
       /\ csv[j][1] >= 0 => /\ \E i \in 1 .. j - 1 : csv[i] = Header
                            /\ \A i \in 1 .. j - 1 : csv[i][1] <= csv[j][1]
  /\ reader = "viewsb" /\ pc = "end" /\ CountReached /\ ~interactive =>
       /\ "json" \notin failed => json.path = {<<Len(got), registry>>}
       /\ "csv" \notin failed => csv[Len(csv)] = <<Len(got), registry>>

=============================================================================

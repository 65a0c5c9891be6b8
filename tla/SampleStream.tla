---------------------------- MODULE SampleStream ----------------------------
(***************************************************************************)
(* How samples get from the device to the demodulator (sdr/rtl_tcp.rs,     *)
(* sdr/ifile.rs, main.rs): for an rtl_tcp server a reader task fills       *)
(* chunks and sends them through a bounded channel; a file is read by the  *)
(* main loop itself.  The main loop puts the tail of the previous buffer   *)
(* in front of each new one, so that a message on the boundary is seen     *)
(* whole.                                                                  *)
(*                                                                         *)
(* A byte is its position in the stream; bytes of an I/Q pair belong       *)
(* together, and pairs are the samples the demodulator works on.           *)
(***************************************************************************)
EXTENDS Integers, Sequences

CONSTANTS
  Devices,         (* which may be configured: "rtl_tcp"; "ifile", a file;  *)
                   (*   "SC16Q11M", a file of that format, with a header    *)
  Chunk,           (* ringbuf_chunk_size, also read_target for rtl_tcp      *)
  Capacity,        (* chunks the channel holds                              *)
  ReadSizes,       (* byte counts a read may return, by device              *)
  Pair,            (* bytes per I/Q pair                                    *)
  Overlap,         (* OVERLAP_SAMPLES                                       *)
  Guard,           (* samples at the end of a buffer that are too late for  *)
                   (*   the start of a message                              *)
  HeaderLen,       (* 12                                                    *)
  StreamLength,    (* bound on the bytes the device delivers                *)
  MaxErrors,       (* bound on file read errors                             *)
  Failed           (* read_samples returned Err                             *)

ASSUME StreamAssumption ==
  /\ Devices \subseteq {"rtl_tcp", "ifile", "SC16Q11M"}
  /\ Chunk \in Nat \ {0}
  /\ Capacity \in Nat \ {0}
  /\ ReadSizes \in [Devices -> SUBSET (Nat \ {0})]
  /\ Pair \in Nat \ {0}
  /\ Overlap \in Nat
  /\ Guard \in 0 .. Overlap
  /\ HeaderLen \in Nat
  /\ StreamLength \in Nat
  /\ MaxErrors \in Nat
  /\ Failed \notin Seq(Int)

(* Chunks and reads of files hold whole pairs; a file's last byte may be   *)
(* left over, and READSB_TCP_CHUNK, which sets Chunk, must be chosen so.   *)
ASSUME AlignmentAssumption ==
  \A n \in {Chunk, HeaderLen} \cup UNION {ReadSizes[d] : d \in Devices \ {"rtl_tcp"}} :
    \E k \in 0 .. n : n = k * Pair

VARIABLES
  device,     (* the device in use                                          *)
  sent,       (* bytes the server or the file has made available            *)
  ended,      (* how the stream ended                                       *)
  taken,      (* bytes read from the socket or file                         *)
  buf,        (* the reader task's chunk under construction                 *)
  rpc,        (* where the reader task is                                   *)
  queue,      (* the mpsc channel                                           *)
  mpc,        (* where the main loop is                                     *)
  result,     (* what read_samples returned                                 *)
  tail,       (* overlap_tail                                               *)
  window,     (* combined, as last handed to the demodulator                *)
  consumed,   (* history: bytes copied into some window as new data         *)
  primed,     (* history: bytes of a file used for the first tail only      *)
  scanned,    (* history: samples within the range the demodulator searches *)
              (*   for the start of a message, by their first byte          *)
  shutdown,
  errors

readerVars == <<taken, buf, rpc>>
mainVars   == <<mpc, result, tail, window, consumed, primed, scanned>>
vars == <<device, sent, ended, readerVars, queue, mainVars, shutdown, errors>>

OverlapBytes == Overlap * Pair

IsFile == device # "rtl_tcp"

(* Bytes of the file ahead of its samples.                                 *)
Header == IF device = "SC16Q11M" THEN HeaderLen ELSE 0

(* Bytes first .. first + n - 1 of the stream.                             *)
Bytes(first, n) == [i \in 1 .. n |-> first + i - 1]

Last(s, n) == SubSeq(s, Len(s) - n + 1, Len(s))

TypeOK ==
  /\ device \in Devices
  /\ sent \in 0 .. StreamLength
  /\ ended \in {"open", "eof", "error"}
  /\ taken \in -Header .. sent
  /\ buf \in Seq(Int) /\ Len(buf) <= Chunk
  /\ rpc \in {"none", "read", "send", "done"}
  /\ queue \in Seq(Seq(Int)) /\ Len(queue) <= Capacity
  /\ mpc \in {"open", "opened", "top", "read", "got", "sleep", "stop"}
  /\ result = Failed \/ result \in Seq(Int)
  /\ tail \in Seq(Int) /\ Len(tail) = OverlapBytes
  /\ window \in Seq(Int)
  /\ consumed \in Nat
  /\ primed \in 0 .. consumed
  /\ scanned \subseteq Int
  /\ shutdown \in BOOLEAN
  /\ errors \in 0 .. MaxErrors

Init ==
  /\ device \in Devices
  /\ IF IsFile
     THEN sent = StreamLength /\ ended = "eof"
     ELSE sent = 0 /\ ended = "open"
  /\ taken = -Header
  /\ rpc = "none"
  /\ buf = <<>>
  /\ queue = <<>>
  /\ mpc = "open"
  /\ result = <<>>
  /\ tail = Bytes(1 - OverlapBytes, OverlapBytes)
  /\ window = <<>>
  /\ consumed = 0
  /\ primed = 0
  /\ scanned = {}
  /\ shutdown = FALSE
  /\ errors = 0

-----------------------------------------------------------------------------
(* The rtl_tcp server and Ctrl-C.                                          *)
ServerSend ==
  /\ ended = "open"
  /\ sent < StreamLength
  /\ sent' = sent + 1
  /\ UNCHANGED <<device, ended, readerVars, queue, mainVars, shutdown, errors>>

ServerEnd(how) ==
  /\ ended = "open"
  /\ ended' = how
  /\ UNCHANGED <<device, sent, readerVars, queue, mainVars, shutdown, errors>>

Interrupt ==
  /\ mpc \notin {"open", "opened"}
  /\ ~shutdown
  /\ shutdown' = TRUE
  /\ UNCHANGED <<device, sent, ended, readerVars, queue, mainVars, errors>>

-----------------------------------------------------------------------------
(* Opening the device (SdrSetup has the steps): the reader task of an      *)
(* rtl_tcp client begins to run.  If it fails, so does the program.        *)
Open ==
  /\ mpc = "open"
  /\ mpc' = "opened"
  /\ rpc' = IF IsFile THEN "done" ELSE "read"
  /\ UNCHANGED <<device, sent, ended, taken, buf, queue, result, tail, window, consumed, primed, scanned,
                 shutdown, errors>>

OpenFails ==
  /\ mpc = "open"
  /\ mpc' = "stop"
  /\ UNCHANGED <<device, sent, ended, readerVars, queue, result, tail, window, consumed, primed, scanned,
                 shutdown, errors>>

(* The main loop is about to begin.                                        *)
Begin ==
  /\ mpc = "opened"
  /\ device # "SC16Q11M"
  /\ mpc' = "top"
  /\ UNCHANGED <<device, sent, ended, readerVars, queue, result, tail, window, consumed, primed, scanned,
                 shutdown, errors>>

-----------------------------------------------------------------------------
(* The reader task of RtlTcpClient.                                        *)

ReaderRead_NoLoop(n) ==             \* mutant: one read per chunk (before 0.9.3)
  /\ rpc = "read"
  /\ n <= sent - taken
  /\ n <= Chunk
  /\ taken' = taken + n
  /\ buf' = Bytes(taken + 1, n)
  /\ rpc' = "send"
  /\ UNCHANGED <<device, sent, ended, queue, mainVars, shutdown, errors>>

(* One read of the socket, which returns what is there, up to the rest of  *)
(* the chunk; a timeout changes nothing.                                   *)
ReaderRead(n) ==
  /\ rpc = "read"
  /\ n <= sent - taken
  /\ n <= Chunk - Len(buf)
  /\ taken' = taken + n
  /\ buf' = buf \o Bytes(taken + 1, n)
  /\ rpc' = IF Len(buf) + n = Chunk THEN "send" ELSE "read"
  /\ UNCHANGED <<device, sent, ended, queue, mainVars, shutdown, errors>>

(* End of file after the last byte, or an error at any time: the task ends *)
(* and drops what it has of the current chunk.                             *)
ReaderEnd ==
  /\ rpc = "read"
  /\ \/ ended = "eof" /\ taken = sent
     \/ ended = "error"
  /\ rpc' = "done"
  /\ buf' = <<>>
  /\ UNCHANGED <<device, sent, ended, taken, queue, mainVars, shutdown, errors>>

ReaderSend_NoWait ==                \* mutant: the channel is unbounded
  /\ rpc = "send"
  /\ queue' = Append(queue, buf)
  /\ rpc' = "read"
  /\ buf' = <<>>
  /\ UNCHANGED <<device, sent, ended, taken, mainVars, shutdown, errors>>

ReaderSend_UntilEof ==              \* mutant: forgets the last chunk at the end
  /\ rpc = "send"
  /\ Len(queue) < Capacity
  /\ queue' = IF ended = "open" THEN Append(queue, buf) ELSE queue
  /\ rpc' = "read"
  /\ buf' = <<>>
  /\ UNCHANGED <<device, sent, ended, taken, mainVars, shutdown, errors>>

(* tx.send waits for room in the channel.                                  *)
ReaderSend ==
  /\ rpc = "send"
  /\ Len(queue) < Capacity
  /\ queue' = Append(queue, buf)
  /\ rpc' = "read"
  /\ buf' = <<>>
  /\ UNCHANGED <<device, sent, ended, taken, mainVars, shutdown, errors>>

-----------------------------------------------------------------------------
(* read_samples                                                            *)

(* Who holds a Sender of the channel: the task while it runs, and the      *)
(* client itself, which keeps the clone in ringbuf_tx.                     *)
Senders == {"client"} \cup {s \in {"task"} : rpc # "done"}

(* recv waits for a chunk, and fails once the channel is empty and has no  *)
(* sender left.                                                            *)
ReadRtlTcp ==
  /\ device = "rtl_tcp"
  /\ mpc = "read"
  /\ queue # <<>> \/ Senders = {}
  /\ IF queue # <<>>
     THEN result' = Head(queue) /\ queue' = Tail(queue)
     ELSE result' = Failed /\ UNCHANGED queue
  /\ mpc' = "got"
  /\ UNCHANGED <<device, sent, ended, readerVars, tail, window, consumed, primed, scanned, shutdown, errors>>

ReadFile(n) ==
  /\ IsFile
  /\ mpc = "read"
  /\ n <= sent - taken
  /\ result' = Bytes(taken + 1, n)
  /\ taken' = taken + n
  /\ mpc' = "got"
  /\ UNCHANGED <<device, sent, ended, buf, rpc, queue, tail, window, consumed, primed, scanned, shutdown, errors>>

ReadFileEnd ==
  /\ IsFile
  /\ mpc = "read"
  /\ taken = sent
  /\ result' = <<>>
  /\ mpc' = "got"
  /\ UNCHANGED <<device, sent, ended, readerVars, queue, tail, window, consumed, primed, scanned, shutdown, errors>>

ReadFileError ==
  /\ IsFile
  /\ mpc = "read"
  /\ errors < MaxErrors
  /\ errors' = errors + 1
  /\ result' = Failed
  /\ mpc' = "got"
  /\ UNCHANGED <<device, sent, ended, readerVars, queue, tail, window, consumed, primed, scanned, shutdown>>

-----------------------------------------------------------------------------
(* The main loop.                                                          *)
Top ==
  /\ mpc = "top"
  /\ mpc' = IF shutdown THEN "stop" ELSE "read"
  /\ UNCHANGED <<device, sent, ended, readerVars, queue, result, tail, window, consumed, primed, scanned,
                 shutdown, errors>>

Break_Shutdown ==                   \* mutant: Ok(0) falls through (before 0.3.0)
  /\ mpc = "got"
  /\ shutdown \/ result = <<>>
  /\ mpc' = IF shutdown THEN "stop" ELSE "top"
  /\ UNCHANGED <<device, sent, ended, readerVars, queue, result, tail, window, consumed, primed, scanned,
                 shutdown, errors>>

(* Shutdown seen after the read, or Ok(0).                                 *)
Break ==
  /\ mpc = "got"
  /\ shutdown \/ result = <<>>
  /\ mpc' = "stop"
  /\ UNCHANGED <<device, sent, ended, readerVars, queue, result, tail, window, consumed, primed, scanned,
                 shutdown, errors>>

(* Err: the loop sleeps 100 ms and starts over.                            *)
Retry ==
  /\ mpc = "got"
  /\ ~shutdown
  /\ result = Failed
  /\ mpc' = "sleep"
  /\ UNCHANGED <<device, sent, ended, readerVars, queue, result, tail, window, consumed, primed, scanned,
                 shutdown, errors>>

Wake ==
  /\ mpc = "sleep"
  /\ mpc' = "top"
  /\ UNCHANGED <<device, sent, ended, readerVars, queue, result, tail, window, consumed, primed, scanned,
                 shutdown, errors>>

NextTail_NoShift(data) ==           \* mutant: a short read overwrites the front
  LET n == IF Len(data) < OverlapBytes THEN Len(data) ELSE OverlapBytes
  IN  Last(data, n) \o SubSeq(tail, n + 1, OverlapBytes)

(* The tail for the next buffer: a read shorter than the overlap shifts    *)
(* the old tail, a longer one replaces it.                                 *)
NextTail(data) ==
  LET n == IF Len(data) < OverlapBytes THEN Len(data) ELSE OverlapBytes
  IN  SubSeq(tail, n + 1, OverlapBytes) \o Last(data, n)

(* The first read of a file with a header: the header is cut off, and of   *)
(* the samples after it only the first tail is kept.  A read that fails or *)
(* ends within the header, which leaves it where it is, is left out.       *)
BeginAfterHeader(n) ==
  /\ mpc = "opened"
  /\ device = "SC16Q11M"
  /\ n > HeaderLen
  /\ n <= sent - taken
  /\ taken' = taken + n
  /\ tail' = NextTail(Bytes(1, n - HeaderLen))
  /\ consumed' = n - HeaderLen
  /\ primed' = n - HeaderLen
  /\ mpc' = "top"
  /\ UNCHANGED <<device, sent, ended, buf, rpc, queue, result, window, scanned, shutdown, errors>>

Starts_Short(w) ==                  \* mutant: gives up too early in the buffer
  {w[Pair * (j - 1) + 1] : j \in 1 .. (Len(w) \div Pair) - Overlap - 1}

(* The samples of a buffer among which the demodulator looks for the start *)
(* of a message; Demod has how it goes through them.                       *)
Starts(w) == {w[Pair * (j - 1) + 1] : j \in 1 .. (Len(w) \div Pair) - Guard}

Process ==
  /\ mpc = "got"
  /\ ~shutdown
  /\ result # Failed
  /\ result # <<>>
  /\ window' = tail \o result
  /\ tail' = NextTail(result)
  /\ scanned' = scanned \cup Starts(window')
  /\ consumed' = consumed + Len(result)
  /\ result' = <<>>
  /\ mpc' = "top"
  /\ UNCHANGED <<device, sent, ended, readerVars, queue, primed, shutdown, errors>>

-----------------------------------------------------------------------------
Next ==
  \/ ServerSend
  \/ \E how \in {"eof", "error"} : ServerEnd(how)
  \/ Interrupt
  \/ Open
  \/ OpenFails
  \/ Begin
  \/ \E n \in ReadSizes[device] : BeginAfterHeader(n)
  \/ \E n \in ReadSizes[device] : ReaderRead(n) \/ ReadFile(n)
  \/ ReaderEnd
  \/ ReaderSend
  \/ ReadRtlTcp
  \/ ReadFileEnd
  \/ ReadFileError
  \/ Top
  \/ Break
  \/ Retry
  \/ Wake
  \/ Process

Spec == Init /\ [][Next]_vars

-----------------------------------------------------------------------------
(* Every sample lies within the range of some buffer that is searched for  *)
(* starts: whatever the sizes of the reads, the overlap brings back every  *)
(* sample that the end of a buffer was too near to.  Of a file with a      *)
(* header that is so from the first tail on.  (Within its range the        *)
(* demodulator leaves out single positions, see GapsAreSingle of Demod.)   *)
EveryStartScanned ==
  \A j \in 0 .. (consumed \div Pair) - 1 :
    /\ consumed > primed
    /\ Pair * j >= primed - OverlapBytes
    /\ j < (consumed \div Pair) - Guard
    => Pair * j + 1 \in scanned

(* Every buffer begins with the first byte of a pair, so I and Q are never *)
(* swapped, although the socket cuts the stream anywhere.                  *)
PairsAligned == window # <<>> => (window[1] - 1) % Pair = 0

(* Tasks, channel and overlap together give the demodulator contiguous,    *)
(* overlapping stretches of the stream, in order and without loss.         *)
Feed == INSTANCE SampleFeed
ImplementsFeed == Feed!Spec

(* "EOF not handled: read_samples returning Ok(0) (file EOF / TCP close)   *)
(* caused the main loop to spin forever.  Added explicit Ok(0) => break"   *)
(* (CHANGELOG, 0.3.0): the end of the stream ends the program.             *)
(*                                                                         *)
(* An rtl_tcp client that keeps a Sender of its own channel waits forever. *)
EofEndsProgram == ended # "open" ~> mpc = "stop"

(* It holds for a file, also when some of the reads before its end fail.   *)
FileEndsProgram == IsFile ~> mpc = "stop"

(* Every chunk the server completed is processed, also when the connection *)
(* is closed right behind it; only a connection error or Ctrl-C loses it.  *)
ChunksProcessed ==
  \A c \in 1 .. StreamLength \div Chunk :
    device = "rtl_tcp" /\ sent >= c * Chunk ~> consumed >= c * Chunk \/ mpc = "stop" \/ ended = "error"

=============================================================================

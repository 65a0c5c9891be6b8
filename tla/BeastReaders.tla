---------------------------- MODULE BeastReaders ----------------------------
(***************************************************************************)
(* The two readers of Beast streams: read_loop of a network client         *)
(* (net/client.rs), which looks at each read on its own, and               *)
(* read_beast_frames (net/protocols/beast.rs), with which beast-client     *)
(* reads a server and which keeps unused bytes for the next read of the    *)
(* same call.  A sender encodes frames onto the wire, and each read        *)
(* returns some of the bytes on it.                                        *)
(***************************************************************************)
EXTENDS BeastCodec

CONSTANTS
  Readers,       (* "read_loop", and programs that use read_beast_frames    *)
  Sendable,      (* the frames the sender may send, by reader               *)
  WholeFrames,   (* how many frames one read may return, by reader          *)
  Cuts,          (* after how many bytes of a frame it may end, by reader   *)
  BufSize,       (* 65536 in the code                                       *)
  MaxFrames,     (* the max_frames argument, 100 or 1000, by reader         *)
  MaxSent        (* bound on the frames sent, by reader                     *)

ASSUME ReadersAssumption ==
  /\ WholeFrames \in [Readers -> Nat \ {0}]
  /\ Cuts \in [Readers -> SUBSET (Nat \ {0})]
  /\ BufSize \in Nat \ {0}
  /\ MaxFrames \in [Readers -> Nat \ {0}]
  /\ MaxSent \in [Readers -> Nat]

Frame(f) == [type |-> f.type, payload |-> f.payload]

(* A sender fills in the whole frame.                                      *)
ASSUME SendableAssumption ==
  \A r \in Readers : \A f \in Sendable[r] :
    /\ Frame(f) \in BeastFrame /\ Len(f.payload) = PayloadLen[f.type]
    /\ f.header \in Seq(Byte) /\ Len(f.header) = HeaderLen - 2

VARIABLES
  reader,    (* who reads                                                   *)
  wire,      (* encoded frames of which nothing has been read               *)
  pending,   (* the bytes before them: what is left of a frame partly read  *)
  sent,      (* history: the frames sent                                    *)
  buf,
  offset,    (* bytes kept from earlier reads of this call                  *)
  frames,    (* frames found by this call                                   *)
  got        (* frames handed on so far                                     *)

(* Histories: the frames that came in one piece, by the calls that have    *)
(* returned and by this one; whether frames may have been lost, and        *)
(* whether no read has begun or ended inside a frame.                      *)
VARIABLES uncut, due, lost, clean

vars == <<reader, wire, pending, sent, buf, offset, frames, got, uncut, due, lost, clean>>

EmptyBuf == [i \in 1 .. BufSize |-> 0]

TypeOK ==
  /\ reader \in Readers
  /\ Len(wire) <= Len(sent)
  /\ Len(sent) <= MaxSent[reader]
  /\ Len(buf) = BufSize
  /\ offset \in 0 .. BufSize
  /\ Len(frames) <= MaxFrames[reader]

Init ==
  /\ reader \in Readers
  /\ wire = <<>> /\ pending = <<>>
  /\ sent = <<>>
  /\ buf = EmptyBuf
  /\ offset = 0
  /\ frames = <<>>
  /\ got = <<>>
  /\ uncut = <<>> /\ due = <<>>
  /\ lost = FALSE
  /\ clean = TRUE

Send(f) ==
  /\ Len(sent) < MaxSent[reader]
  /\ wire' = Append(wire, Encode(f.type, f.header, f.payload))
  /\ sent' = Append(sent, Frame(f))
  /\ UNCHANGED <<reader, pending, buf, offset, frames, got, uncut, due, lost, clean>>

(* How many frames have been taken from the wire.                          *)
Taken == Len(sent) - Len(wire)

(* The reads the socket may do: the bytes returned, the frames that are    *)
(* whole among them, and what is left.  A read ends inside the frame that  *)
(* an earlier one ended in, after whole frames, or inside the next one.    *)
Reads ==
  {[bytes |-> SubSeq(pending, 1, m), whole |-> <<>>, rest |-> wire, pending |-> From(pending, m + 1)] :
     m \in {c \in Cuts[reader] : c < Len(pending)}}
  \cup
  {[bytes |-> pending \o FlattenSeq(SubSeq(wire, 1, k)), whole |-> SubSeq(sent, Taken + 1, Taken + k),
    rest |-> From(wire, k + 1), pending |-> <<>>] :
     k \in {c \in 0 .. Min({WholeFrames[reader], Len(wire)}) : c > 0 \/ pending # <<>>}}
  \cup
  {[bytes |-> pending \o FlattenSeq(SubSeq(wire, 1, km[1])) \o SubSeq(wire[km[1] + 1], 1, km[2]),
    whole |-> SubSeq(sent, Taken + 1, Taken + km[1]),
    rest |-> From(wire, km[1] + 2), pending |-> From(wire[km[1] + 1], km[2] + 1)] :
     km \in {c \in (0 .. WholeFrames[reader]) \X Cuts[reader] :
                c[1] < Len(wire) /\ c[2] < Len(wire[c[1] + 1])}}

BetweenFrames(r) == pending = <<>> /\ r.pending = <<>>

Overwrite(b, at, bytes) == SubSeq(b, 1, at) \o bytes \o From(b, at + Len(bytes) + 1)

(* One turn of read_loop.  A read error ends the client, and so does the   *)
(* end of the stream: then it does not take this step again.               *)
ClientRead(r) ==
  /\ reader = "read_loop"
  /\ Len(r.bytes) <= BufSize
  /\ wire' = r.rest /\ pending' = r.pending
  /\ buf' = Overwrite(buf, 0, r.bytes)
  /\ got' = got \o ClientFrames(buf', Len(r.bytes))
  /\ uncut' = IF pending = <<>> /\ r.whole # <<>> THEN Append(uncut, r.whole[1]) ELSE uncut
  /\ clean' = (clean /\ BetweenFrames(r) /\ Len(r.whole) = 1)
  /\ UNCHANGED <<reader, sent, offset, frames, due, lost>>

(* A call is over: whatever else is in its buffer is gone with it, and the *)
(* next call starts with an empty one.                                     *)
Leave == frames' = <<>> /\ buf' = EmptyBuf /\ offset' = 0 /\ due' = <<>>

Return(found) ==
  /\ got' = got \o found
  /\ uncut' = uncut \o due
  /\ Leave

Room_Any(n) == TRUE                 \* mutant: reads past the end of the buffer

(* The slice given to read ends with the buffer.                           *)
Room(n) == n <= BufSize

(* One turn of read_beast_frames.                                          *)
BatchRead(r) ==
  LET n == offset + Len(r.bytes)
      b == Overwrite(buf, offset, r.bytes)
      s == ScanFrames(b, n, MaxFrames[reader] - Len(frames))
      found == frames \o s.frames
  IN
  /\ reader # "read_loop"
  /\ Room(n)
  /\ wire' = r.rest /\ pending' = r.pending
  /\ clean' = (clean /\ BetweenFrames(r))
  /\ UNCHANGED <<reader, sent>>
  /\ IF Len(found) >= MaxFrames[reader]
     THEN Return(found) /\ lost' = TRUE
     ELSE /\ frames' = found
          /\ due' = due \o r.whole
          /\ buf' = Overwrite(b, 0, SubSeq(b, s.used + 1, n))
          /\ offset' = n - s.used
          /\ UNCHANGED <<got, uncut, lost>>

(* A read that times out, the end of the stream, or a read into a buffer   *)
(* without room, which looks like it.                                      *)
BatchEnd ==
  /\ reader # "read_loop"
  /\ Return(frames)
  /\ UNCHANGED <<reader, wire, pending, sent, lost, clean>>

(* Any other error of a read: the frames this call has found are gone, and *)
(* the caller goes on as with none.  After a signal it reads on; after a   *)
(* reset nothing more comes, and none of the steps above is taken again.   *)
BatchError ==
  /\ reader # "read_loop"
  /\ Leave
  /\ lost' = TRUE
  /\ UNCHANGED <<reader, wire, pending, sent, got, uncut, clean>>

Next ==
  \/ \E f \in Sendable[reader] : Send(f)
  \/ \E r \in Reads : ClientRead(r) \/ BatchRead(r)
  \/ BatchEnd
  \/ BatchError

Spec == Init /\ [][Next]_vars

-----------------------------------------------------------------------------
(* A frame that was encoded is parsed back, whatever bytes it is made of   *)
(* and whatever frames follow it on the wire.                              *)
RoundTrip ==
  \A i \in DOMAIN wire : Parse(FlattenSeq(From(wire, i))) = sent[Taken + i]

(* s is t with some elements left out.                                     *)
Selection(s, t) ==
  \E at \in [DOMAIN s -> DOMAIN t] :
    /\ \A i \in DOMAIN s : s[i] = t[at[i]]
    /\ \A i, j \in DOMAIN s : i < j => at[i] < at[j]

(* A frame that comes in one piece is found, unaltered and in order, among *)
(* whatever bytes, stale ones and pieces of other frames: every one in a   *)
(* read of read_beast_frames, and in a read of read_loop the one it begins *)
(* with.  What has been found is handed on, but for a call that ends with  *)
(* an error; and of the last read of one that ends at max_frames it may be *)
(* that not every frame is.                                                *)
UncutFramesArrive == Selection(uncut, got) /\ Selection(due, frames)

(* None of these bytes of s looks like the start of a frame, whatever      *)
(* follows them.                                                           *)
Quiet(s, from, to) == \A i \in from .. to : s[i] = ESC => i < to /\ s[i + 1] \notin DOMAIN PayloadLen

(* What read_beast_frames needs to tell frames apart: that they have one   *)
(* start.  read_loop steps over the rest of a frame.                       *)
FramesAreTellable ==
  reader # "read_loop" =>
    \A f \in Sendable[reader] :
      LET e == Encode(f.type, f.header, f.payload) IN Quiet(e, 2, Len(e))

(* When reads end between frames, in read_loop after each, and frames can  *)
(* be told apart, what has been found so far is what was sent, in order    *)
(* and unaltered, with nothing added, and once everything has been read    *)
(* nothing is missing; only calls that end at max_frames or with an error  *)
(* lose frames.                                                            *)
FramesArriveIntact ==
  LET all == got \o frames
  IN  clean /\ FramesAreTellable =>
        IF lost
        THEN Selection(all, sent)
        ELSE IsPrefix(all, sent) /\ (wire = <<>> => all = sent)

(* What the documents promise: for read_loop "Now uses parse_beast_frame   *)
(* ... which correctly handles 0x1a markers, 9-byte headers, and           *)
(* byte-stuffing" (CHANGELOG, 0.9.3), for read_beast_frames "Preserves     *)
(* partial data between reads for fragmented TCP streams" (beast.rs).  It  *)
(* does not hold: of two short frames in one read read_loop skips the      *)
(* second, and of a frame that comes in two pieces read_beast_frames makes *)
(* one that ends in older bytes of the buffer.                             *)
AllFramesArrive ==
  wire = <<>> /\ pending = <<>> /\ ~lost => Selection(sent, got \o frames)

=============================================================================

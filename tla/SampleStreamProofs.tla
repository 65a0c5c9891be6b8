------------------------- MODULE SampleStreamProofs -------------------------
(***************************************************************************)
(* Proofs about SampleStream, for every size of chunk, channel, overlap    *)
(* and read.  The invariant says, of each place bytes can be in, which     *)
(* stretch of the stream is there: the chunk under construction, the       *)
(* channel, what read_samples returned, and the tail follow one another    *)
(* without a gap.  The rest follows from it.                               *)
(*                                                                         *)
(* SdrSetup is SampleStream with the opening of the device spelled out, so *)
(* what is proved of the stream holds of it; and the receiver has been     *)
(* told its settings before anything is read.                              *)
(***************************************************************************)
EXTENDS SdrSetup, SequenceTheorems, TLAPS

(* A stretch of n bytes.                                                   *)
LEMMA BytesType ==
  ASSUME NEW f \in Int, NEW n \in Nat
  PROVE  /\ Bytes(f, n) \in Seq(Int)
         /\ Len(Bytes(f, n)) = n
         /\ \A i \in 1 .. n : Bytes(f, n)[i] = f + i - 1
BY DEF Bytes

(* A sequence of consecutive positions is a stretch.                       *)
LEMMA BytesAre ==
  ASSUME NEW s \in Seq(Int), NEW f \in Int,
         \A i \in 1 .. Len(s) : s[i] = f + i - 1
  PROVE  s = Bytes(f, Len(s))
<1>1. Len(s) \in Nat
  OBVIOUS
<1> QED
  BY <1>1, BytesType, SeqEqual

(* Adjacent stretches make one, and so does a part of one.                 *)
LEMMA BytesConcat ==
  ASSUME NEW f \in Int, NEW n \in Nat, NEW m \in Nat
  PROVE  Bytes(f, n) \o Bytes(f + n, m) = Bytes(f, n + m)
<1> DEFINE a == Bytes(f, n)
           b == Bytes(f + n, m)
           s == a \o b
<1>1. /\ a \in Seq(Int) /\ Len(a) = n /\ \A i \in 1 .. n : a[i] = f + i - 1
      /\ b \in Seq(Int) /\ Len(b) = m /\ \A i \in 1 .. m : b[i] = f + n + i - 1
  BY BytesType
<1> HIDE DEF a, b
<1>2. s \in Seq(Int) /\ Len(s) = n + m
  BY <1>1, ConcatProperties
<1>3. ASSUME NEW i \in Int, 1 <= i, i <= n + m
      PROVE  s[i] = f + i - 1
  <2>1. s[i] = IF i <= n THEN a[i] ELSE b[i - n]
    BY <1>1, <1>3, ConcatProperties
  <2>2. CASE i <= n
    BY <1>1, <1>3, <2>1, <2>2
  <2>3. CASE ~(i <= n)
    <3>1. i - n \in 1 .. m
      BY <1>3, <2>3
    <3>2. b[i - n] = f + n + (i - n) - 1
      BY <1>1, <3>1
    <3> QED
      BY <2>1, <2>3, <3>2
  <2> QED
    BY <2>2, <2>3
<1> HIDE DEF s
<1>4. s = Bytes(f, Len(s))
  BY <1>2, <1>3, BytesAre
<1> QED
  BY <1>2, <1>4 DEF s, a, b

LEMMA BytesSub ==
  ASSUME NEW f \in Int, NEW n \in Nat, NEW a \in Int, NEW b \in Int,
         1 <= a, a <= b + 1, b <= n
  PROVE  SubSeq(Bytes(f, n), a, b) = Bytes(f + a - 1, b - a + 1)
<1> DEFINE r == Bytes(f, n)
           s == SubSeq(r, a, b)
<1>1. r \in Seq(Int) /\ Len(r) = n /\ \A i \in 1 .. n : r[i] = f + i - 1
  BY BytesType
<1> HIDE DEF r
<1>2. \A i \in a .. b : r[i] \in Int
  BY <1>1
<1>3. s \in Seq(Int) /\ Len(s) = b - a + 1 /\ \A i \in 1 .. (b - a + 1) : s[i] = r[a + i - 1]
  BY <1>2, SubSeqProperties
<1> HIDE DEF s
<1>4. ASSUME NEW i \in Int, 1 <= i, i <= b - a + 1
      PROVE  s[i] = (f + a - 1) + i - 1
  <2>1. a + i - 1 \in 1 .. n /\ s[i] = r[a + i - 1]
    BY <1>3, <1>4
  <2>2. r[a + i - 1] = f + (a + i - 1) - 1
    BY <1>1, <2>1
  <2> QED
    BY <2>1, <2>2
<1>5. s = Bytes(f + a - 1, Len(s))
  <2>1. f + a - 1 \in Int /\ s \in Seq(Int)
    BY <1>3
  <2>2. \A i \in 1 .. Len(s) : s[i] = (f + a - 1) + i - 1
    BY <1>3, <1>4
  <2> QED
    BY <2>1, <2>2, BytesAre
<1> QED
  BY <1>3, <1>5 DEF r, s

LEMMA BytesNone ==
  ASSUME NEW f \in Int
  PROVE  Bytes(f, 0) = <<>>
BY BytesType

-----------------------------------------------------------------------------
(* How far the bytes are that the main loop has, used or not.              *)
Handed == consumed + (IF result = Failed THEN 0 ELSE Len(result))

(* What read_samples returned is what follows the bytes already used.      *)
ResultInv ==
  /\ result # Failed => result = Bytes(consumed + 1, Len(result))
  /\ mpc \notin {"got", "stop"} => result \in {<<>>, Failed}

(* The tail is the end of the bytes already used.                          *)
TailInv == tail = Bytes(consumed - OverlapBytes + 1, OverlapBytes)

(* The chunk under construction is the last that was read, and full when   *)
(* it is sent.                                                             *)
BufInv ==
  /\ buf = Bytes(taken - Len(buf) + 1, Len(buf))
  /\ rpc = "send" => Len(buf) = Chunk

(* The channel holds the chunks between what the main loop has and what    *)
(* the reader has.                                                         *)
QueueInv ==
  ~IsFile =>
    /\ \A i \in 1 .. Len(queue) : queue[i] = Bytes(Handed + 1 + (i - 1) * Chunk, Chunk)
    /\ rpc # "done" => taken = Handed + Len(queue) * Chunk + Len(buf)

(* A file has neither task nor channel.                                    *)
FileInv ==
  IsFile =>
    /\ queue = <<>> /\ buf = <<>>
    /\ rpc \in {"none", "done"}
    /\ mpc \notin {"open", "opened", "stop"} => taken = Handed

(* Before the main loop begins it has nothing.                             *)
OpenInv ==
  mpc \in {"open", "opened"} =>
    /\ window = <<>> /\ consumed = 0 /\ result = <<>>
    /\ IsFile => taken = -Header
    /\ mpc = "open" => rpc = "none"

IInv == TypeOK /\ ResultInv /\ TailInv /\ BufInv /\ QueueInv /\ FileInv /\ OpenInv

(* n bytes are whole pairs.                                                *)
Multiple(n) == \E k \in Int : n = k * Pair

(* What is read and used is whole pairs, and buffers begin with a pair.    *)
AlignedInv ==
  /\ Multiple(consumed)
  /\ result # Failed => Multiple(Len(result))
  /\ window # <<>> => Multiple(window[1] - 1)


(* The numbers derived from the constants.                                 *)
LEMMA Sizes ==
  /\ Chunk \in Nat \ {0} /\ Pair \in Nat \ {0} /\ HeaderLen \in Nat
  /\ OverlapBytes \in Nat
  /\ Header \in Nat
<1>1. Overlap * Pair \in Nat
  BY StreamAssumption
<1> QED
  BY <1>1, StreamAssumption DEF OverlapBytes, Header

(* The next tail is the end of the bytes used by then, however long the    *)
(* read was.                                                               *)
LEMMA NextTailIsEnd ==
  ASSUME NEW c \in Int, NEW k \in Nat, NEW data,
         data = Bytes(c + 1, k), tail = Bytes(c - OverlapBytes + 1, OverlapBytes)
  PROVE  NextTail(data) = Bytes(c + k - OverlapBytes + 1, OverlapBytes)
<1>1. OverlapBytes \in Nat
  BY Sizes
<1>2. Len(data) = k
  BY BytesType
<1>3. CASE k < OverlapBytes
  <2>1. SubSeq(tail, k + 1, OverlapBytes) = Bytes(c + k - OverlapBytes + 1, OverlapBytes - k)
    <3>1. SubSeq(Bytes(c - OverlapBytes + 1, OverlapBytes), k + 1, OverlapBytes)
            = Bytes((c - OverlapBytes + 1) + (k + 1) - 1, OverlapBytes - (k + 1) + 1)
      <4>1. /\ c - OverlapBytes + 1 \in Int /\ k + 1 \in Int
            /\ 1 <= k + 1 /\ k + 1 <= OverlapBytes + 1 /\ OverlapBytes <= OverlapBytes
            /\ OverlapBytes \in Int
        BY <1>1, <1>3
      <4> QED
        BY <1>1, <4>1, BytesSub, ZenonT(60)
    <3>2. /\ (c - OverlapBytes + 1) + (k + 1) - 1 = c + k - OverlapBytes + 1
          /\ OverlapBytes - (k + 1) + 1 = OverlapBytes - k
      BY <1>1
    <3> QED
      BY <3>1, <3>2
  <2>2. Last(data, k) = Bytes(c + 1, k)
    <3>1. SubSeq(Bytes(c + 1, k), 1, k) = Bytes((c + 1) + 1 - 1, k - 1 + 1)
      <4>1. c + 1 \in Int /\ 1 \in Int /\ k \in Int /\ 1 <= 1 /\ 1 <= k + 1 /\ k <= k
        OBVIOUS
      <4> QED
        BY <4>1, BytesSub, ZenonT(60)
    <3>2. k - k + 1 = 1 /\ (c + 1) + 1 - 1 = c + 1 /\ k - 1 + 1 = k
      OBVIOUS
    <3> QED
      BY <1>2, <3>1, <3>2 DEF Last
  <2>3. Bytes(c + k - OverlapBytes + 1, OverlapBytes - k) \o Bytes(c + 1, k)
          = Bytes(c + k - OverlapBytes + 1, OverlapBytes)
    <3>1. /\ (c + k - OverlapBytes + 1) + (OverlapBytes - k) = c + 1
          /\ (OverlapBytes - k) + k = OverlapBytes
          /\ c + k - OverlapBytes + 1 \in Int
          /\ OverlapBytes - k \in Nat
      BY <1>1, <1>3
    <3>2. Bytes(c + k - OverlapBytes + 1, OverlapBytes - k)
            \o Bytes((c + k - OverlapBytes + 1) + (OverlapBytes - k), k)
              = Bytes(c + k - OverlapBytes + 1, (OverlapBytes - k) + k)
      BY <3>1, BytesConcat, Zenon
    <3> QED
      BY <3>1, <3>2
  <2> QED
    BY <1>2, <1>3, <2>1, <2>2, <2>3 DEF NextTail
<1>4. CASE ~(k < OverlapBytes)
  <2>1. SubSeq(tail, OverlapBytes + 1, OverlapBytes) = <<>>
    BY <1>1, SubSeqEmpty
  <2>2. Last(data, OverlapBytes) = Bytes(c + k - OverlapBytes + 1, OverlapBytes)
    <3>1. SubSeq(Bytes(c + 1, k), k - OverlapBytes + 1, k)
            = Bytes((c + 1) + (k - OverlapBytes + 1) - 1, k - (k - OverlapBytes + 1) + 1)
      <4>1. /\ c + 1 \in Int /\ k - OverlapBytes + 1 \in Int /\ k \in Int
            /\ 1 <= k - OverlapBytes + 1 /\ k - OverlapBytes + 1 <= k + 1 /\ k <= k
        BY <1>1, <1>4
      <4> QED
        BY <4>1, BytesSub, ZenonT(60)
    <3>2. /\ (c + 1) + (k - OverlapBytes + 1) - 1 = c + k - OverlapBytes + 1
          /\ k - (k - OverlapBytes + 1) + 1 = OverlapBytes
      BY <1>1
    <3> QED
      BY <1>2, <3>1, <3>2 DEF Last
  <2>3. <<>> \o Last(data, OverlapBytes) = Last(data, OverlapBytes)
    BY <1>1, <2>2, BytesType, ConcatEmptySeq
  <2> QED
    BY <1>2, <1>4, <2>1, <2>2, <2>3 DEF NextTail
<1> QED
  BY <1>3, <1>4

(* What the demodulator is given, when the tail and the read are as they   *)
(* should be.                                                              *)
LEMMA WindowIsStretch ==
  ASSUME NEW c \in Int, NEW k \in Nat
  PROVE  Bytes(c - OverlapBytes + 1, OverlapBytes) \o Bytes(c + 1, k)
           = Bytes(c - OverlapBytes + 1, OverlapBytes + k)
<1>1. OverlapBytes \in Nat
  BY Sizes
<1>2. c - OverlapBytes + 1 \in Int /\ (c - OverlapBytes + 1) + OverlapBytes = c + 1
  BY <1>1
<1> QED
  BY <1>1, <1>2, BytesConcat

(* An empty read is a stretch of no bytes, and not a failed one.           *)
LEMMA Nothing ==
  /\ <<>> # Failed /\ Len(<<>>) = 0
  /\ \A f \in Int : <<>> = Bytes(f, 0) /\ <<>> = Bytes(f - 0 + 1, 0)
<1>1. <<>> # Failed /\ Len(<<>>) = 0
  BY EmptySeq, StreamAssumption
<1>2. ASSUME NEW f \in Int
      PROVE  <<>> = Bytes(f, 0) /\ <<>> = Bytes(f - 0 + 1, 0)
  <2>1. f - 0 + 1 \in Int
    OBVIOUS
  <2> QED
    BY <2>1, BytesNone
<1> QED
  BY <1>1, <1>2

LEMMA HandedType == TypeOK => Handed \in Nat
BY DEF TypeOK, Handed

(* The main loop has used what it has unless a read is waiting for it.     *)
LEMMA HandedIdle ==
  ASSUME TypeOK, result \in {<<>>, Failed}
  PROVE  Handed = consumed /\ consumed \in Nat
<1>1. consumed \in Nat /\ consumed + 0 = consumed
  BY DEF TypeOK
<1>2. CASE result = <<>>
  BY <1>1, <1>2, Nothing DEF Handed
<1>3. CASE result = Failed
  BY <1>1, <1>3 DEF Handed
<1> QED
  BY <1>2, <1>3, <1>1

(* Multiplying by Pair keeps the order.                                    *)
LEMMA Monotone ==
  ASSUME NEW a \in Int, NEW b \in Int, a <= b
  PROVE  Pair * a <= Pair * b
BY StreamAssumption

(* What is searched of a buffer lies within it.                            *)
LEMMA StartsType ==
  ASSUME NEW w \in Seq(Int)
  PROVE  Starts(w) \subseteq Int
<1> SUFFICES ASSUME NEW j \in 1 .. (Len(w) \div Pair) - Guard
             PROVE  w[Pair * (j - 1) + 1] \in Int
  BY DEF Starts
<1>1. Len(w) \in Nat /\ Pair \in Nat \ {0} /\ Guard \in Nat
  BY StreamAssumption
<1>2. Len(w) \div Pair \in Nat /\ Pair * (Len(w) \div Pair) <= Len(w)
  BY <1>1
<1>3. j \in Int /\ 0 <= j - 1 /\ j <= Len(w) \div Pair
  BY <1>1, <1>2
<1>4. Pair * j <= Pair * (Len(w) \div Pair)
  BY <1>2, <1>3, Monotone
<1>5. 0 <= Pair * (j - 1) /\ Pair * (j - 1) = Pair * j - Pair
  BY <1>1, <1>3
<1>6. Pair * (j - 1) + 1 \in 1 .. Len(w)
  BY <1>1, <1>2, <1>3, <1>4, <1>5
<1> QED
  BY <1>6

LEMMA InitInvariant == Init => IInv
<1> SUFFICES ASSUME Init PROVE IInv
  OBVIOUS
<1>1. Header \in Nat /\ OverlapBytes \in Nat /\ Chunk \in Nat
  BY Sizes
<1>2. tail \in Seq(Int) /\ Len(tail) = OverlapBytes
  <2>1. tail = Bytes(1 - OverlapBytes, OverlapBytes) /\ 1 - OverlapBytes \in Int
    BY <1>1 DEF Init
  <2> QED
    BY <1>1, <2>1, BytesType
<1>3. buf = Bytes(taken - Len(buf) + 1, Len(buf))
  <2>1. buf = <<>> /\ Len(buf) = 0 /\ taken - 0 + 1 \in Int
    BY <1>1 DEF Init
  <2> QED
    BY <2>1, BytesNone
<1>4. result = Bytes(consumed + 1, Len(result))
  BY BytesNone DEF Init
<1>5. TypeOK
  <2>1. /\ <<>> \in Seq(Int) /\ <<>> \in Seq(Seq(Int)) /\ Len(<<>>) = 0
    BY EmptySeq
  <2>2. taken \in -Header .. sent
    BY <1>1, StreamAssumption DEF Init
  <2>3. /\ sent \in 0 .. StreamLength /\ ended \in {"open", "eof", "error"} /\ errors \in 0 .. MaxErrors
    BY StreamAssumption DEF Init
  <2>4. /\ buf = <<>> /\ queue = <<>> /\ result = <<>> /\ window = <<>>
        /\ consumed = 0 /\ primed = 0 /\ scanned = {} /\ shutdown = FALSE
        /\ device \in Devices /\ rpc = "none" /\ mpc = "open"
    BY DEF Init
  <2>5. 0 <= Chunk /\ 0 <= Capacity /\ 0 \in Nat /\ 0 \in 0 .. 0 /\ {} \subseteq Int
    BY StreamAssumption
  <2> QED
    BY <1>2, <2>1, <2>2, <2>3, <2>4, <2>5 DEF TypeOK
<1>6. TailInv
  <2>1. 1 - OverlapBytes = 0 - OverlapBytes + 1
    BY <1>1
  <2> QED
    BY <2>1 DEF Init, TailInv
<1>7. QueueInv
  <2>1. <<>> # Failed
    BY EmptySeq, StreamAssumption
  <2>2. ~IsFile => Header = 0
    BY DEF IsFile, Header
  <2> QED
    BY <1>1, <2>1, <2>2 DEF Init, QueueInv, Handed
<1> QED
  BY <1>3, <1>4, <1>5, <1>6, <1>7 DEF Init, IInv, ResultInv, BufInv, FileInv, OpenInv, IsFile

(* One step for each action.  The ones that move bytes are from <1>12 on;  *)
(* the others only have to leave all parts of the invariant alone.         *)
LEMMA NextInvariant == IInv /\ [Next]_vars => IInv'
<1> SUFFICES ASSUME IInv, [Next]_vars PROVE IInv'
  OBVIOUS
<1>0. TypeOK /\ ResultInv /\ TailInv /\ BufInv /\ QueueInv /\ FileInv /\ OpenInv
  BY DEF IInv
<1>1. CASE ServerSend
  <2>1. TypeOK'
    BY <1>0, <1>1, Sizes, StreamAssumption DEF ServerSend, readerVars, mainVars, TypeOK, Header
  <2>2. ResultInv'
    BY <1>0, <1>1, Sizes, StreamAssumption DEF ServerSend, readerVars, mainVars, ResultInv
  <2>3. TailInv'
    BY <1>0, <1>1, Sizes, StreamAssumption DEF ServerSend, readerVars, mainVars, TailInv
  <2>4. BufInv'
    BY <1>0, <1>1, Sizes, StreamAssumption DEF ServerSend, readerVars, mainVars, BufInv
  <2>5. QueueInv'
    BY <1>0, <1>1, Sizes, StreamAssumption DEF ServerSend, readerVars, mainVars, QueueInv, Handed, IsFile
  <2>6. FileInv'
    BY <1>0, <1>1, Sizes, StreamAssumption DEF ServerSend, readerVars, mainVars, FileInv, Handed, IsFile
  <2>7. OpenInv'
    BY <1>0, <1>1, Sizes, StreamAssumption DEF ServerSend, readerVars, mainVars, OpenInv, IsFile, Header
  <2> QED
    BY <2>1, <2>2, <2>3, <2>4, <2>5, <2>6, <2>7 DEF IInv
<1>2. ASSUME NEW how \in {"eof", "error"}, ServerEnd(how)
      PROVE  IInv'
  <2>1. TypeOK'
    BY <1>0, <1>2, Sizes, StreamAssumption DEF ServerEnd, readerVars, mainVars, TypeOK, Header
  <2>2. ResultInv'
    BY <1>0, <1>2, Sizes, StreamAssumption DEF ServerEnd, readerVars, mainVars, ResultInv
  <2>3. TailInv'
    BY <1>0, <1>2, Sizes, StreamAssumption DEF ServerEnd, readerVars, mainVars, TailInv
  <2>4. BufInv'
    BY <1>0, <1>2, Sizes, StreamAssumption DEF ServerEnd, readerVars, mainVars, BufInv
  <2>5. QueueInv'
    BY <1>0, <1>2, Sizes, StreamAssumption DEF ServerEnd, readerVars, mainVars, QueueInv, Handed, IsFile
  <2>6. FileInv'
    BY <1>0, <1>2, Sizes, StreamAssumption DEF ServerEnd, readerVars, mainVars, FileInv, Handed, IsFile
  <2>7. OpenInv'
    BY <1>0, <1>2, Sizes, StreamAssumption DEF ServerEnd, readerVars, mainVars, OpenInv, IsFile, Header
  <2> QED
    BY <2>1, <2>2, <2>3, <2>4, <2>5, <2>6, <2>7 DEF IInv
<1>3. CASE Interrupt
  <2>1. TypeOK'
    BY <1>0, <1>3, Sizes, StreamAssumption DEF Interrupt, readerVars, mainVars, TypeOK, Header
  <2>2. ResultInv'
    BY <1>0, <1>3, Sizes, StreamAssumption DEF Interrupt, readerVars, mainVars, ResultInv
  <2>3. TailInv'
    BY <1>0, <1>3, Sizes, StreamAssumption DEF Interrupt, readerVars, mainVars, TailInv
  <2>4. BufInv'
    BY <1>0, <1>3, Sizes, StreamAssumption DEF Interrupt, readerVars, mainVars, BufInv
  <2>5. QueueInv'
    BY <1>0, <1>3, Sizes, StreamAssumption DEF Interrupt, readerVars, mainVars, QueueInv, Handed, IsFile
  <2>6. FileInv'
    BY <1>0, <1>3, Sizes, StreamAssumption DEF Interrupt, readerVars, mainVars, FileInv, Handed, IsFile
  <2>7. OpenInv'
    BY <1>0, <1>3, Sizes, StreamAssumption DEF Interrupt, readerVars, mainVars, OpenInv, IsFile, Header
  <2> QED
    BY <2>1, <2>2, <2>3, <2>4, <2>5, <2>6, <2>7 DEF IInv
<1>4. CASE Open
  <2>1. TypeOK'
    BY <1>0, <1>4, Sizes, StreamAssumption DEF Open, TypeOK, Header
  <2>2. ResultInv'
    BY <1>0, <1>4, Sizes, StreamAssumption DEF Open, ResultInv
  <2>3. TailInv'
    BY <1>0, <1>4, Sizes, StreamAssumption DEF Open, TailInv
  <2>4. BufInv'
    BY <1>0, <1>4, Sizes, StreamAssumption DEF Open, BufInv
  <2>5. QueueInv'
    <3>1. rpc = "none" /\ (rpc' # "done" => ~IsFile)
      BY <1>0, <1>4 DEF Open, OpenInv, IsFile
    <3> QED
      BY <1>0, <1>4, <3>1 DEF Open, QueueInv, Handed, IsFile
  <2>6. FileInv'
    BY <1>0, <1>4, Sizes, StreamAssumption DEF Open, FileInv, Handed, IsFile
  <2>7. OpenInv'
    BY <1>0, <1>4, Sizes, StreamAssumption DEF Open, OpenInv, IsFile, Header
  <2> QED
    BY <2>1, <2>2, <2>3, <2>4, <2>5, <2>6, <2>7 DEF IInv
<1>5. CASE OpenFails
  <2>1. TypeOK'
    BY <1>0, <1>5, Sizes, StreamAssumption DEF OpenFails, readerVars, mainVars, TypeOK, Header
  <2>2. ResultInv'
    BY <1>0, <1>5, Sizes, StreamAssumption DEF OpenFails, readerVars, mainVars, ResultInv
  <2>3. TailInv'
    BY <1>0, <1>5, Sizes, StreamAssumption DEF OpenFails, readerVars, mainVars, TailInv
  <2>4. BufInv'
    BY <1>0, <1>5, Sizes, StreamAssumption DEF OpenFails, readerVars, mainVars, BufInv
  <2>5. QueueInv'
    BY <1>0, <1>5, Sizes, StreamAssumption DEF OpenFails, readerVars, mainVars, QueueInv, Handed, IsFile
  <2>6. FileInv'
    BY <1>0, <1>5, Sizes, StreamAssumption DEF OpenFails, readerVars, mainVars, FileInv, Handed, IsFile
  <2>7. OpenInv'
    BY <1>0, <1>5, Sizes, StreamAssumption DEF OpenFails, readerVars, mainVars, OpenInv, IsFile, Header
  <2> QED
    BY <2>1, <2>2, <2>3, <2>4, <2>5, <2>6, <2>7 DEF IInv
<1>6. CASE Begin
  <2>1. TypeOK'
    BY <1>0, <1>6, Sizes, StreamAssumption DEF Begin, readerVars, mainVars, TypeOK, Header
  <2>2. ResultInv'
    BY <1>0, <1>6, Sizes, StreamAssumption DEF Begin, readerVars, mainVars, ResultInv
  <2>3. TailInv'
    BY <1>0, <1>6, Sizes, StreamAssumption DEF Begin, readerVars, mainVars, TailInv
  <2>4. BufInv'
    BY <1>0, <1>6, Sizes, StreamAssumption DEF Begin, readerVars, mainVars, BufInv
  <2>5. QueueInv'
    BY <1>0, <1>6, Sizes, StreamAssumption DEF Begin, readerVars, mainVars, QueueInv, Handed, IsFile
  <2>6. FileInv'
    <3>1. result = <<>> /\ consumed = 0 /\ Len(result) = 0 /\ (IsFile => taken = 0)
      BY <1>0, <1>6 DEF Begin, OpenInv, Header
    <3>2. IsFile => taken = Handed
      BY <3>1 DEF Handed
    <3> QED
      BY <1>0, <1>6, <3>2 DEF Begin, readerVars, FileInv, Handed, IsFile
  <2>7. OpenInv'
    BY <1>0, <1>6, Sizes, StreamAssumption DEF Begin, readerVars, mainVars, OpenInv, IsFile, Header
  <2> QED
    BY <2>1, <2>2, <2>3, <2>4, <2>5, <2>6, <2>7 DEF IInv
<1>7. CASE Top
  <2>1. TypeOK'
    BY <1>0, <1>7, Sizes, StreamAssumption DEF Top, readerVars, mainVars, TypeOK, Header
  <2>2. ResultInv'
    BY <1>0, <1>7, Sizes, StreamAssumption DEF Top, readerVars, mainVars, ResultInv
  <2>3. TailInv'
    BY <1>0, <1>7, Sizes, StreamAssumption DEF Top, readerVars, mainVars, TailInv
  <2>4. BufInv'
    BY <1>0, <1>7, Sizes, StreamAssumption DEF Top, readerVars, mainVars, BufInv
  <2>5. QueueInv'
    BY <1>0, <1>7, Sizes, StreamAssumption DEF Top, readerVars, mainVars, QueueInv, Handed, IsFile
  <2>6. FileInv'
    BY <1>0, <1>7, Sizes, StreamAssumption DEF Top, readerVars, mainVars, FileInv, Handed, IsFile
  <2>7. OpenInv'
    BY <1>0, <1>7, Sizes, StreamAssumption DEF Top, readerVars, mainVars, OpenInv, IsFile, Header
  <2> QED
    BY <2>1, <2>2, <2>3, <2>4, <2>5, <2>6, <2>7 DEF IInv
<1>8. CASE Break
  <2>1. TypeOK'
    BY <1>0, <1>8, Sizes, StreamAssumption DEF Break, readerVars, mainVars, TypeOK, Header
  <2>2. ResultInv'
    BY <1>0, <1>8, Sizes, StreamAssumption DEF Break, readerVars, mainVars, ResultInv
  <2>3. TailInv'
    BY <1>0, <1>8, Sizes, StreamAssumption DEF Break, readerVars, mainVars, TailInv
  <2>4. BufInv'
    BY <1>0, <1>8, Sizes, StreamAssumption DEF Break, readerVars, mainVars, BufInv
  <2>5. QueueInv'
    BY <1>0, <1>8, Sizes, StreamAssumption DEF Break, readerVars, mainVars, QueueInv, Handed, IsFile
  <2>6. FileInv'
    BY <1>0, <1>8, Sizes, StreamAssumption DEF Break, readerVars, mainVars, FileInv, Handed, IsFile
  <2>7. OpenInv'
    BY <1>0, <1>8, Sizes, StreamAssumption DEF Break, readerVars, mainVars, OpenInv, IsFile, Header
  <2> QED
    BY <2>1, <2>2, <2>3, <2>4, <2>5, <2>6, <2>7 DEF IInv
<1>9. CASE Retry
  <2>1. TypeOK'
    BY <1>0, <1>9, Sizes, StreamAssumption DEF Retry, readerVars, mainVars, TypeOK, Header
  <2>2. ResultInv'
    BY <1>0, <1>9, Sizes, StreamAssumption DEF Retry, readerVars, mainVars, ResultInv
  <2>3. TailInv'
    BY <1>0, <1>9, Sizes, StreamAssumption DEF Retry, readerVars, mainVars, TailInv
  <2>4. BufInv'
    BY <1>0, <1>9, Sizes, StreamAssumption DEF Retry, readerVars, mainVars, BufInv
  <2>5. QueueInv'
    BY <1>0, <1>9, Sizes, StreamAssumption DEF Retry, readerVars, mainVars, QueueInv, Handed, IsFile
  <2>6. FileInv'
    BY <1>0, <1>9, Sizes, StreamAssumption DEF Retry, readerVars, mainVars, FileInv, Handed, IsFile
  <2>7. OpenInv'
    BY <1>0, <1>9, Sizes, StreamAssumption DEF Retry, readerVars, mainVars, OpenInv, IsFile, Header
  <2> QED
    BY <2>1, <2>2, <2>3, <2>4, <2>5, <2>6, <2>7 DEF IInv
<1>10. CASE Wake
  <2>1. TypeOK'
    BY <1>0, <1>10, Sizes, StreamAssumption DEF Wake, readerVars, mainVars, TypeOK, Header
  <2>2. ResultInv'
    BY <1>0, <1>10, Sizes, StreamAssumption DEF Wake, readerVars, mainVars, ResultInv
  <2>3. TailInv'
    BY <1>0, <1>10, Sizes, StreamAssumption DEF Wake, readerVars, mainVars, TailInv
  <2>4. BufInv'
    BY <1>0, <1>10, Sizes, StreamAssumption DEF Wake, readerVars, mainVars, BufInv
  <2>5. QueueInv'
    BY <1>0, <1>10, Sizes, StreamAssumption DEF Wake, readerVars, mainVars, QueueInv, Handed, IsFile
  <2>6. FileInv'
    BY <1>0, <1>10, Sizes, StreamAssumption DEF Wake, readerVars, mainVars, FileInv, Handed, IsFile
  <2>7. OpenInv'
    BY <1>0, <1>10, Sizes, StreamAssumption DEF Wake, readerVars, mainVars, OpenInv, IsFile, Header
  <2> QED
    BY <2>1, <2>2, <2>3, <2>4, <2>5, <2>6, <2>7 DEF IInv
<1>11. CASE UNCHANGED vars
  <2>1. TypeOK'
    BY <1>0, <1>11, Sizes, StreamAssumption DEF vars, readerVars, mainVars, TypeOK, Header
  <2>2. ResultInv'
    BY <1>0, <1>11, Sizes, StreamAssumption DEF vars, readerVars, mainVars, ResultInv
  <2>3. TailInv'
    BY <1>0, <1>11, Sizes, StreamAssumption DEF vars, readerVars, mainVars, TailInv
  <2>4. BufInv'
    BY <1>0, <1>11, Sizes, StreamAssumption DEF vars, readerVars, mainVars, BufInv
  <2>5. QueueInv'
    BY <1>0, <1>11, Sizes, StreamAssumption DEF vars, readerVars, mainVars, QueueInv, Handed, IsFile
  <2>6. FileInv'
    BY <1>0, <1>11, Sizes, StreamAssumption DEF vars, readerVars, mainVars, FileInv, Handed, IsFile
  <2>7. OpenInv'
    BY <1>0, <1>11, Sizes, StreamAssumption DEF vars, readerVars, mainVars, OpenInv, IsFile, Header
  <2> QED
    BY <2>1, <2>2, <2>3, <2>4, <2>5, <2>6, <2>7 DEF IInv
<1>12. ASSUME NEW n \in ReadSizes[device], BeginAfterHeader(n)
       PROVE  IInv'
  <2> DEFINE k == n - HeaderLen
  <2>0. /\ n \in Nat /\ k \in Nat \ {0} /\ device \in Devices
        /\ IsFile /\ Header = HeaderLen /\ consumed = 0 /\ taken = -HeaderLen
        /\ buf = <<>> /\ queue = <<>> /\ result = <<>>
    BY <1>0, <1>12, Sizes, StreamAssumption DEF BeginAfterHeader, TypeOK, IsFile, Header, OpenInv, FileInv
  <2>8. /\ consumed' = k /\ taken' = k /\ primed' = k
        /\ result' = <<>> /\ buf' = <<>> /\ queue' = <<>>
    BY <1>12, <2>0, Sizes DEF BeginAfterHeader
  <2>9. tail' = Bytes(k - OverlapBytes + 1, OverlapBytes)
    <3>1. tail = Bytes(0 - OverlapBytes + 1, OverlapBytes)
      BY <1>0, <2>0 DEF TailInv
    <3>2. Bytes(1, n - HeaderLen) = Bytes(0 + 1, k)
      OBVIOUS
    <3>3. tail' = NextTail(Bytes(1, n - HeaderLen))
      BY <1>12 DEF BeginAfterHeader
    <3>4. NextTail(Bytes(1, n - HeaderLen)) = Bytes(0 + k - OverlapBytes + 1, OverlapBytes)
      BY <2>0, <3>1, <3>2, NextTailIsEnd
    <3>5. 0 + k - OverlapBytes + 1 = k - OverlapBytes + 1
      BY <2>0, Sizes
    <3> QED
      BY <3>3, <3>4, <3>5
  <2> HIDE DEF k
  <2>10. tail' \in Seq(Int) /\ Len(tail') = OverlapBytes
    <3>1. k - OverlapBytes + 1 \in Int
      BY <2>0, Sizes
    <3> QED
      BY <2>9, <3>1, Sizes, BytesType
  <2>1. TypeOK'
    <3>1. k <= sent
      <4>1. n <= sent - taken /\ sent \in Int /\ taken = -HeaderLen /\ HeaderLen \in Nat /\ n \in Nat
        BY <1>0, <1>12, <2>0, Sizes DEF BeginAfterHeader, TypeOK
      <4> QED
        BY <4>1 DEF k
    <3>2. k \in -Header .. sent
      BY <1>0, <2>0, <3>1, Sizes DEF TypeOK
    <3>3. <<>> \in Seq(Int) /\ <<>> \in Seq(Seq(Int)) /\ Len(<<>>) = 0
      BY EmptySeq
    <3>4. taken' \in -Header' .. sent'
      BY <1>12, <2>8, <3>2 DEF BeginAfterHeader, Header
    <3> QED
      BY <1>0, <1>12, <2>0, <2>8, <2>10, <3>3, <3>4, StreamAssumption DEF BeginAfterHeader, TypeOK
  <2>2. ResultInv'
    BY <2>0, <2>8, Nothing DEF ResultInv
  <2>3. TailInv'
    BY <2>8, <2>9 DEF TailInv
  <2>4. BufInv'
    BY <1>0, <1>12, <2>0, <2>8, Nothing DEF BeginAfterHeader, BufInv, FileInv
  <2>5. QueueInv'
    BY <1>0, <1>12, <2>0, Sizes, StreamAssumption DEF BeginAfterHeader, QueueInv, Handed, IsFile, Header
  <2>6. FileInv'
    <3>1. Handed' = k
      BY <2>0, <2>8, Nothing DEF Handed
    <3> QED
      BY <1>0, <1>12, <2>8, <3>1 DEF BeginAfterHeader, FileInv, IsFile
  <2>7. OpenInv'
    BY <1>0, <1>12, <2>0, Sizes, StreamAssumption DEF BeginAfterHeader, OpenInv, IsFile, Header
  <2> QED
    BY <2>1, <2>2, <2>3, <2>4, <2>5, <2>6, <2>7 DEF IInv
<1>13. ASSUME NEW n \in ReadSizes[device], ReaderRead(n)
       PROVE  IInv'
  <2>0. /\ n \in Nat \ {0} /\ device \in Devices /\ ~IsFile /\ mpc # "open"
        /\ buf \in Seq(Int) /\ Len(buf) \in Nat /\ taken \in Int
    BY <1>0, <1>13, Sizes, StreamAssumption DEF ReaderRead, TypeOK, IsFile, Header, OpenInv, FileInv
  <2>8. buf' = Bytes(taken - Len(buf) + 1, Len(buf) + n)
    <3>1. buf = Bytes(taken - Len(buf) + 1, Len(buf))
      BY <1>0 DEF BufInv
    <3>2. taken - Len(buf) + 1 \in Int /\ (taken - Len(buf) + 1) + Len(buf) = taken + 1
      BY <2>0
    <3>3. Bytes(taken - Len(buf) + 1, Len(buf)) \o Bytes(taken + 1, n)
            = Bytes(taken - Len(buf) + 1, Len(buf) + n)
      <4>1. n \in Nat /\ Len(buf) \in Nat
        BY <2>0
      <4>2. Bytes(taken - Len(buf) + 1, Len(buf)) \o Bytes((taken - Len(buf) + 1) + Len(buf), n)
              = Bytes(taken - Len(buf) + 1, Len(buf) + n)
        BY <4>1, <3>2, BytesConcat, Zenon
      <4> QED
        BY <4>2, <3>2
    <3>4. buf' = buf \o Bytes(taken + 1, n)
      BY <1>13 DEF ReaderRead
    <3> QED
      BY <3>1, <3>3, <3>4
  <2>9. buf' \in Seq(Int) /\ Len(buf') = Len(buf) + n
    <3>1. taken - Len(buf) + 1 \in Int /\ Len(buf) + n \in Nat
      BY <2>0
    <3> QED
      BY <2>8, <3>1, BytesType
  <2>1. TypeOK'
    <3>1. Len(buf') <= Chunk
      BY <1>13, <2>0, <2>9, Sizes DEF ReaderRead
    <3>2. taken' \in -Header' .. sent'
      <4>1. /\ Header' = Header /\ sent' = sent /\ taken' = taken + n /\ n <= sent - taken
        BY <1>13 DEF ReaderRead, Header
      <4>2. taken \in -Header .. sent /\ sent \in Int
        BY <1>0 DEF TypeOK
      <4> QED
        BY <2>0, <4>1, <4>2, Sizes
    <3> QED
      BY <1>0, <1>13, <2>9, <3>1, <3>2 DEF ReaderRead, mainVars, TypeOK
  <2>2. ResultInv'
    BY <1>0, <1>13, <2>0, Sizes, StreamAssumption DEF ReaderRead, readerVars, mainVars, ResultInv
  <2>3. TailInv'
    BY <1>0, <1>13, <2>0, Sizes, StreamAssumption DEF ReaderRead, readerVars, mainVars, TailInv
  <2>4. BufInv'
    <3>1. taken' = taken + n /\ (taken + n) - (Len(buf) + n) + 1 = taken - Len(buf) + 1
      BY <1>13, <2>0 DEF ReaderRead
    <3>2. rpc' = "send" => Len(buf') = Chunk
      BY <1>13, <2>9 DEF ReaderRead
    <3> QED
      BY <2>8, <2>9, <3>1, <3>2 DEF BufInv
  <2>5. QueueInv'
    <3>1. Handed' = Handed /\ queue' = queue /\ device' = device /\ taken' = taken + n
      BY <1>13 DEF ReaderRead, mainVars, Handed
    <3>2. taken = Handed + Len(queue) * Chunk + Len(buf)
      BY <1>0, <1>13, <2>0 DEF ReaderRead, QueueInv
    <3>3. Handed \in Int /\ Len(queue) * Chunk \in Int
      BY <1>0, Sizes, HandedType DEF TypeOK
    <3>4. taken' = Handed' + Len(queue') * Chunk + Len(buf')
      BY <2>0, <2>9, <3>1, <3>2, <3>3
    <3> QED
      BY <1>0, <2>0, <3>1, <3>4 DEF QueueInv, IsFile
  <2>6. FileInv'
    BY <1>0, <1>13, <2>0, Sizes, StreamAssumption DEF ReaderRead, readerVars, mainVars, FileInv, Handed, IsFile
  <2>7. OpenInv'
    BY <1>0, <1>13, <2>0 DEF ReaderRead, mainVars, OpenInv, IsFile
  <2> QED
    BY <2>1, <2>2, <2>3, <2>4, <2>5, <2>6, <2>7 DEF IInv
<1>14. CASE ReaderEnd
  <2>1. TypeOK'
    BY <1>0, <1>14, Sizes, StreamAssumption DEF ReaderEnd, readerVars, mainVars, TypeOK, Header, IsFile
  <2>2. ResultInv'
    BY <1>0, <1>14, Sizes, StreamAssumption DEF ReaderEnd, readerVars, mainVars, ResultInv
  <2>3. TailInv'
    BY <1>0, <1>14, Sizes, StreamAssumption DEF ReaderEnd, readerVars, mainVars, TailInv
  <2>4. BufInv'
    <3>1. taken' \in Int /\ buf' = <<>> /\ rpc' = "done"
      BY <1>0, <1>14, Sizes DEF ReaderEnd, TypeOK, Header
    <3> QED
      BY <3>1, Nothing DEF BufInv
  <2>5. QueueInv'
    BY <1>0, <1>14, Sizes, StreamAssumption DEF ReaderEnd, readerVars, mainVars, QueueInv, Handed, IsFile, Header
  <2>6. FileInv'
    BY <1>0, <1>14, Sizes, StreamAssumption DEF ReaderEnd, readerVars, mainVars, FileInv, Handed, IsFile
  <2>7. OpenInv'
    BY <1>0, <1>14, Sizes, StreamAssumption DEF ReaderEnd, readerVars, mainVars, OpenInv, IsFile, Header
  <2> QED
    BY <2>1, <2>2, <2>3, <2>4, <2>5, <2>6, <2>7 DEF IInv
<1>15. CASE ReaderSend
  <2>0. /\ ~IsFile /\ buf \in Seq(Int) /\ Len(buf) = Chunk /\ taken \in Int
        /\ queue \in Seq(Seq(Int)) /\ Handed \in Int
        /\ buf' = <<>> /\ queue' = Append(queue, buf) /\ taken' = taken /\ Handed' = Handed
    BY <1>0, <1>15, Sizes, HandedType DEF ReaderSend, TypeOK, IsFile, Header, FileInv, BufInv, mainVars, Handed
  <2>1. TypeOK'
    BY <1>0, <1>15, <2>0, Sizes, StreamAssumption DEF ReaderSend, readerVars, mainVars, TypeOK, Header, IsFile
  <2>2. ResultInv'
    BY <1>0, <1>15, <2>0, Sizes, StreamAssumption DEF ReaderSend, readerVars, mainVars, ResultInv
  <2>3. TailInv'
    BY <1>0, <1>15, <2>0, Sizes, StreamAssumption DEF ReaderSend, readerVars, mainVars, TailInv
  <2>4. BufInv'
    BY <1>15, <2>0, Nothing DEF ReaderSend, BufInv
  <2>5. QueueInv'
    <3>1. taken = Handed + Len(queue) * Chunk + Chunk
      BY <1>0, <1>15, <2>0 DEF ReaderSend, QueueInv
    <3>2. buf = Bytes(taken - Chunk + 1, Chunk)
      BY <1>0, <2>0 DEF BufInv
    <3>3. taken - Chunk + 1 = Handed + 1 + ((Len(queue) + 1) - 1) * Chunk
      BY <2>0, <3>1, Sizes
    <3>4. /\ Len(queue') = Len(queue) + 1
          /\ queue'[Len(queue) + 1] = buf
          /\ \A i \in 1 .. Len(queue) : queue'[i] = queue[i]
      BY <2>0
    <3>5. ASSUME NEW i \in 1 .. Len(queue')
          PROVE  queue'[i] = Bytes(Handed + 1 + (i - 1) * Chunk, Chunk)
      <4>1. CASE i \in 1 .. Len(queue)
        BY <1>0, <2>0, <3>4, <4>1 DEF QueueInv
      <4>2. CASE i = Len(queue) + 1
        BY <3>2, <3>3, <3>4, <4>2
      <4> QED
        BY <2>0, <3>4, <3>5, <4>1, <4>2
    <3>6. taken = Handed + (Len(queue) + 1) * Chunk + 0
      BY <2>0, <3>1, Sizes
    <3> QED
      BY <2>0, <3>4, <3>5, <3>6, Nothing DEF QueueInv
  <2>6. FileInv'
    BY <1>0, <1>15, <2>0, Sizes, StreamAssumption DEF ReaderSend, readerVars, mainVars, FileInv, Handed, IsFile
  <2>7. OpenInv'
    BY <1>0, <1>15, <2>0, Sizes, StreamAssumption DEF ReaderSend, readerVars, mainVars, OpenInv, IsFile, Header
  <2> QED
    BY <2>1, <2>2, <2>3, <2>4, <2>5, <2>6, <2>7 DEF IInv
<1>16. CASE ReadRtlTcp
  <2>0. /\ ~IsFile /\ queue # <<>> /\ queue \in Seq(Seq(Int))
        /\ result' = queue[1] /\ queue' = Tail(queue)
        /\ mpc = "read" /\ mpc' = "got"
    BY <1>0, <1>16 DEF ReadRtlTcp, Senders, TypeOK, IsFile
  <2>8. Handed = consumed /\ consumed \in Nat
    BY <1>0, <2>0, HandedIdle DEF ResultInv
  <2>9. result' = Bytes(consumed + 1, Chunk)
    <3>1. 1 \in 1 .. Len(queue)
      BY <2>0
    <3>2. queue[1] = Bytes(consumed + 1 + (1 - 1) * Chunk, Chunk)
      BY <1>0, <2>0, <2>8, <3>1 DEF QueueInv
    <3>3. consumed + 1 + (1 - 1) * Chunk = consumed + 1
      BY <2>8, Sizes
    <3> QED
      BY <2>0, <3>2, <3>3
  <2>10. result' \in Seq(Int) /\ Len(result') = Chunk /\ result' # Failed
    BY <2>8, <2>9, Sizes, BytesType, StreamAssumption
  <2>11. consumed' = consumed /\ Handed' = consumed + Chunk
    BY <1>16, <2>10 DEF ReadRtlTcp, Handed
  <2>1. TypeOK'
    <3>1. queue' \in Seq(Seq(Int)) /\ Len(queue') <= Capacity
      BY <1>0, <2>0, StreamAssumption DEF TypeOK
    <3> QED
      BY <1>0, <1>16, <2>10, <3>1 DEF ReadRtlTcp, readerVars, TypeOK, Header
  <2>2. ResultInv'
    BY <2>0, <2>9, <2>10, <2>11 DEF ResultInv
  <2>3. TailInv'
    BY <1>0, <1>16, <2>0, Sizes, StreamAssumption DEF ReadRtlTcp, readerVars, mainVars, TailInv
  <2>4. BufInv'
    BY <1>0, <1>16, <2>0, Sizes, StreamAssumption DEF ReadRtlTcp, readerVars, mainVars, BufInv
  <2>5. QueueInv'
    <3>1. /\ Len(queue') = Len(queue) - 1
          /\ \A i \in 1 .. Len(queue') : queue'[i] = queue[i + 1]
      BY <2>0, HeadTailProperties
    <3>2. ASSUME NEW i \in 1 .. Len(queue')
          PROVE  queue'[i] = Bytes(Handed' + 1 + (i - 1) * Chunk, Chunk)
      <4>1. i \in Int /\ i + 1 \in 1 .. Len(queue)
        BY <2>0, <3>1, <3>2
      <4>2. queue[i + 1] = Bytes(consumed + 1 + ((i + 1) - 1) * Chunk, Chunk)
        BY <1>0, <2>0, <2>8, <4>1 DEF QueueInv
      <4>3. consumed + 1 + ((i + 1) - 1) * Chunk = Handed' + 1 + (i - 1) * Chunk
        BY <2>8, <2>11, <4>1, Sizes
      <4> QED
        BY <3>1, <3>2, <4>2, <4>3
    <3>3. rpc' # "done" => taken' = Handed' + Len(queue') * Chunk + Len(buf')
      <4>1. rpc # "done" => taken = consumed + Len(queue) * Chunk + Len(buf)
        BY <1>0, <2>0, <2>8 DEF QueueInv
      <4>2. consumed + Len(queue) * Chunk + Len(buf)
              = (consumed + Chunk) + (Len(queue) - 1) * Chunk + Len(buf)
        BY <1>0, <2>0, <2>8, Sizes DEF TypeOK
      <4> QED
        BY <1>16, <2>11, <3>1, <4>1, <4>2 DEF ReadRtlTcp, readerVars
    <3> QED
      BY <3>2, <3>3 DEF QueueInv
  <2>6. FileInv'
    BY <1>16, <2>0 DEF ReadRtlTcp, FileInv, IsFile
  <2>7. OpenInv'
    BY <2>0 DEF OpenInv
  <2> QED
    BY <2>1, <2>2, <2>3, <2>4, <2>5, <2>6, <2>7 DEF IInv
<1>17. ASSUME NEW n \in ReadSizes[device], ReadFile(n)
       PROVE  IInv'
  <2>0. /\ n \in Nat \ {0} /\ IsFile /\ buf = <<>> /\ taken = Handed /\ taken \in Int
        /\ mpc = "read" /\ mpc' = "got" /\ taken' = taken + n /\ buf' = <<>>
    BY <1>0, <1>17, Sizes, StreamAssumption DEF ReadFile, TypeOK, FileInv, Header
  <2>8. Handed = consumed /\ consumed \in Nat
    BY <1>0, <2>0, HandedIdle DEF ResultInv
  <2>9. result' = Bytes(consumed + 1, n)
    BY <1>17, <2>0, <2>8 DEF ReadFile
  <2>10. result' \in Seq(Int) /\ Len(result') = n /\ result' # Failed
    BY <2>0, <2>8, <2>9, BytesType, StreamAssumption
  <2>11. consumed' = consumed /\ Handed' = consumed + n
    BY <1>17, <2>10 DEF ReadFile, Handed
  <2>1. TypeOK'
    <3>1. taken' \in -Header' .. sent'
      BY <1>0, <1>17, <2>0, Sizes DEF ReadFile, TypeOK, Header
    <3> QED
      BY <1>0, <1>17, <2>10, <3>1 DEF ReadFile, TypeOK
  <2>2. ResultInv'
    BY <2>0, <2>9, <2>10, <2>11 DEF ResultInv
  <2>3. TailInv'
    BY <1>0, <1>17, <2>0, Sizes, StreamAssumption DEF ReadFile, readerVars, mainVars, TailInv
  <2>4. BufInv'
    BY <1>0, <1>17, <2>0, Nothing DEF ReadFile, BufInv, FileInv
  <2>5. QueueInv'
    BY <1>17, <2>0 DEF ReadFile, QueueInv, IsFile
  <2>6. FileInv'
    BY <1>0, <1>17, <2>0, <2>8, <2>11 DEF ReadFile, FileInv, IsFile
  <2>7. OpenInv'
    BY <2>0 DEF OpenInv
  <2> QED
    BY <2>1, <2>2, <2>3, <2>4, <2>5, <2>6, <2>7 DEF IInv
<1>18. CASE ReadFileEnd
  <2>0. /\ IsFile /\ mpc = "read" /\ mpc' = "got" /\ result' = <<>>
        /\ consumed \in Nat /\ consumed' = consumed /\ Handed' = Handed
    <3>1. /\ IsFile /\ mpc = "read" /\ mpc' = "got" /\ result' = <<>> /\ consumed' = consumed
          /\ result \in {<<>>, Failed}
      BY <1>0, <1>18 DEF ReadFileEnd, ResultInv
    <3>2. Handed = consumed /\ consumed \in Nat
      BY <1>0, <3>1, HandedIdle
    <3>3. Handed' = consumed
      BY <3>1, <3>2, Nothing DEF Handed
    <3> QED
      BY <3>1, <3>2, <3>3
  <2>1. TypeOK'
    BY <1>0, <1>18, <2>0, Sizes, StreamAssumption DEF ReadFileEnd, readerVars, mainVars, TypeOK, Header, IsFile
  <2>2. ResultInv'
    BY <2>0, Nothing DEF ResultInv
  <2>3. TailInv'
    BY <1>0, <1>18, <2>0, Sizes, StreamAssumption DEF ReadFileEnd, readerVars, mainVars, TailInv
  <2>4. BufInv'
    BY <1>0, <1>18, <2>0, Sizes, StreamAssumption DEF ReadFileEnd, readerVars, mainVars, BufInv
  <2>5. QueueInv'
    BY <1>18, <2>0 DEF ReadFileEnd, QueueInv, IsFile
  <2>6. FileInv'
    BY <1>0, <1>18, <2>0 DEF ReadFileEnd, readerVars, FileInv, IsFile
  <2>7. OpenInv'
    BY <2>0 DEF OpenInv
  <2> QED
    BY <2>1, <2>2, <2>3, <2>4, <2>5, <2>6, <2>7 DEF IInv
<1>19. CASE ReadFileError
  <2>0. /\ IsFile /\ mpc = "read" /\ mpc' = "got" /\ result' = Failed
        /\ consumed \in Nat /\ consumed' = consumed /\ Handed' = Handed
    <3>1. /\ IsFile /\ mpc = "read" /\ mpc' = "got" /\ result' = Failed /\ consumed' = consumed
          /\ result \in {<<>>, Failed}
      BY <1>0, <1>19 DEF ReadFileError, ResultInv
    <3>2. Handed = consumed /\ consumed \in Nat
      BY <1>0, <3>1, HandedIdle
    <3>3. Handed' = consumed
      BY <3>1, <3>2, Nothing DEF Handed
    <3> QED
      BY <3>1, <3>2, <3>3
  <2>1. TypeOK'
    BY <1>0, <1>19, <2>0, Sizes, StreamAssumption DEF ReadFileError, readerVars, mainVars, TypeOK, Header, IsFile
  <2>2. ResultInv'
    BY <1>0, <1>19, <2>0, Sizes, StreamAssumption DEF ReadFileError, readerVars, mainVars, ResultInv
  <2>3. TailInv'
    BY <1>0, <1>19, <2>0, Sizes, StreamAssumption DEF ReadFileError, readerVars, mainVars, TailInv
  <2>4. BufInv'
    BY <1>0, <1>19, <2>0, Sizes, StreamAssumption DEF ReadFileError, readerVars, mainVars, BufInv
  <2>5. QueueInv'
    BY <1>19, <2>0 DEF ReadFileError, QueueInv, IsFile
  <2>6. FileInv'
    BY <1>0, <1>19, <2>0 DEF ReadFileError, readerVars, FileInv, IsFile
  <2>7. OpenInv'
    BY <2>0 DEF OpenInv
  <2> QED
    BY <2>1, <2>2, <2>3, <2>4, <2>5, <2>6, <2>7 DEF IInv
<1>20. CASE Process
  <2> DEFINE k == Len(result)
  <2>0. /\ result = Bytes(consumed + 1, k) /\ result \in Seq(Int) /\ k \in Nat \ {0}
        /\ consumed \in Nat /\ consumed' = consumed + k /\ result' = <<>> /\ mpc' = "top" /\ mpc = "got"
    BY <1>0, <1>20, EmptySeq DEF Process, ResultInv, TypeOK
  <2>8. tail' = Bytes(consumed' - OverlapBytes + 1, OverlapBytes)
    <3>1. NextTail(result) = Bytes(consumed + k - OverlapBytes + 1, OverlapBytes)
      BY <1>0, <2>0, NextTailIsEnd DEF TailInv
    <3> QED
      BY <1>20, <2>0, <3>1, Sizes DEF Process
  <2>9. tail' \in Seq(Int) /\ Len(tail') = OverlapBytes
    <3>1. consumed' - OverlapBytes + 1 \in Int
      BY <2>0, Sizes
    <3> QED
      BY <2>8, <3>1, Sizes, BytesType
  <2>10. window' \in Seq(Int)
    BY <1>0, <1>20, <2>0, ConcatProperties DEF Process, TypeOK
  <2>11. Handed' = Handed
    BY <1>20, <2>0, Nothing DEF Process, Handed
  <2>1. TypeOK'
    <3>1. scanned' \subseteq Int
      BY <1>0, <1>20, <2>10, StartsType DEF Process, TypeOK
    <3>2. consumed' \in Nat /\ primed' \in 0 .. consumed' /\ result' \in Seq(Int)
      BY <1>0, <1>20, <2>0, EmptySeq DEF Process, TypeOK
    <3> QED
      BY <1>0, <1>20, <2>9, <2>10, <3>1, <3>2 DEF Process, readerVars, TypeOK, Header
  <2>2. ResultInv'
    BY <2>0, Nothing DEF ResultInv
  <2>3. TailInv'
    BY <2>8 DEF TailInv
  <2>4. BufInv'
    BY <1>0, <1>20, <2>0, Sizes, StreamAssumption DEF Process, readerVars, mainVars, BufInv
  <2>5. QueueInv'
    BY <1>0, <1>20, <2>11 DEF Process, readerVars, QueueInv, IsFile
  <2>6. FileInv'
    BY <1>0, <1>20, <2>0, <2>11 DEF Process, readerVars, FileInv, IsFile
  <2>7. OpenInv'
    BY <2>0 DEF OpenInv
  <2> QED
    BY <2>1, <2>2, <2>3, <2>4, <2>5, <2>6, <2>7 DEF IInv
<1> QED
  BY <1>1, <1>2, <1>3, <1>4, <1>5, <1>6, <1>7, <1>8, <1>9, <1>10, <1>11, <1>12, <1>13, <1>14,
     <1>15, <1>16, <1>17, <1>18, <1>19, <1>20 DEF Next

LEMMA Invariant == Spec => []IInv
BY InitInvariant, NextInvariant, PTL DEF Spec

(* The reader never builds more than a chunk, the channel never holds more *)
(* than its capacity, and the tail always has the length of the overlap.   *)
THEOREM TypeCorrect == Spec => []TypeOK
<1>1. IInv => TypeOK
  BY DEF IInv
<1> QED
  BY <1>1, Invariant, PTL

-----------------------------------------------------------------------------
(* What one buffer is.                                                     *)
LEMMA ProcessWindow ==
  ASSUME IInv, Process
  PROVE  /\ Len(result) \in Nat \ {0} /\ consumed \in Nat
         /\ consumed' = consumed + Len(result)
         /\ window' = Bytes(consumed - OverlapBytes + 1, OverlapBytes + Len(result))
<1>1. /\ result = Bytes(consumed + 1, Len(result)) /\ result \in Seq(Int)
      /\ Len(result) \in Nat \ {0} /\ consumed \in Nat
      /\ tail = Bytes(consumed - OverlapBytes + 1, OverlapBytes)
  BY EmptySeq DEF IInv, Process, ResultInv, TailInv, TypeOK
<1>2. window' = tail \o result /\ consumed' = consumed + Len(result)
  BY DEF Process
<1>3. consumed \in Int /\ Len(result) \in Nat
  BY <1>1
<1>4. Bytes(consumed - OverlapBytes + 1, OverlapBytes) \o Bytes(consumed + 1, Len(result))
        = Bytes(consumed - OverlapBytes + 1, OverlapBytes + Len(result))
  BY <1>3, WindowIsStretch
<1> QED
  BY <1>1, <1>2, <1>4

(* A step delivers the next buffer, skips the bytes that only fill the     *)
(* first tail, or changes nothing of the feed.                             *)
LEMMA StepImplementsFeed ==
  IInv /\ [Next]_vars => [Feed!Deliver \/ Feed!Skip]_<<consumed, window>>
<1> SUFFICES ASSUME IInv, [Next]_vars
             PROVE  \/ Feed!Deliver \/ Feed!Skip
                    \/ UNCHANGED <<consumed, window>>
  OBVIOUS
<1>1. CASE Process
  <2>1. /\ Len(result) \in Nat \ {0} /\ consumed \in Nat /\ OverlapBytes \in Nat
        /\ consumed' = consumed + Len(result)
        /\ window' = Bytes(consumed - OverlapBytes + 1, OverlapBytes + Len(result))
    BY <1>1, ProcessWindow, Sizes
  <2> DEFINE n == OverlapBytes + consumed' - consumed
  <2>2. n = OverlapBytes + Len(result)
    BY <2>1
  <2>3. Bytes(consumed - OverlapBytes + 1, n) = [i \in 1 .. n |-> consumed - OverlapBytes + i]
    <3>1. \A i \in 1 .. n : (consumed - OverlapBytes + 1) + i - 1 = consumed - OverlapBytes + i
      BY <2>1, <2>2
    <3> HIDE DEF n
    <3> QED
      BY <3>1 DEF Bytes
  <2>4. consumed' > consumed
    BY <2>1
  <2> QED
    BY <2>1, <2>2, <2>3, <2>4 DEF Feed!Deliver
<1>2. ASSUME NEW n \in ReadSizes[device], BeginAfterHeader(n)
      PROVE  Feed!Skip
  <2>1. n \in Int /\ window = <<>> /\ consumed = 0
    BY <1>2, StreamAssumption DEF BeginAfterHeader, IInv, TypeOK, OpenInv
  <2> QED
    BY <1>2, <2>1, Sizes DEF BeginAfterHeader, Feed!Skip
<1>3. CASE UNCHANGED <<consumed, window>>
  BY <1>3
<1>4. Next /\ ~Process /\ ~(\E n \in ReadSizes[device] : BeginAfterHeader(n))
        => UNCHANGED <<consumed, window>>
  BY DEF Next, ServerSend, ServerEnd, Interrupt, Open, OpenFails, Begin, ReaderRead, ReadFile, ReaderEnd,
         ReaderSend, ReadRtlTcp, ReadFileEnd, ReadFileError, Top, Break, Retry, Wake, readerVars, mainVars
<1>5. UNCHANGED vars => UNCHANGED <<consumed, window>>
  BY DEF vars, mainVars
<1> QED
  BY <1>1, <1>2, <1>3, <1>4, <1>5

(* Reader task, bounded channel, file reads of any size and the overlap    *)
(* together give the demodulator contiguous, overlapping stretches of the  *)
(* stream, in order and without loss.                                      *)
THEOREM FeedCorrect == Spec => ImplementsFeed
<1>1. Init => Feed!Init
  BY DEF Init, Feed!Init
<1> QED
  BY <1>1, Invariant, StepImplementsFeed, PTL DEF Spec, ImplementsFeed, Feed!Spec

-----------------------------------------------------------------------------

(* Whole pairs and whole pairs are whole pairs.                            *)
LEMMA MultipleSum ==
  ASSUME NEW m, NEW n, Multiple(m), Multiple(n)
  PROVE  Multiple(m + n) /\ Multiple(m - n)
<1>1. PICK a \in Int : m = a * Pair
  BY DEF Multiple
<1>2. PICK b \in Int : n = b * Pair
  BY DEF Multiple
<1>3. m + n = (a + b) * Pair /\ m - n = (a - b) * Pair
  BY <1>1, <1>2, Sizes
<1> QED
  BY <1>3 DEF Multiple

(* What the alignment of the sizes means.                                  *)
LEMMA MultipleSizes ==
  /\ Multiple(0) /\ Multiple(Chunk) /\ Multiple(HeaderLen) /\ Multiple(OverlapBytes)
  /\ \A d \in Devices \ {"rtl_tcp"} : \A n \in ReadSizes[d] : Multiple(n)
<1>1. 0 = 0 * Pair
  BY Sizes
<1>2. ASSUME NEW n, \E k \in 0 .. n : n = k * Pair
      PROVE  Multiple(n)
  BY <1>2 DEF Multiple
<1>3. Multiple(Chunk) /\ Multiple(HeaderLen)
  BY <1>2, AlignmentAssumption
<1>4. ASSUME NEW d \in Devices \ {"rtl_tcp"}, NEW n \in ReadSizes[d]
      PROVE  Multiple(n)
  BY <1>2, AlignmentAssumption
<1>5. Multiple(OverlapBytes)
  BY StreamAssumption DEF Multiple, OverlapBytes
<1> QED
  BY <1>1, <1>3, <1>4, <1>5 DEF Multiple

(* Whole pairs at a time are read, and so are whole pairs used.            *)
LEMMA InitAligned == Init => AlignedInv
BY MultipleSizes, Nothing DEF Init, AlignedInv

LEMMA NextAligned == IInv /\ AlignedInv /\ [Next]_vars => AlignedInv'
<1> SUFFICES ASSUME IInv, AlignedInv, [Next]_vars
             PROVE  AlignedInv'
  OBVIOUS
<1>1. CASE Process
  <2>1. /\ Len(result) \in Nat \ {0} /\ consumed \in Nat /\ OverlapBytes \in Nat
        /\ consumed' = consumed + Len(result)
        /\ window' = Bytes(consumed - OverlapBytes + 1, OverlapBytes + Len(result))
    BY <1>1, ProcessWindow, Sizes
  <2>2. Multiple(consumed) /\ Multiple(Len(result))
    BY <1>1 DEF AlignedInv, Process
  <2>3. Multiple(consumed') /\ Multiple(consumed - OverlapBytes)
    BY <2>1, <2>2, MultipleSum, MultipleSizes
  <2>4. window'[1] - 1 = consumed - OverlapBytes
    <3>1. /\ consumed - OverlapBytes + 1 \in Int /\ OverlapBytes + Len(result) \in Nat
          /\ 1 \in 1 .. (OverlapBytes + Len(result))
      BY <2>1
    <3>2. window'[1] = (consumed - OverlapBytes + 1) + 1 - 1
      BY <2>1, <3>1, BytesType
    <3> QED
      BY <2>1, <3>2
  <2>5. result' = <<>>
    BY <1>1 DEF Process
  <2> QED
    BY <2>3, <2>4, <2>5, MultipleSizes, Nothing DEF AlignedInv
<1>2. ASSUME NEW n \in ReadSizes[device], BeginAfterHeader(n)
      PROVE  AlignedInv'
  <2>1. device \in Devices \ {"rtl_tcp"}
    BY <1>2 DEF IInv, TypeOK, BeginAfterHeader
  <2>2. Multiple(n - HeaderLen)
    BY <2>1, MultipleSum, MultipleSizes
  <2> QED
    BY <1>2, <2>2 DEF BeginAfterHeader, AlignedInv
<1>3. CASE ReadRtlTcp
  <2>1. /\ ~IsFile /\ queue # <<>> /\ queue \in Seq(Seq(Int)) /\ result' = queue[1]
        /\ consumed' = consumed /\ window' = window
    BY <1>3 DEF ReadRtlTcp, Senders, IInv, TypeOK, IsFile
  <2>2. 1 \in 1 .. Len(queue)
    BY <2>1
  <2>3. queue[1] = Bytes(Handed + 1 + (1 - 1) * Chunk, Chunk)
    BY <2>1, <2>2 DEF IInv, QueueInv
  <2>4. Handed + 1 + (1 - 1) * Chunk \in Int
    BY HandedType, Sizes DEF IInv
  <2>5. Len(result') = Chunk
    BY <2>1, <2>3, <2>4, Sizes, BytesType
  <2> QED
    BY <2>1, <2>5, MultipleSizes DEF AlignedInv
<1>4. ASSUME NEW n \in ReadSizes[device], ReadFile(n)
      PROVE  AlignedInv'
  <2>1. device \in Devices \ {"rtl_tcp"} /\ n \in Nat /\ taken + 1 \in Int
    BY <1>4, StreamAssumption, Sizes DEF IInv, TypeOK, ReadFile, IsFile, Header
  <2>2. Len(result') = n
    BY <1>4, <2>1, BytesType DEF ReadFile
  <2> QED
    BY <1>4, <2>1, <2>2, MultipleSizes DEF ReadFile, AlignedInv
<1>5. CASE ReadFileEnd \/ ReadFileError
  BY <1>5, MultipleSizes, Nothing DEF ReadFileEnd, ReadFileError, AlignedInv
<1>6. CASE UNCHANGED <<consumed, result, window>>
  BY <1>6 DEF AlignedInv, Multiple
<1>7. \/ Process \/ (\E n \in ReadSizes[device] : BeginAfterHeader(n))
      \/ ReadRtlTcp \/ (\E n \in ReadSizes[device] : ReadFile(n))
      \/ ReadFileEnd \/ ReadFileError
      \/ UNCHANGED <<consumed, result, window>>
  BY DEF Next, ServerSend, ServerEnd, Interrupt, Open, OpenFails, Begin, ReaderRead, ReaderEnd,
         ReaderSend, Top, Break, Retry, Wake, readerVars, mainVars, vars
<1> QED
  BY <1>1, <1>2, <1>3, <1>4, <1>5, <1>6, <1>7

LEMMA Aligned == Spec => []AlignedInv
BY InitAligned, NextAligned, Invariant, PTL DEF Spec

(* However the socket cuts the stream, every buffer begins with the first  *)
(* byte of a pair.                                                         *)
THEOREM PairsStayTogether == Spec => []PairsAligned
<1>1. ASSUME AlignedInv
      PROVE  PairsAligned
  <2>1. ASSUME NEW n, Multiple(n)
        PROVE  n % Pair = 0
    BY <2>1, Sizes DEF Multiple
  <2> QED
    BY <1>1, <2>1 DEF AlignedInv, PairsAligned
<1> QED
  BY <1>1, Aligned, PTL

-----------------------------------------------------------------------------
(* The samples searched in a buffer made of Overlap old pairs and b new    *)
(* ones, after a: all but the last Guard.                                  *)
LEMMA StartsOfWindow ==
  ASSUME NEW a \in Int, NEW b \in Nat, NEW j \in Int,
         a - Overlap <= j, j < a + b - Guard
  PROVE  Pair * j + 1 \in Starts(Bytes(a * Pair - OverlapBytes + 1, OverlapBytes + b * Pair))
<1> DEFINE f == a * Pair - OverlapBytes + 1
           n == OverlapBytes + b * Pair
           w == Bytes(f, n)
           m == j - a + Overlap + 1
           i == Pair * (m - 1) + 1
<1>1. /\ Overlap \in Nat /\ Guard \in Nat /\ Pair \in Nat \ {0} /\ OverlapBytes = Overlap * Pair
  BY StreamAssumption DEF OverlapBytes
<1>2. f \in Int /\ n = (Overlap + b) * Pair /\ n \in Nat
  BY <1>1
<1>3. n \div Pair = Overlap + b
  BY <1>1, <1>2
<1>4. /\ w \in Seq(Int) /\ Len(w) = n
      /\ \A x \in 1 .. n : w[x] = f + x - 1
  BY <1>2, BytesType
<1>5. m \in 1 .. (Overlap + b - Guard)
  BY <1>1
<1>6. i \in 1 .. n
  <2>1. 0 <= m - 1 /\ m <= Overlap + b
    BY <1>1, <1>5
  <2>2. Pair * 0 <= Pair * (m - 1) /\ Pair * m <= Pair * (Overlap + b)
    BY <1>1, <2>1, Monotone
  <2>3. Pair * m = Pair * (m - 1) + Pair
    BY <1>1
  <2> QED
    BY <1>1, <1>2, <2>2, <2>3
<1>7. f + i - 1 = Pair * j + 1
  BY <1>1
<1>8. w[i] = Pair * j + 1
  BY <1>4, <1>6, <1>7
<1>9. m \in 1 .. (Len(w) \div Pair) - Guard
  <2> HIDE DEF w, m, n
  <2>1. Len(w) \div Pair = Overlap + b
    BY <1>3, <1>4
  <2>2. (Len(w) \div Pair) - Guard = Overlap + b - Guard
    BY <1>1, <2>1
  <2> QED
    BY <1>5, <2>2
<1>10. w[Pair * (m - 1) + 1] \in Starts(w)
  <2> HIDE DEF w, m, i, f, n
  <2> QED
    BY <1>9 DEF Starts
<1> QED
  BY <1>8, <1>10

(* A new buffer reaches back at least as far as the samples that were too  *)
(* near to the end of the one before.                                      *)
LEMMA NextScanned ==
  IInv /\ AlignedInv /\ EveryStartScanned /\ [Next]_vars => EveryStartScanned'
<1> SUFFICES ASSUME IInv, AlignedInv, EveryStartScanned, [Next]_vars
             PROVE  EveryStartScanned'
  OBVIOUS
<1>0. /\ Overlap \in Nat /\ Guard \in 0 .. Overlap /\ Pair \in Nat \ {0}
      /\ OverlapBytes = Overlap * Pair
  BY StreamAssumption DEF OverlapBytes
<1>1. CASE Process
  <2>1. /\ Len(result) \in Nat \ {0} /\ consumed \in Nat
        /\ consumed' = consumed + Len(result)
        /\ window' = Bytes(consumed - OverlapBytes + 1, OverlapBytes + Len(result))
    BY <1>1, ProcessWindow
  <2>2. PICK a \in Int : consumed = a * Pair
    BY DEF AlignedInv, Multiple
  <2>3. PICK b \in Int : Len(result) = b * Pair
    BY <1>1 DEF AlignedInv, Multiple, Process
  <2>4. a \in Nat /\ b \in Nat
    BY <1>0, <2>1, <2>2, <2>3
  <2>5. consumed \div Pair = a
    BY <1>0, <2>2, <2>4
  <2>6. consumed' \div Pair = a + b
    <3>1. consumed' = (a + b) * Pair
      BY <1>0, <2>1, <2>2, <2>3
    <3> QED
      BY <1>0, <2>4, <3>1
  <2>7. /\ primed' = primed /\ primed \in 0 .. consumed
        /\ scanned' = scanned \cup Starts(window')
    BY <1>1 DEF Process, IInv, TypeOK
  <2>8. ASSUME NEW j \in 0 .. (consumed' \div Pair) - 1,
               consumed' > primed', Pair * j >= primed' - OverlapBytes,
               j < (consumed' \div Pair) - Guard
        PROVE  Pair * j + 1 \in scanned'
    <3>1. j \in Int /\ j >= 0 /\ j < a + b - Guard
      BY <1>0, <2>4, <2>6, <2>8
    <3>2. CASE a - Overlap <= j
      BY <1>0, <2>1, <2>2, <2>3, <2>4, <2>7, <3>1, <3>2, StartsOfWindow
    <3>3. CASE ~(a - Overlap <= j)
      <4>1. j < a - Guard /\ j \in 0 .. a - 1
        BY <1>0, <2>4, <3>1, <3>3
      <4>2. Pair * j < Pair * (a - Overlap)
        BY <1>0, <2>4, <3>1, <3>3
      <4>3. Pair * (a - Overlap) = consumed - OverlapBytes
        BY <1>0, <2>2, <2>4
      <4>4. consumed > primed
        BY <1>0, <2>1, <2>7, <2>8, <3>1, <4>2, <4>3
      <4> QED
        BY <2>5, <2>7, <2>8, <4>1, <4>4 DEF EveryStartScanned
    <3> QED
      BY <3>2, <3>3
  <2> QED
    BY <2>8 DEF EveryStartScanned
<1>2. ASSUME NEW n \in ReadSizes[device], BeginAfterHeader(n)
      PROVE  EveryStartScanned'
  <2>1. consumed' = primed' /\ consumed' \in Int
    BY <1>2, Sizes, StreamAssumption DEF BeginAfterHeader, IInv, TypeOK
  <2> QED
    BY <2>1 DEF EveryStartScanned
<1>3. CASE UNCHANGED <<consumed, primed, scanned>>
  BY <1>3 DEF EveryStartScanned
<1>4. \/ Process \/ (\E n \in ReadSizes[device] : BeginAfterHeader(n))
      \/ UNCHANGED <<consumed, primed, scanned>>
  BY DEF Next, ServerSend, ServerEnd, Interrupt, Open, OpenFails, Begin, ReaderRead, ReadFile, ReaderEnd,
         ReaderSend, ReadRtlTcp, ReadFileEnd, ReadFileError, Top, Break, Retry, Wake, readerVars, mainVars, vars
<1> QED
  BY <1>1, <1>2, <1>3, <1>4

(* Whatever the sizes of the reads, every sample is within the range of    *)
(* some buffer that is searched for starts.                                *)
THEOREM NoStartIsMissed == Spec => []EveryStartScanned
<1>1. Init => EveryStartScanned
  BY DEF Init, EveryStartScanned
<1> QED
  BY <1>1, NextScanned, Invariant, Aligned, PTL DEF Spec

-----------------------------------------------------------------------------
(* Opening the device step by step is one of the behaviours of             *)
(* SampleStream, whose theorems therefore hold of it.                      *)
THEOREM SetupRunsStream == SetupSpec => Spec
<1>1. SetupInit => Init
  BY DEF SetupInit
<1>2. [SetupNext]_allVars => [Next]_vars
  BY DEF SetupNext, ServerInfo, Server, Setup, Connect, ConnectFails, Waited, GiveUp, ReadInfo, BadInfo,
         SendCommand, CommandFails, SpawnReader, OpenFile, SetGain, Running, Reader, Reading, Looping, Next, allVars
<1> QED
  BY <1>1, <1>2, PTL DEF SetupSpec, Spec

-----------------------------------------------------------------------------
(* What has been written: nothing, then the settings one by one, then the  *)
(* gain.                                                                   *)
CommandsInv ==
  /\ phase \in {"connect", "wait", "info"} => commands = <<>>
  /\ phase = "configure" => \E n \in 0 .. 4 : commands = SubSeq(Settings, 1, n)
  /\ phase = "gain" /\ ~IsFile => commands = Settings
  /\ phase = "running" /\ ~IsFile =>
       /\ Len(commands) >= 4 /\ SubSeq(commands, 1, 4) = Settings
       /\ ~broken => commands[Len(commands)] = <<"SET_GAIN", IF gain = NoGain THEN DefaultGain ELSE gain>>

(* Nothing is read, and the main loop has not begun, while the device is   *)
(* being opened.                                                           *)
OpeningInv ==
  /\ phase \in {"connect", "wait", "info", "configure", "gain", "running", "failed"}
  /\ phase \in {"connect", "wait", "info", "configure"} => mpc = "open"
  /\ phase = "gain" => mpc = "opened"
  /\ mpc = "open" => rpc = "none" /\ queue = <<>> /\ taken = -Header

SetupInv == CommandsInv /\ OpeningInv

(* Four commands.                                                          *)
LEMMA SettingsSeq ==
  /\ Len(Settings) = 4
  /\ Settings \in Seq({Settings[i] : i \in 1 .. 4})
BY DEF Settings

(* What follows the settings does not disturb them.                        *)
LEMMA AfterSettings ==
  ASSUME NEW S, NEW s \in Seq(S), Len(s) = 4, NEW g \in Seq(S)
  PROVE  /\ Len(s \o g) = 4 + Len(g)
         /\ SubSeq(s \o g, 1, 4) = s
         /\ Len(g) = 2 => (s \o g)[6] = g[2]
<1>1. /\ Len(s \o g) = Len(s) + Len(g)
      /\ \A i \in 1 .. Len(s) + Len(g) : (s \o g)[i] = IF i <= Len(s) THEN s[i] ELSE g[i - Len(s)]
  BY ConcatProperties
<1>2. SubSeq(s \o g, 1, 4) = SubSeq(s, 1, 4)
  <2>1. 1 \in 1 .. Len(s) /\ 4 \in 1 .. Len(s)
    OBVIOUS
  <2> QED
    BY <2>1, SubSeqOfConcat1, Zenon
<1>3. SubSeq(s, 1, 4) = s
  BY SubSeqFull
<1>4. Len(g) = 2 => (s \o g)[6] = g[2]
  BY <1>1
<1> QED
  BY <1>1, <1>2, <1>3, <1>4

LEMMA SetupInitInvariant == SetupInit => SetupInv
BY DEF SetupInit, Init, SetupInv, CommandsInv, OpeningInv

LEMMA NextOpening == OpeningInv /\ [SetupNext]_allVars => OpeningInv'
<1> SUFFICES ASSUME OpeningInv, [SetupNext]_allVars
             PROVE  OpeningInv'
  OBVIOUS
<1>1. CASE Setup
  BY <1>1 DEF Setup, Connect, ConnectFails, Waited, GiveUp, ReadInfo, BadInfo, SendCommand, CommandFails,
              SpawnReader, OpenFile, SetGain, Open, OpenFails, OpeningInv, Header, vars, readerVars, mainVars
<1>2. CASE (\E kind \in {"good", "bad"} : ServerInfo(kind)) \/ Server
  BY <1>2 DEF ServerInfo, Server, ServerSend, ServerEnd, OpeningInv, Header, vars, setupVars, readerVars, mainVars
<1>3. CASE Running /\ UNCHANGED setupVars
  BY <1>3 DEF Running, Reader, Reading, Looping, Begin, BeginAfterHeader, ReaderRead, ReaderEnd, ReaderSend,
              ReadRtlTcp, ReadFile, ReadFileEnd, ReadFileError, Top, Break, Retry, Wake, Process, Interrupt,
              OpeningInv, Header, setupVars, readerVars, mainVars
<1>4. CASE UNCHANGED allVars
  BY <1>4 DEF allVars, vars, setupVars, readerVars, mainVars, OpeningInv, Header
<1> QED
  BY <1>1, <1>2, <1>3, <1>4 DEF SetupNext

LEMMA NextCommands == SetupInv /\ [SetupNext]_allVars => CommandsInv'
<1> SUFFICES ASSUME SetupInv, [SetupNext]_allVars
             PROVE  CommandsInv'
  OBVIOUS
<1>0. CommandsInv /\ OpeningInv
  BY DEF SetupInv
<1>1. CASE Connect \/ ConnectFails \/ Waited \/ GiveUp \/ BadInfo \/ CommandFails
  BY <1>0, <1>1 DEF Connect, ConnectFails, Waited, GiveUp, BadInfo, CommandFails, CommandsInv
<1>2. CASE ReadInfo
  <2>1. SubSeq(Settings, 1, 0) = <<>>
    BY SubSeqEmpty
  <2> QED
    BY <1>0, <1>2, <2>1 DEF ReadInfo, CommandsInv
<1>3. CASE SendCommand
  <2>1. PICK n \in 0 .. 4 : commands = SubSeq(Settings, 1, n)
    BY <1>0, <1>3 DEF SendCommand, CommandsInv
  <2>2. Len(commands) = n
    BY <2>1, SettingsSeq, SubSeqProperties
  <2>3. n \in 0 .. 3 /\ commands' = Append(SubSeq(Settings, 1, n), Settings[n + 1])
    BY <1>3, <2>1, <2>2, SettingsSeq DEF SendCommand
  <2> HIDE DEF Settings
  <2>4. Append(SubSeq(Settings, 1, n), Settings[n + 1]) = SubSeq(Settings, 1, n) \o <<Settings[n + 1]>>
    BY <2>3, SettingsSeq, SubSeqProperties, AppendIsConcat
  <2>5. SubSeq(Settings, 1, n + 1) = SubSeq(Settings, 1, (n + 1) - 1) \o <<Settings[n + 1]>>
    BY <2>3, SettingsSeq, SubSeqRecursiveSecond
  <2>6. (n + 1) - 1 = n /\ n + 1 \in 0 .. 4
    BY <2>3
  <2> QED
    BY <1>3, <2>3, <2>4, <2>5, <2>6 DEF SendCommand, CommandsInv
<1>4. CASE SpawnReader
  <2>1. PICK n \in 0 .. 4 : commands = SubSeq(Settings, 1, n)
    BY <1>0, <1>4 DEF SpawnReader, CommandsInv
  <2>2. n = 4
    BY <1>4, <2>1, SettingsSeq, SubSeqProperties DEF SpawnReader
  <2>3. commands = Settings
    BY <2>1, <2>2, SettingsSeq, SubSeqFull
  <2> QED
    BY <1>4, <2>3 DEF SpawnReader, CommandsInv
<1>5. CASE OpenFile
  BY <1>5 DEF OpenFile, Open, OpenFails, CommandsInv, IsFile
<1>6. CASE SetGain
  <2>1. phase' = "running" /\ gain' = gain /\ device' = device
    BY <1>6 DEF SetGain, vars
  <2>2. CASE ~IsFile /\ gain = NoGain
    <3>1. commands' = Settings
      BY <1>0, <1>6, <2>2 DEF SetGain, CommandsInv
    <3>2. Settings[4] = <<"SET_GAIN", DefaultGain>>
      BY DEF Settings
    <3>3. SubSeq(Settings, 1, 4) = Settings
      BY SettingsSeq, SubSeqFull
    <3> QED
      BY <2>1, <2>2, <3>1, <3>2, <3>3, SettingsSeq DEF CommandsInv
  <2>3. CASE ~IsFile /\ gain # NoGain
    <3>1. commands = Settings
      BY <1>0, <1>6, <2>3 DEF SetGain, CommandsInv
    <3>2. PICK n \in 0 .. Len(GainCommands) :
            /\ \E written \in Written(n) : commands' = commands \o written
            /\ broken' = (n < Len(GainCommands))
      BY <1>6, <2>3 DEF SetGain
    <3>3. /\ Len(GainCommands) = 2 /\ GainCommands[2] = <<"SET_GAIN", gain>>
          /\ GainCommands \in Seq({GainCommands[i] : i \in 1 .. 2})
      BY <2>3 DEF GainCommands
    <3> DEFINE S == {Settings[i] : i \in 1 .. 4} \cup {GainCommands[i] : i \in 1 .. 2}
                      \cup {Half(GainCommands[i]) : i \in 1 .. 2}
    <3>4. PICK g \in Written(n) : commands' = commands \o g
      BY <3>2
    <3>5. Settings \in Seq(S) /\ Len(Settings) = 4 /\ GainCommands \in Seq(S)
      BY <3>3, SettingsSeq, SeqMonotonic
    <3>6. g \in Seq(S) /\ (n = 2 => g = GainCommands)
      <4>1. CASE n = 2
        BY <4>1, <3>3, <3>4, <3>5 DEF Written
      <4>2. CASE n # 2
        <5>1. n + 1 \in 1 .. 2 /\ n \in 0 .. 1
          BY <4>2, <3>2, <3>3
        <5>2. SubSeq(GainCommands, 1, n) \in Seq(S)
          BY <5>1, <3>3, <3>5, SubSeqProperties
        <5>3. Half(GainCommands[n + 1]) \in S
          BY <5>1
        <5>4. Append(SubSeq(GainCommands, 1, n), Half(GainCommands[n + 1])) \in Seq(S)
          <6> HIDE DEF S
          <6> QED
            BY <5>2, <5>3, AppendProperties
        <5>5. g \in {SubSeq(GainCommands, 1, n), Append(SubSeq(GainCommands, 1, n), Half(GainCommands[n + 1]))}
          BY <4>2, <3>3, <3>4 DEF Written
        <5> QED
          BY <4>2, <5>2, <5>4, <5>5
      <4> QED
        BY <4>1, <4>2
    <3> HIDE DEF S
    <3>7. /\ Len(Settings \o g) = 4 + Len(g)
          /\ SubSeq(Settings \o g, 1, 4) = Settings
          /\ Len(g) = 2 => (Settings \o g)[6] = g[2]
      BY <3>5, <3>6, AfterSettings
    <3>8. Len(g) \in Nat /\ commands' = Settings \o g
      BY <3>1, <3>4, <3>6
    <3>9. /\ Len(commands') >= 4 /\ SubSeq(commands', 1, 4) = Settings
          /\ n = 2 => Len(commands') = 6 /\ commands'[6] = <<"SET_GAIN", gain>>
      <4>1. Len(commands') = 4 + Len(g) /\ SubSeq(commands', 1, 4) = Settings
        BY <3>7, <3>8
      <4>2. n = 2 => Len(g) = 2 /\ g[2] = <<"SET_GAIN", gain>>
        BY <3>3, <3>6
      <4>3. n = 2 => commands'[6] = g[2]
        BY <4>2, <3>7, <3>8
      <4> QED
        BY <4>1, <4>2, <4>3, <3>8
    <3>10. ~broken' => n = 2
      <4>1. ~broken' => ~(n < Len(GainCommands))
        BY <3>2, Zenon
      <4> QED
        BY <3>2, <3>3, <4>1
    <3> QED
      BY <2>1, <2>3, <3>9, <3>10 DEF CommandsInv
  <2> QED
    BY <2>1, <2>2, <2>3 DEF CommandsInv, IsFile
<1>7. CASE (\E kind \in {"good", "bad"} : ServerInfo(kind)) \/ Server
  BY <1>0, <1>7 DEF ServerInfo, Server, ServerSend, ServerEnd, CommandsInv, IsFile, vars, setupVars
<1>8. CASE Running /\ UNCHANGED setupVars
  <2>1. device' = device
    BY <1>8 DEF Running, Reader, Reading, Looping, Begin, BeginAfterHeader, ReaderRead, ReaderEnd, ReaderSend,
                ReadRtlTcp, ReadFile, ReadFileEnd, ReadFileError, Top, Break, Retry, Wake, Process, Interrupt
  <2> QED
    BY <1>0, <1>8, <2>1 DEF CommandsInv, IsFile, setupVars
<1>9. CASE UNCHANGED allVars
  BY <1>0, <1>9 DEF CommandsInv, IsFile, allVars, vars, setupVars
<1> QED
  BY <1>1, <1>2, <1>3, <1>4, <1>5, <1>6, <1>7, <1>8, <1>9 DEF SetupNext, Setup

LEMMA SetupInvariant == SetupSpec => []SetupInv
<1>1. SetupInv /\ [SetupNext]_allVars => SetupInv'
  BY NextOpening, NextCommands DEF SetupInv
<1> QED
  BY <1>1, SetupInitInvariant, PTL DEF SetupSpec

(* Whatever the server does, nothing it sends is read before it has been   *)
(* told all settings, and the last gain it is told is the configured one   *)
(* unless a write failed.                                                  *)
THEOREM ConfiguredFirst == SetupSpec => []SettingsComeFirst
<1>1. ASSUME SetupInv
      PROVE  SettingsComeFirst
  <2> SUFFICES ASSUME ~IsFile, phase # "failed"
               PROVE  /\ taken > 0 \/ queue # <<>> =>
                           Len(commands) >= Len(Settings) /\ SubSeq(commands, 1, Len(Settings)) = Settings
                      /\ mpc \notin {"open", "opened"} /\ ~broken /\ commands # <<>> =>
                           commands[Len(commands)] = <<"SET_GAIN", IF gain = NoGain THEN DefaultGain ELSE gain>>
    BY DEF SettingsComeFirst
  <2>1. Header = 0
    BY DEF IsFile, Header
  <2>2. taken > 0 \/ queue # <<>> => mpc # "open"
    BY <1>1, <2>1 DEF SetupInv, OpeningInv
  <2>3. mpc # "open" => phase \in {"gain", "running"}
    BY <1>1 DEF SetupInv, OpeningInv
  <2>4. phase \in {"gain", "running"} => Len(commands) >= 4 /\ SubSeq(commands, 1, 4) = Settings
    <3>1. SubSeq(Settings, 1, 4) = Settings /\ Len(Settings) >= 4
      BY SettingsSeq, SubSeqFull
    <3> QED
      BY <1>1, <3>1 DEF SetupInv, CommandsInv
  <2>5. mpc \notin {"open", "opened"} => phase = "running"
    BY <1>1, <2>3 DEF SetupInv, OpeningInv
  <2> QED
    BY <1>1, <2>2, <2>3, <2>4, <2>5, SettingsSeq DEF SetupInv, CommandsInv
<1> QED
  BY <1>1, SetupInvariant, PTL

=============================================================================

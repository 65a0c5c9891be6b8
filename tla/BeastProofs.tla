----------------------------- MODULE BeastProofs ----------------------------
(***************************************************************************)
(* Proofs about BeastCodec, BeastReaders and BeastClients, for any frame   *)
(* types and lengths, any bytes, any reads and any sizes of buffers and    *)
(* batches: the state is well typed, a frame is parsed back whatever bytes *)
(* it is made of, frames that come in one piece arrive, a recording can be *)
(* replayed up to its first torn record, what compare counts is fair, and  *)
(* snapshots are whole.                                                    *)
(*                                                                         *)
(* The operators of the codec are functions that call themselves on the    *)
(* rest of their argument; Recursion gives them the equations they are     *)
(* written with, and each is then known by its steps.  About the state,    *)
(* there is one invariant for each question.  ReadersInv: the wire is the  *)
(* encodings of the frames sent last.  UncutFramesArrive needs no other:   *)
(* a scan that comes to an ESC goes on as one that begins there.           *)
(* ProgramInv: which versions of a snapshot there are at each point of     *)
(* viewsb.  FileInv: the file is the records written whole and then part   *)
(* of the next, or a torn record and whatever follows it.  FairInv: what   *)
(* ComparisonIsFair says, of the frames compared so far instead of all     *)
(* received.                                                               *)
(***************************************************************************)
EXTENDS BeastClients, Recursion, SequenceTheorems, FiniteSetTheorems, TLAPS

-----------------------------------------------------------------------------
(* Sequences, and FlattenSeq by its steps.                                 *)

(* Appending sequences associates.                                         *)
LEMMA Associative == \A S : \A x, y, z \in Seq(S) : (x \o y) \o z = x \o (y \o z)
OBVIOUS

(* The sequences FlattenSeq goes through.                                  *)
IsFlattening(fl, S, n, ss) ==
  /\ fl[1] = ss[1]
  /\ \A i \in 1 .. n : fl[i] \in Seq(S) /\ ss[i] \in Seq(S) /\ (i < n => fl[i + 1] = fl[i] \o ss[i + 1])

(* FlattenSeq is what its steps end in.                                    *)
LEMMA FlattenBySteps ==
  ASSUME NEW S, NEW ss \in Seq(Seq(S)), ss # <<>>
  PROVE  \E fl : IsFlattening(fl, S, Len(ss), ss) /\ FlattenSeq(ss) = fl[Len(ss)]
<1> DEFINE D == 1 .. Len(ss)
           A == Seq(S)
           flatten[i \in 1 .. Len(ss)] == IF i = 1 THEN ss[i] ELSE flatten[i - 1] \o ss[i]
           mu == [i \in D |-> i]
           F == [g \in [D -> A] |-> [i \in D |-> IF i = 1 THEN ss[i] ELSE g[i - 1] \o ss[i]]]
<1>0. Len(ss) \in Nat /\ Len(ss) > 0 /\ \A i \in D : ss[i] \in A
  OBVIOUS
<1>1. F \in [[D -> A] -> [D -> A]] /\ mu \in [D -> Nat]
  <2>1. ASSUME NEW g \in [D -> A], NEW i \in D
        PROVE  (IF i = 1 THEN ss[i] ELSE g[i - 1] \o ss[i]) \in A
    <3>1. i # 1 => i - 1 \in D
      BY <1>0
    <3>2. i # 1 => g[i - 1] \in A
      <4> HIDE DEF A, D
      <4> QED
        BY <3>1
    <3> QED
      BY <1>0, <3>2, ConcatProperties
  <2>2. \A g \in [D -> A] : [i \in D |-> IF i = 1 THEN ss[i] ELSE g[i - 1] \o ss[i]] \in [D -> A]
    <3> HIDE DEF A, D
    <3> QED
      BY <2>1
  <2>3. F \in [[D -> A] -> [D -> A]]
    <3> HIDE DEF A, D
    <3> QED
      BY <2>2
  <2>4. mu \in [D -> Nat]
    BY <1>0
  <2> QED
    BY <2>3, <2>4
<1>2. IsRecursion(D, A, mu, F)
  <2>1. ASSUME NEW g \in [D -> A], NEW h \in [D -> A], NEW d \in D, \A e \in D : mu[e] < mu[d] => g[e] = h[e]
        PROVE  F[g][d] = F[h][d]
    <3>1. d # 1 => d - 1 \in D /\ mu[d - 1] < mu[d]
      BY <1>0
    <3>2. d # 1 => g[d - 1] = h[d - 1]
      BY <2>1, <3>1
    <3> HIDE DEF A, D, mu
    <3> QED
      BY <3>2
  <2> HIDE DEF A, D, mu, F
  <2> QED
    BY <1>1, <2>1 DEF IsRecursion
<1>3. PICK f \in [D -> A] : f = F[f]
  <2>1. A # {}
    BY <1>0
  <2> HIDE DEF A, D, mu, F
  <2> QED
    BY <1>2, <2>1, RecursionHasSolution
<1>4. flatten = [i \in D |-> IF i = 1 THEN ss[i] ELSE flatten[i - 1] \o ss[i]]
  <2>1. f = [i \in D |-> IF i = 1 THEN ss[i] ELSE f[i - 1] \o ss[i]]
    BY <1>3
  <2> HIDE DEF F, A
  <2> QED
    BY <2>1
<1>5. FlattenSeq(ss) = flatten[Len(ss)]
  BY <1>0 DEF FlattenSeq
<1> HIDE DEF flatten
<1>6. f = [i \in D |-> IF i = 1 THEN ss[i] ELSE f[i - 1] \o ss[i]]
  BY <1>3
<1> HIDE DEF F
<1>7. flatten = f
  <2> DEFINE Same == {d \in D : flatten[d] = f[d]}
  <2>1. ASSUME NEW d \in D, \A e \in D : mu[e] < mu[d] => e \in Same PROVE d \in Same
    <3>1. d # 1 => d - 1 \in D /\ mu[d - 1] < mu[d]
      BY <1>0
    <3> HIDE DEF D, A, mu
    <3> QED
      BY <2>1, <3>1, <1>4, <1>6, ZenonT(60)
  <2>2. D \subseteq Same
    <3> HIDE DEF D, mu, Same
    <3> QED
      BY <1>1, <2>1, MeasureInduction
  <2> HIDE DEF D, A
  <2> QED
    BY <2>2, <1>4, <1>6
<1>8. IsFlattening(flatten, S, Len(ss), ss)
  <2> HIDE DEF flatten
  <2>1. f[1] = ss[1]
    BY <1>0, <1>6
  <2>2. ASSUME NEW i \in 1 .. Len(ss) PROVE f[i] \in Seq(S) /\ (i < Len(ss) => f[i + 1] = f[i] \o ss[i + 1])
    <3>1. i < Len(ss) => i + 1 \in D /\ i + 1 # 1 /\ (i + 1) - 1 = i
      BY <1>0
    <3>2. i < Len(ss) => f[i + 1] = f[(i + 1) - 1] \o ss[i + 1]
      BY <1>6, <3>1
    <3> QED
      BY <3>1, <3>2
  <2> QED
    BY <1>0, <1>7, <2>1, <2>2 DEF IsFlattening
<1> QED
  BY <1>5, <1>8

(* What sequences over S flatten to is a sequence over S.                  *)
LEMMA FlattenType ==
  ASSUME NEW S, NEW ss \in Seq(Seq(S))
  PROVE  FlattenSeq(ss) \in Seq(S)
<1>1. CASE ss = <<>>
  BY <1>1 DEF FlattenSeq
<1>2. CASE ss # <<>>
  <2>1. PICK fl : IsFlattening(fl, S, Len(ss), ss) /\ FlattenSeq(ss) = fl[Len(ss)]
    BY <1>2, FlattenBySteps
  <2>2. Len(ss) \in 1 .. Len(ss)
    BY <1>2
  <2> QED
    BY <2>1, <2>2 DEF IsFlattening
<1> QED
  BY <1>1, <1>2

(* One sequence flattens to itself.                                        *)
LEMMA FlattenOne ==
  ASSUME NEW S, NEW a \in Seq(S)
  PROVE  FlattenSeq(<<a>>) = a
<1>1. <<a>> \in Seq(Seq(S)) /\ <<a>> # <<>> /\ Len(<<a>>) = 1
  OBVIOUS
<1>2. PICK fl : IsFlattening(fl, S, Len(<<a>>), <<a>>) /\ FlattenSeq(<<a>>) = fl[Len(<<a>>)]
  BY <1>1, FlattenBySteps
<1> QED
  BY <1>1, <1>2 DEF IsFlattening

(* st is ss, of m elements, with tt, of n, behind it.                      *)
IsJoined(st, m, ss, n, tt) ==
  /\ \A i \in 1 .. m : st[i] = ss[i]
  /\ \A i \in 1 .. n : st[m + i] = tt[i]

(* Flattening more gives what was there with more behind it.               *)
Extends(h, l, f, m, g, n) == h[l] = f[m] \o g[n]

(* The steps of two flattenings are those of the sequence of both.         *)
LEMMA FlatteningsJoin ==
  ASSUME NEW S, NEW m \in Nat, NEW n \in Nat, NEW l \in Nat, l = m + n, m > 0, n > 0, NEW ss, NEW tt, NEW f, NEW g, NEW h,
         NEW st, IsJoined(st, m, ss, n, tt),
         IsFlattening(f, S, m, ss), IsFlattening(g, S, n, tt), IsFlattening(h, S, l, st)
  PROVE Extends(h, l, f, m, g, n)
<1>0. /\ f[1] = ss[1] /\ g[1] = tt[1] /\ h[1] = st[1]
      /\ \A i \in 1 .. m : st[i] = ss[i]
      /\ \A i \in 1 .. n : st[m + i] = tt[i]
      /\ \A i \in 1 .. m : f[i] \in Seq(S)
      /\ \A i \in 1 .. n : g[i] \in Seq(S) /\ tt[i] \in Seq(S)
      /\ \A i \in 1 .. m : i < m => f[i + 1] = f[i] \o ss[i + 1]
      /\ \A i \in 1 .. n : i < n => g[i + 1] = g[i] \o tt[i + 1]
      /\ \A i \in 1 .. m + n : i < m + n => h[i + 1] = h[i] \o st[i + 1]
  BY DEF IsFlattening, IsJoined
<1>1. h[m] = f[m]
  <2> DEFINE N == {k \in Nat : k + 1 <= m => h[k + 1] = f[k + 1]}
  <2>1. 0 \in N
    <3>1. h[1] = f[1]
      BY <1>0
    <3>2. h[0 + 1] = f[0 + 1]
      BY <3>1
    <3> QED
      BY <3>2
  <2>2. ASSUME NEW k \in Nat, k \in N PROVE k + 1 \in N
    <3> SUFFICES ASSUME k + 1 + 1 <= m PROVE h[k + 1 + 1] = f[k + 1 + 1]
      OBVIOUS
    <3>1. k + 1 \in 1 .. m + n /\ k + 1 < m + n /\ k + 1 \in 1 .. m /\ k + 1 < m /\ k + 1 + 1 \in 1 .. m
      OBVIOUS
    <3>2. h[k + 1 + 1] = h[k + 1] \o ss[k + 1 + 1]
      BY <1>0, <3>1
    <3>3. f[k + 1 + 1] = f[k + 1] \o ss[k + 1 + 1]
      BY <1>0, <3>1
    <3>4. h[k + 1] = f[k + 1]
      BY <2>2, <3>1
    <3> QED
      BY <3>2, <3>3, <3>4, Zenon
  <2>3. Nat \subseteq N
    <3> HIDE DEF N
    <3> QED
      BY <2>1, <2>2, Induction
  <2>4. m - 1 \in N /\ (m - 1) + 1 = m
    <3>1. m - 1 \in Nat /\ (m - 1) + 1 = m
      OBVIOUS
    <3> HIDE DEF N
    <3> QED
      BY <2>3, <3>1
  <2> QED
    BY <2>4
<1> DEFINE Good(k) == h[m + k] = f[m] \o g[k]
           N == {k \in Nat : k + 1 <= n => Good(k + 1)}
<1>2. Good(1)
  <2>1. m \in 1 .. m + n /\ m < m + n /\ 1 \in 1 .. n
    OBVIOUS
  <2>2. h[m + 1] = h[m] \o tt[1]
    BY <1>0, <2>1
  <2> QED
    BY <1>0, <1>1, <2>2, Zenon
<1>3. ASSUME NEW k \in 1 .. n, k < n, Good(k) PROVE Good(k + 1)
  <2>1. /\ m + k \in 1 .. m + n /\ m + k < m + n /\ k + 1 \in 1 .. n /\ m \in 1 .. m
        /\ m + k + 1 = m + (k + 1)
    BY <1>3
  <2>2. h[m + (k + 1)] = h[m + k] \o st[m + (k + 1)]
    BY <1>0, <2>1
  <2>3. st[m + (k + 1)] = tt[k + 1] /\ tt[k + 1] \in Seq(S)
    BY <1>0, <2>1
  <2>4. g[k + 1] = g[k] \o tt[k + 1] /\ g[k] \in Seq(S)
    BY <1>0, <1>3
  <2>5. f[m] \in Seq(S) /\ h[m + k] = f[m] \o g[k]
    BY <1>0, <1>3, <2>1
  <2>6. (f[m] \o g[k]) \o tt[k + 1] = f[m] \o (g[k] \o tt[k + 1])
    <3>1. \A x, y, z \in Seq(S) : (x \o y) \o z = x \o (y \o z)
      OBVIOUS
    <3> QED
      BY <2>3, <2>4, <2>5, <3>1, Zenon
  <2> QED
    BY <2>2, <2>3, <2>4, <2>5, <2>6, Zenon
<1> HIDE DEF Good
<1>4. 0 \in N /\ \A k \in Nat : k \in N => k + 1 \in N
  BY <1>2, <1>3
<1>5. Nat \subseteq N
  <2> HIDE DEF N
  <2> QED
    BY <1>4, Induction
<1>6. Good(n)
  <2>1. n - 1 \in Nat /\ (n - 1) + 1 = n
    OBVIOUS
  <2>2. n - 1 \in N
    BY <1>5, <2>1, Zenon
  <2> QED
    BY <2>1, <2>2
<1> QED
  BY <1>6, Zenon DEF Good, Extends

(* FlattenSeq is a homomorphism.                                           *)
LEMMA FlattenConcat ==
  ASSUME NEW S, NEW ss \in Seq(Seq(S)), NEW tt \in Seq(Seq(S))
  PROVE  FlattenSeq(ss \o tt) = FlattenSeq(ss) \o FlattenSeq(tt)
<1>1. CASE ss = <<>>
  <2>1. FlattenSeq(ss) = <<>> /\ ss \o tt = tt
    BY <1>1, ConcatEmptySeq DEF FlattenSeq
  <2> QED
    BY <2>1, FlattenType, ConcatEmptySeq
<1>2. CASE tt = <<>>
  <2>1. FlattenSeq(tt) = <<>> /\ ss \o tt = ss
    BY <1>2, ConcatEmptySeq DEF FlattenSeq
  <2> QED
    BY <2>1, FlattenType, ConcatEmptySeq
<1> DEFINE Goal == FlattenSeq(ss \o tt) = FlattenSeq(ss) \o FlattenSeq(tt)
<1>3. ASSUME NEW m \in Nat, NEW n \in Nat, m = Len(ss), n = Len(tt), m > 0, n > 0, NEW st, st = ss \o tt,
             NEW l \in Nat, l = m + n
      PROVE  Goal
  <2>1. /\ ss \o tt \in Seq(Seq(S)) /\ Len(ss \o tt) = m + n /\ ss \o tt # <<>>
        /\ ss # <<>> /\ tt # <<>>
        /\ \A i \in 1 .. m : ss[i] \in Seq(S) /\ (ss \o tt)[i] = ss[i]
        /\ \A i \in 1 .. n : tt[i] \in Seq(S) /\ (ss \o tt)[m + i] = tt[i]
    BY <1>3
  <2>2. PICK f : IsFlattening(f, S, m, ss) /\ FlattenSeq(ss) = f[m]
    BY <1>3, <2>1, FlattenBySteps
  <2>3. PICK g : IsFlattening(g, S, n, tt) /\ FlattenSeq(tt) = g[n]
    BY <1>3, <2>1, FlattenBySteps
  <2>c. st \in Seq(Seq(S)) /\ Len(st) = l /\ st # <<>> /\ FlattenSeq(ss \o tt) = FlattenSeq(st)
    BY <1>3, <2>1, Zenon
  <2>4. PICK h : IsFlattening(h, S, l, st) /\ FlattenSeq(ss \o tt) = h[l]
    BY <2>c, FlattenBySteps
  <2>5. IsJoined(st, m, ss, n, tt)
    BY <2>1, <1>3 DEF IsJoined
  <2>a. l = m + n /\ m > 0 /\ n > 0 /\ IsJoined(st, m, ss, n, tt)
    BY <1>3, <2>5
  <2>b. IsFlattening(f, S, m, ss) /\ IsFlattening(g, S, n, tt) /\ IsFlattening(h, S, l, st)
    BY <2>2, <2>3, <2>4
  <2>9. Extends(h, l, f, m, g, n)
    BY <2>a, <2>b, FlatteningsJoin
  <2> QED
    BY <2>2, <2>3, <2>4, <2>9, <1>3, Zenon DEF Extends
<1>4. /\ Len(ss) \in Nat /\ Len(tt) \in Nat
      /\ ss # <<>> => Len(ss) > 0
      /\ tt # <<>> => Len(tt) > 0
  OBVIOUS
<1>5. ASSUME ss # <<>>, tt # <<>> PROVE Goal
  <2>1. PICK st : st = ss \o tt
    OBVIOUS
  <2>2. Len(ss) + Len(tt) \in Nat
    BY <1>4
  <2> HIDE DEF Goal
  <2> QED
    BY <1>3, <1>4, <1>5, <2>1, <2>2
<1> QED
  BY <1>1, <1>2, <1>5

(* What SMT knows of two sequences one behind the other.                   *)
LEMMA Concat ==
  ASSUME NEW S, NEW a \in Seq(S), NEW b \in Seq(S)
  PROVE  /\ a \o b \in Seq(S) /\ Len(a \o b) = Len(a) + Len(b)
         /\ \A i \in 1 .. Len(a) : (a \o b)[i] = a[i]
         /\ \A i \in 1 .. Len(b) : (a \o b)[Len(a) + i] = b[i]
OBVIOUS

(* A sequence that is not empty has a first element and a rest.            *)
LEMMA FirstAndRest ==
  ASSUME NEW S, NEW s \in Seq(S), s # <<>>
  PROVE  s[1] \in S /\ Tail(s) \in Seq(S) /\ s = <<s[1]>> \o Tail(s) /\ Len(s) = Len(Tail(s)) + 1
<1>1. Tail(s) \in Seq(S) /\ s[1] \in S /\ Len(s) = Len(Tail(s)) + 1
  OBVIOUS
<1>2. s = <<s[1]>> \o Tail(s)
  OBVIOUS
<1> QED
  BY <1>1, <1>2

(* A function on 1 .. n is a sequence of that length.                      *)
LEMMA FunctionIsSequence ==
  ASSUME NEW S, NEW n \in Nat, NEW f \in [1 .. n -> S]
  PROVE  f \in Seq(S) /\ Len(f) = n
OBVIOUS

(* What holds of the empty sequence and of a longer one whenever it holds  *)
(* of the rest holds of all.                                               *)
LEMMA SequenceInduction ==
  ASSUME NEW S, NEW P, <<>> \in P,
         \A a \in S, q \in Seq(S) : q \in P => <<a>> \o q \in P
  PROVE  Seq(S) \subseteq P
<1> DEFINE mu == [s \in Seq(S) |-> Len(s)]
           D == Seq(S)
<1>1. mu \in [D -> Nat]
  OBVIOUS
<1>2. ASSUME NEW s \in D, \A e \in D : mu[e] < mu[s] => e \in P PROVE s \in P
  <2>1. CASE s = <<>>
    BY <2>1
  <2>2. CASE s # <<>>
    <3>0. s[1] \in S /\ Tail(s) \in Seq(S) /\ s = <<s[1]>> \o Tail(s) /\ Len(s) = Len(Tail(s)) + 1
      BY <2>2, FirstAndRest
    <3>1. PICK a \in S, q \in Seq(S) : s = <<a>> \o q /\ Len(s) = Len(q) + 1
      BY <3>0
    <3>2. mu[q] < mu[s]
      BY <3>1
    <3>3. q \in P
      BY <3>2, <1>2
    <3> QED
      BY <3>1, <3>3
  <2> QED
    BY <2>1, <2>2
<1> HIDE DEF mu, D
<1>3. D \subseteq P
  BY <1>1, <1>2, MeasureInduction
<1> QED
  BY <1>3 DEF D

(* A byte is stuffed to bytes.                                             *)
LEMMA StuffType ==
  ASSUME NEW a \in Byte
  PROVE  Stuff(a) \in Seq(Byte) /\ Len(Stuff(a)) \in 1 .. 2
BY CodecAssumption DEF Stuff

(* Nothing escapes to nothing.                                             *)
LEMMA EscapeEmpty == Escape(<<>>) = <<>>
BY DEF Escape, FlattenSeq

(* A payload is escaped byte by byte.                                      *)
LEMMA EscapeFirst ==
  ASSUME NEW a \in Byte, NEW q \in Seq(Byte)
  PROVE  /\ Escape(<<a>> \o q) = Stuff(a) \o Escape(q)
         /\ Escape(q) \in Seq(Byte)
<1> DEFINE stuffed(s) == [i \in DOMAIN s |-> Stuff(s[i])]
<1>1. PICK s : s = <<a>> \o q
  OBVIOUS
<1>2. s \in Seq(Byte) /\ Len(s) = Len(q) + 1 /\ s[1] = a /\ \A i \in 1 .. Len(q) : s[i + 1] = q[i]
  BY <1>1
<1>3. \A b \in Byte : Stuff(b) \in Seq(Byte)
  BY StuffType
<1>4. stuffed(s) \in Seq(Seq(Byte)) /\ stuffed(q) \in Seq(Seq(Byte)) /\ Len(stuffed(q)) = Len(q) /\ Len(stuffed(s)) = Len(s)
  <2>1. ASSUME NEW u \in Seq(Byte) PROVE stuffed(u) \in Seq(Seq(Byte)) /\ Len(stuffed(u)) = Len(u)
    <3>1. Len(u) \in Nat /\ stuffed(u) \in [1 .. Len(u) -> Seq(Byte)]
      BY <1>3
    <3> HIDE DEF stuffed
    <3> QED
      BY <3>1, FunctionIsSequence
  <2> HIDE DEF stuffed
  <2> QED
    BY <1>2, <2>1
<1>5. PICK x, y, z : x = stuffed(s) /\ y = <<Stuff(a)>> /\ z = stuffed(q)
  OBVIOUS
<1>6. x \in Seq(Seq(Byte)) /\ y \in Seq(Seq(Byte)) /\ z \in Seq(Seq(Byte)) /\ Len(x) = Len(q) + 1 /\ Len(z) = Len(q) /\ Len(y) = 1
  <2>1. y \in Seq(Seq(Byte)) /\ Len(y) = 1
    BY <1>3, <1>5
  <2> HIDE DEF stuffed
  <2> QED
    BY <2>1, <1>4, <1>5, <1>2
<1>7. x[1] = y[1] /\ \A i \in 1 .. Len(q) : x[i + 1] = z[i]
  <2>1. DOMAIN s = 1 .. Len(q) + 1 /\ DOMAIN q = 1 .. Len(q) /\ Len(q) \in Nat
    BY <1>2
  <2>2. ASSUME NEW i \in 1 .. Len(q) PROVE x[i + 1] = z[i]
    <3>1. i + 1 \in 1 .. Len(q) + 1 /\ s[i + 1] = q[i]
      BY <2>1, <1>2
    <3> QED
      BY <1>5, <2>1, <3>1
  <2>3. x[1] = Stuff(s[1]) /\ y[1] = Stuff(a)
    BY <1>5, <2>1
  <2> QED
    BY <2>2, <2>3, <1>2
<1>8. x = y \o z
  <2> DEFINE Q == Seq(Byte)
  <2>1. x \in Seq(Q) /\ y \in Seq(Q) /\ z \in Seq(Q)
    BY <1>6
  <2> HIDE DEF Q
  <2>2. Len(x) = Len(z) + 1 /\ Len(y) = 1 /\ x[1] = y[1] /\ \A i \in 1 .. Len(z) : x[i + 1] = z[i]
    BY <1>6, <1>7
  <2>3. PICK w : w = y \o z
    OBVIOUS
  <2>4. w \in Seq(Q) /\ Len(w) = Len(z) + 1 /\ w[1] = y[1] /\ \A i \in 1 .. Len(z) : w[i + 1] = z[i]
    <3>1. /\ w \in Seq(Q) /\ Len(w) = Len(y) + Len(z)
          /\ \A i \in 1 .. Len(y) : w[i] = y[i]
          /\ \A i \in 1 .. Len(z) : w[Len(y) + i] = z[i]
      BY <2>1, <2>3, Concat
    <3> QED
      BY <2>1, <2>2, <3>1
  <2>5. \A i \in 1 .. Len(x) : x[i] = w[i]
    <3>1. ASSUME NEW i \in 1 .. Len(x), i # 1 PROVE x[i] = w[i]
      <4>1. i - 1 \in 1 .. Len(z) /\ (i - 1) + 1 = i
        BY <2>1, <2>2, <3>1
      <4> QED
        BY <2>2, <2>4, <4>1
    <3> QED
      BY <3>1, <2>2, <2>4
  <2> QED
    BY <2>1, <2>2, <2>3, <2>4, <2>5, SeqEqual
<1>9. FlattenSeq(x) = FlattenSeq(y) \o FlattenSeq(z)
  BY <1>6, <1>8, FlattenConcat, Zenon
<1>10. FlattenSeq(y) = Stuff(a)
  BY <1>3, <1>5, FlattenOne
<1>11. Escape(s) = FlattenSeq(x) /\ Escape(q) = FlattenSeq(z)
  BY <1>5 DEF Escape
<1>12. FlattenSeq(z) \in Seq(Byte)
  BY <1>6, FlattenType
<1> HIDE DEF stuffed
<1> QED
  BY <1>1, <1>9, <1>10, <1>11, <1>12, Zenon

-----------------------------------------------------------------------------
(* The codec: what Escape doubles Destuff undoes, and Parse gives back     *)
(* what Encode was given.                                                  *)

(* s is a and then t.                                                      *)
IsPreceded(s, a, t) == s = <<a>> \o t

(* The equations of Destuff, at every place of s.                          *)
IsDestuffing(r, s) ==
  /\ r[Len(s) + 1] = <<>>
  /\ \A i \in 1 .. Len(s) + 1 : r[i] \in Seq(Byte)
  /\ \A i \in 1 .. Len(s) : IsPreceded(r[i], s[i], r[IF Doubled(s, i) THEN i + 2 ELSE i + 1])

(* Destuff has its equations.                                              *)
LEMMA DestuffBySteps ==
  ASSUME NEW s \in Seq(Byte)
  PROVE  \E r : IsDestuffing(r, s) /\ Destuff(s) = r[1]
<1> DEFINE D == 1 .. Len(s) + 1
           A == Seq(Byte)
           rest[i \in 1 .. Len(s) + 1] ==
             IF i > Len(s) THEN <<>>
             ELSE <<s[i]>> \o rest[IF Doubled(s, i) THEN i + 2 ELSE i + 1]
           mu == [i \in D |-> Len(s) + 1 - i]
           next == [i \in D |-> IF Doubled(s, i) THEN i + 2 ELSE i + 1]
           body(g) == [i \in D |-> IF i > Len(s) THEN <<>> ELSE <<s[i]>> \o g[IF Doubled(s, i) THEN i + 2 ELSE i + 1]]
           F == [g \in [D -> A] |-> body(g)]
<1>0. Len(s) \in Nat /\ \A i \in 1 .. Len(s) : s[i] \in Byte
  OBVIOUS
<1>a. mu \in [D -> Nat]
  BY <1>0
<1>b. ASSUME NEW i \in D, ~(i > Len(s))
      PROVE  /\ (IF Doubled(s, i) THEN i + 2 ELSE i + 1) \in D
             /\ mu[IF Doubled(s, i) THEN i + 2 ELSE i + 1] < mu[i]
  <2>1. i \in 1 .. Len(s) /\ (Doubled(s, i) => i < Len(s))
    BY <1>0, <1>b DEF Doubled
  <2> QED
    BY <2>1, <1>0
<1>1. F \in [[D -> A] -> [D -> A]]
  <2>1. ASSUME NEW g \in [D -> A], NEW i \in D
        PROVE  (IF i > Len(s) THEN <<>> ELSE <<s[i]>> \o g[IF Doubled(s, i) THEN i + 2 ELSE i + 1]) \in A
    <3>1. CASE i > Len(s)
      BY <3>1
    <3>2. CASE ~(i > Len(s))
      <4>1. PICK j \in D : j = IF Doubled(s, i) THEN i + 2 ELSE i + 1
        BY <3>2, <1>b
      <4>2. g[j] \in A /\ <<s[i]>> \in A
        <5>1. i \in 1 .. Len(s)
          BY <1>0, <3>2
        <5>2. <<s[i]>> \in A
          BY <5>1, <1>0
        <5> HIDE DEF A, D
        <5> QED
          BY <5>2
      <4>3. <<s[i]>> \o g[j] \in A
        <5>1. PICK x, y \in A : x = <<s[i]>> /\ y = g[j]
          BY <4>2
        <5>2. x \o y \in A
          OBVIOUS
        <5> QED
          BY <5>1, <5>2, Zenon
      <4> QED
        BY <4>1, <4>3, <3>2
    <3> QED
      BY <3>1, <3>2
  <2>2. \A g \in [D -> A] : body(g) \in [D -> A]
    <3> HIDE DEF A, D
    <3> QED
      BY <2>1
  <2> HIDE DEF A, D, body
  <2> QED
    BY <2>2
<1>2. IsRecursion(D, A, mu, F)
  <2>1. ASSUME NEW g \in [D -> A], NEW h \in [D -> A], NEW d \in D, \A e \in D : mu[e] < mu[d] => g[e] = h[e]
        PROVE  F[g][d] = F[h][d]
    <3>1. CASE d > Len(s)
      BY <3>1
    <3>2. CASE ~(d > Len(s))
      <4>1. PICK j \in D : j = (IF Doubled(s, d) THEN d + 2 ELSE d + 1) /\ mu[j] < mu[d]
        BY <3>2, <1>b
      <4>2. g[j] = h[j]
        BY <2>1, <4>1
      <4> HIDE DEF A, D, mu
      <4> QED
        BY <4>2, <4>1, <3>2
    <3> QED
      BY <3>1, <3>2
  <2> HIDE DEF A, D, mu, F
  <2> QED
    BY <1>1, <1>a, <2>1 DEF IsRecursion
<1>3. PICK f \in [D -> A] : f = F[f]
  <2>1. A # {}
    BY <1>0
  <2> HIDE DEF A, D, mu, F
  <2> QED
    BY <1>2, <2>1, RecursionHasSolution
<1>4. f = body(f)
  <2> HIDE DEF body, A, D
  <2> QED
    BY <1>3
<1>5. rest = body(rest)
  <2> HIDE DEF F, A
  <2> QED
    BY <1>4
<1>6. Destuff(s) = rest[1]
  BY DEF Destuff
<1> HIDE DEF F, rest
<1>7. rest = f
  <2> DEFINE Same == {d \in D : rest[d] = f[d]}
  <2>1. ASSUME NEW d \in D, \A e \in D : mu[e] < mu[d] => e \in Same PROVE d \in Same
    <3>1. CASE d > Len(s)
      <4> HIDE DEF D, A, mu
      <4> QED
        BY <1>4, <1>5, <3>1
    <3>2. CASE ~(d > Len(s))
      <4>1. PICK j \in D : j = (IF Doubled(s, d) THEN d + 2 ELSE d + 1) /\ mu[j] < mu[d]
        BY <3>2, <1>b
      <4>2. rest[j] = f[j]
        BY <2>1, <4>1
      <4> HIDE DEF A, D, mu
      <4> QED
        BY <4>2, <4>1, <3>2, <1>4, <1>5
    <3> QED
      BY <3>1, <3>2
  <2>2. D \subseteq Same
    <3> HIDE DEF D, mu, Same
    <3> QED
      BY <1>a, <2>1, MeasureInduction
  <2> HIDE DEF D, A
  <2> QED
    BY <2>2, <1>4, <1>5
<1>8. f[Len(s) + 1] = <<>> /\ \A i \in D : f[i] \in Seq(Byte)
  <2>1. Len(s) + 1 \in D /\ Len(s) + 1 > Len(s)
    BY <1>0
  <2>2. f[Len(s) + 1] = <<>>
    <3> HIDE DEF A, D
    <3> QED
      BY <1>4, <2>1
  <2> HIDE DEF D
  <2> QED
    BY <2>2
<1>9. ASSUME NEW i \in 1 .. Len(s) PROVE IsPreceded(f[i], s[i], f[IF Doubled(s, i) THEN i + 2 ELSE i + 1])
  <2>1. i \in D /\ ~(i > Len(s))
    BY <1>0
  <2>2. f[i] = <<s[i]>> \o f[IF Doubled(s, i) THEN i + 2 ELSE i + 1]
    <3> HIDE DEF A, D
    <3> QED
      BY <1>4, <2>1
  <2> QED
    BY <2>2, Zenon DEF IsPreceded
<1>10. IsDestuffing(f, s)
  BY <1>8, <1>9 DEF IsDestuffing
<1> QED
  BY <1>6, <1>7, <1>10

(* The lesser of two numbers.                                              *)
LEMMA MinOfTwo ==
  ASSUME NEW a \in Int, NEW b \in Int
  PROVE  Min({a, b}) = IF a <= b THEN a ELSE b
<1>1. PICK m \in {a, b} : m = IF a <= b THEN a ELSE b
  OBVIOUS
<1>2. \A y \in {a, b} : m =< y
  BY <1>1
<1>3. \A x \in {a, b} : (\A y \in {a, b} : x =< y) => x = m
  BY <1>2, <1>1
<1> QED
  BY <1>1, <1>2, <1>3 DEF Min

(* Escaping makes a payload at most twice as long.                         *)
LEMMA EscapeLength ==
  ASSUME NEW p \in Seq(Byte)
  PROVE  Escape(p) \in Seq(Byte) /\ Len(Escape(p)) \in Len(p) .. 2 * Len(p)
<1> DEFINE P == {q \in Seq(Byte) : Escape(q) \in Seq(Byte) /\ Len(Escape(q)) \in Len(q) .. 2 * Len(q)}
<1>1. <<>> \in P
  <2>1. PICK s : s = <<>>
    OBVIOUS
  <2>2. s \in Seq(Byte) /\ Len(s) = 0 /\ Escape(s) = s
    BY <2>1, EscapeEmpty
  <2>3. Len(Escape(s)) \in Len(s) .. 2 * Len(s)
    <3>1. 0 \in 0 .. 2 * 0
      OBVIOUS
    <3> QED
      BY <2>2, <3>1, Zenon
  <2>4. s \in P
    BY <2>2, <2>3, Zenon
  <2> QED
    BY <2>1, <2>4
<1>2. ASSUME NEW a \in Byte, NEW q \in Seq(Byte), q \in P PROVE <<a>> \o q \in P
  <2>1. PICK s, x, y : s = <<a>> \o q /\ x = Stuff(a) /\ y = Escape(q)
    OBVIOUS
  <2>2. s \in Seq(Byte) /\ Len(s) = Len(q) + 1
    BY <2>1
  <2>3. x \in Seq(Byte) /\ Len(x) \in 1 .. 2 /\ y \in Seq(Byte) /\ Len(y) \in Len(q) .. 2 * Len(q)
    BY <2>1, <1>2, StuffType
  <2>4. Escape(s) = x \o y
    BY <2>1, EscapeFirst
  <2>5. Escape(s) \in Seq(Byte) /\ Len(Escape(s)) = Len(x) + Len(y)
    BY <2>3, <2>4
  <2>6. Len(Escape(s)) \in Len(s) .. 2 * Len(s)
    <3>1. PICK n \in Nat, i \in Int, j \in Int : n = Len(q) /\ i = Len(x) /\ j = Len(y)
      BY <2>3
    <3>2. i \in 1 .. 2 /\ j \in n .. 2 * n /\ Len(s) = n + 1 /\ Len(Escape(s)) = i + j
      BY <2>2, <2>3, <2>5, <3>1
    <3>3. i + j \in n + 1 .. 2 * (n + 1)
      BY <3>2
    <3> QED
      BY <3>2, <3>3, Zenon
  <2>7. s \in P
    BY <2>2, <2>5, <2>6
  <2> HIDE DEF P
  <2> QED
    BY <2>1, <2>7
<1>3. Seq(Byte) \subseteq P
  <2> HIDE DEF P
  <2> QED
    BY <1>1, <1>2, SequenceInduction
<1> QED
  BY <1>3

(* r is a and then b.                                                      *)
IsSplit(r, a, b) == r = a \o b

(* Where brackets are in a \o b \o c does not matter.                      *)
Regroups(a, b, c) == (a \o b) \o c = a \o (b \o c)

(* Associative, for bytes.                                                 *)
LEMMA BytesRegroup == \A a, b, c \in Seq(Byte) : Regroups(a, b, c)
BY DEF Regroups

(* A byte is a sequence of bytes.                                          *)
LEMMA OneByte == \A a \in Byte : <<a>> \in Seq(Byte)
OBVIOUS

(* Destuffing begins with what was escaped, whatever follows it.           *)
LEMMA DestuffEscaped ==
  ASSUME NEW p \in Seq(Byte), NEW t \in Seq(Byte)
  PROVE  \E u \in Seq(Byte) : IsSplit(Destuff(Escape(p) \o t), p, u)
<1>1. PICK s \in Seq(Byte) : s = Escape(p) \o t
  <2>1. PICK e \in Seq(Byte) : e = Escape(p)
    BY EscapeLength
  <2>2. e \o t \in Seq(Byte)
    OBVIOUS
  <2> QED
    BY <2>1, <2>2, Zenon
<1>2. PICK r : IsDestuffing(r, s) /\ Destuff(s) = r[1]
  BY DestuffBySteps
<1> DEFINE Good(q, x) == \E u \in Seq(Byte) : IsSplit(r[Len(x) + 1], q, u)
           P == {q \in Seq(Byte) : \A x \in Seq(Byte) : s = x \o (Escape(q) \o t) => Good(q, x)}
<1> HIDE DEF Good, P
<1>3. <<>> \in P
  <2>1. ASSUME NEW x \in Seq(Byte), s = x \o (<<>> \o t) PROVE Good(<<>>, x)
    <3>1. Len(s) = Len(x) + Len(t)
      BY <2>1
    <3>2. Len(x) + 1 \in 1 .. Len(s) + 1
      BY <3>1
    <3>3. r[Len(x) + 1] \in Seq(Byte)
      BY <3>2, <1>2 DEF IsDestuffing
    <3>4. PICK u \in Seq(Byte) : u = r[Len(x) + 1]
      BY <3>3
    <3>5. IsSplit(u, <<>>, u)
      BY DEF IsSplit
    <3> QED
      BY <3>4, <3>5 DEF Good
  <2>2. <<>> \in Seq(Byte)
    OBVIOUS
  <2> QED
    BY <2>1, <2>2, EscapeEmpty, Zenon DEF P
<1>4. ASSUME NEW a \in Byte, NEW q \in Seq(Byte), q \in P PROVE <<a>> \o q \in P
  <2>1. ASSUME NEW x \in Seq(Byte), s = x \o (Escape(<<a>> \o q) \o t) PROVE Good(<<a>> \o q, x)
    <3>0. PICK e \in Seq(Byte), d \in Seq(Byte) : e = Escape(q) /\ d = Stuff(a)
      BY EscapeLength, StuffType
    <3>1. PICK y \in Seq(Byte), v \in Seq(Byte) : y = x \o d /\ v = e \o t
      <4>1. x \o d \in Seq(Byte) /\ e \o t \in Seq(Byte)
        BY Concat
      <4> QED
        BY <4>1, Zenon
    <3>2. Len(d) \in 1 .. 2 /\ Len(y) = Len(x) + Len(d)
      BY <3>0, <3>1, StuffType
    <3>3. s = x \o ((d \o e) \o t)
      BY <2>1, <3>0, EscapeFirst, Zenon
    <3>4. s = y \o v
      <4>1. Regroups(d, e, t) /\ Regroups(x, d, v)
        BY BytesRegroup, Zenon
      <4> QED
        BY <3>1, <3>3, <4>1, Zenon DEF Regroups
    <3>5. Good(q, y)
      <4>1. y \in Seq(Byte) /\ s = y \o (Escape(q) \o t)
        BY <3>0, <3>1, <3>4, Zenon
      <4> QED
        BY <4>1, <1>4 DEF P
    <3>6. PICK i \in Nat, j \in Nat : i = Len(x) + 1 /\ j = Len(y) + 1
      <4>1. Len(x) + 1 \in Nat /\ Len(y) + 1 \in Nat
        BY <3>2
      <4> QED
        BY <4>1
    <3>7. i \in 1 .. Len(s) /\ s[i] = a /\ j = IF Doubled(s, i) THEN i + 2 ELSE i + 1
      <4>1. Len(s) = Len(y) + Len(v)
        BY <3>2, <3>4, Concat
      <4>2. \A k \in 1 .. Len(d) : s[Len(x) + k] = d[k]
        <5>1. ASSUME NEW k \in 1 .. Len(d) PROVE s[Len(x) + k] = d[k]
          <6>1. y[Len(x) + k] = d[k]
            BY <3>1, <3>2, Concat
          <6>2. Len(x) + k \in 1 .. Len(y)
            BY <3>2
          <6>3. s[Len(x) + k] = y[Len(x) + k]
            BY <3>2, <3>4, <6>2, Concat
          <6> QED
            BY <6>1, <6>3
        <5> QED
          BY <5>1
      <4>3. CASE a = ESC
        <5>1. Len(d) = 2 /\ d[1] = ESC /\ d[2] = ESC
          BY <3>0, <4>3 DEF Stuff
        <5>2. s[i] = ESC /\ s[i + 1] = ESC
          BY <5>1, <4>2, <3>6
        <5> QED
          BY <5>1, <5>2, <3>2, <3>6, <4>1, <4>3 DEF Doubled
      <4>4. CASE a # ESC
        <5>1. Len(d) = 1 /\ d[1] = a
          BY <3>0, <4>4 DEF Stuff
        <5>2. s[i] = a
          BY <5>1, <4>2, <3>6
        <5> QED
          BY <5>1, <5>2, <3>2, <3>6, <4>1, <4>4 DEF Doubled
      <4> QED
        BY <4>3, <4>4
    <3>8. IsPreceded(r[i], a, r[j])
      BY <1>2, <3>7 DEF IsDestuffing
    <3>9. PICK u \in Seq(Byte) : IsSplit(r[j], q, u)
      BY <3>5, <3>6 DEF Good
    <3>10. r[i] = <<a>> \o (q \o u)
      BY <3>8, <3>9, Zenon DEF IsPreceded, IsSplit
    <3>11. Regroups(<<a>>, q, u)
      BY BytesRegroup, OneByte, Zenon
    <3>12. IsSplit(r[i], <<a>> \o q, u)
      BY <3>10, <3>11, Zenon DEF IsSplit, Regroups
    <3> QED
      BY <3>6, <3>12, Zenon DEF Good
  <2>2. <<a>> \o q \in Seq(Byte)
    OBVIOUS
  <2> QED
    BY <2>1, <2>2, Zenon DEF P
<1>5. p \in P
  <2>1. Seq(Byte) \subseteq P
    <3> QED
      BY <1>3, <1>4, SequenceInduction
  <2> QED
    BY <2>1, Zenon
<1>6. s = <<>> \o (Escape(p) \o t)
  BY <1>1, EscapeLength
<1>7. Good(p, <<>>)
  BY <1>5, <1>6, Zenon, EmptySeq DEF P
<1>8. \E u \in Seq(Byte) : IsSplit(r[1], p, u)
  BY <1>7 DEF Good
<1> QED
  BY <1>1, <1>2, <1>8, Zenon

(* Concat, for bytes.                                                      *)
LEMMA BytesConcat ==
  ASSUME NEW a \in Seq(Byte), NEW b \in Seq(Byte)
  PROVE  a \o b \in Seq(Byte) /\ Len(a \o b) = Len(a) + Len(b)
OBVIOUS

(* A part of a sequence, by its elements.                                  *)
LEMMA SubSeqType ==
  ASSUME NEW S, NEW s \in Seq(S), NEW m \in Nat \ {0}, NEW n \in 0 .. Len(s)
  PROVE  /\ SubSeq(s, m, n) \in Seq(S)
         /\ Len(SubSeq(s, m, n)) = IF m <= n THEN n - m + 1 ELSE 0
         /\ \A i \in 1 .. n - m + 1 : SubSeq(s, m, n)[i] = s[m + i - 1]
BY SubSeqProperties

(* The first k elements of a sequence.                                     *)
LEMMA PrefixType ==
  ASSUME NEW S, NEW s \in Seq(S), NEW n \in 0 .. Len(s)
  PROVE  /\ SubSeq(s, 1, n) \in Seq(S)
         /\ Len(SubSeq(s, 1, n)) = n
         /\ \A i \in 1 .. n : SubSeq(s, 1, n)[i] = s[i]
<1>1. Len(s) \in Nat /\ n \in Int /\ \A i \in 1 .. n : s[i] \in S /\ 1 + i - 1 = i
  OBVIOUS
<1>2. /\ SubSeq(s, 1, n) \in Seq(S)
      /\ Len(SubSeq(s, 1, n)) = IF 1 <= n THEN n - 1 + 1 ELSE 0
      /\ \A i \in 1 .. n - 1 + 1 : SubSeq(s, 1, n)[i] = s[1 + i - 1]
  BY <1>1, SubSeqProperties
<1>3. (IF 1 <= n THEN n - 1 + 1 ELSE 0) = n /\ n - 1 + 1 = n
  OBVIOUS
<1> QED
  BY <1>1, <1>2, <1>3

(* The part of a concatenation that is in its second sequence, one that    *)
(* has all of the first, and the first.                                    *)
LEMMA SubSeqAfter ==
  ASSUME NEW S, NEW a \in Seq(S), NEW b \in Seq(S), NEW k \in 0 .. Len(b)
  PROVE  SubSeq(a \o b, Len(a) + 1, Len(a) + k) = SubSeq(b, 1, k)
<1>1. PICK c \in Seq(S) : c = a \o b
  BY Concat
<1>2. Len(c) = Len(a) + Len(b) /\ \A i \in 1 .. Len(b) : c[Len(a) + i] = b[i]
  BY <1>1
<1>3. PICK l \in Nat : l = Len(a)
  OBVIOUS
<1>4. l + 1 \in Nat \ {0} /\ l + k \in 0 .. Len(c)
  BY <1>2, <1>3
<1>5. PICK x \in Seq(S) : x = SubSeq(c, l + 1, l + k)
  BY <1>4, SubSeqType
<1>6. Len(x) = k /\ \A i \in 1 .. k : x[i] = c[l + i]
  <2>1. /\ Len(x) = IF l + 1 <= l + k THEN l + k - (l + 1) + 1 ELSE 0
        /\ \A i \in 1 .. l + k - (l + 1) + 1 : x[i] = c[l + 1 + i - 1]
    BY <1>4, <1>5, SubSeqType
  <2>2. \A i \in 1 .. k : l + 1 + i - 1 = l + i
    OBVIOUS
  <2> QED
    BY <2>1, <2>2
<1>7. PICK y \in Seq(S) : y = SubSeq(b, 1, k)
  BY PrefixType
<1>8. Len(y) = k /\ \A i \in 1 .. k : y[i] = b[i]
  BY <1>7, PrefixType
<1>9. \A i \in 1 .. k : x[i] = y[i]
  <2>1. \A i \in 1 .. k : i \in 1 .. Len(b)
    OBVIOUS
  <2> QED
    BY <2>1, <1>2, <1>3, <1>6, <1>8
<1>10. x = y
  BY <1>6, <1>8, <1>9, SeqEqual
<1> QED
  BY <1>1, <1>3, <1>5, <1>7, <1>10

(* The first elements of a \o b, when there are no more than in a.         *)
LEMMA SubSeqFirst ==
  ASSUME NEW S, NEW a \in Seq(S), NEW b \in Seq(S), NEW k \in 0 .. Len(a)
  PROVE  SubSeq(a \o b, 1, k) = SubSeq(a, 1, k)
<1>1. PICK c \in Seq(S) : c = a \o b
  BY Concat
<1>2. Len(c) = Len(a) + Len(b) /\ \A i \in 1 .. Len(a) : c[i] = a[i]
  BY <1>1
<1>3. k \in 0 .. Len(c)
  BY <1>2
<1>4. PICK x \in Seq(S) : x = SubSeq(c, 1, k)
  BY <1>3, PrefixType
<1>5. PICK y \in Seq(S) : y = SubSeq(a, 1, k)
  BY PrefixType
<1>6. Len(x) = k /\ Len(y) = k /\ \A i \in 1 .. k : x[i] = c[i] /\ y[i] = a[i]
  BY <1>3, <1>4, <1>5, PrefixType
<1>7. x = y
  <2>1. \A i \in 1 .. k : i \in 1 .. Len(a)
    OBVIOUS
  <2>2. \A i \in 1 .. k : x[i] = y[i]
    BY <2>1, <1>2, <1>6
  <2> QED
    BY <1>6, <2>2, SeqEqual
<1> QED
  BY <1>1, <1>4, <1>5, <1>7

(* The first elements of a \o b, when a is not enough.                     *)
LEMMA SubSeqThrough ==
  ASSUME NEW S, NEW a \in Seq(S), NEW b \in Seq(S), NEW k \in 0 .. Len(b)
  PROVE  IsSplit(SubSeq(a \o b, 1, Len(a) + k), a, SubSeq(b, 1, k))
<1>1. PICK c \in Seq(S) : c = a \o b
  BY Concat
<1>2. /\ Len(c) = Len(a) + Len(b)
      /\ \A i \in 1 .. Len(b) : c[Len(a) + i] = b[i]
      /\ \A i \in 1 .. Len(a) : c[i] = a[i]
  BY <1>1
<1>3. PICK l \in Nat : l = Len(a)
  OBVIOUS
<1>4. l + k \in 0 .. Len(c)
  BY <1>2, <1>3
<1>5. PICK x \in Seq(S) : x = SubSeq(c, 1, l + k)
  BY <1>4, PrefixType
<1>6. Len(x) = l + k /\ \A i \in 1 .. l + k : x[i] = c[i]
  BY <1>4, <1>5, PrefixType
<1>7. PICK y \in Seq(S) : y = SubSeq(b, 1, k)
  BY PrefixType
<1>8. Len(y) = k /\ \A i \in 1 .. k : y[i] = b[i]
  BY <1>7, PrefixType
<1>9. PICK z \in Seq(S) : z = a \o y
  BY Concat
<1>10. /\ Len(z) = l + k
       /\ \A i \in 1 .. k : z[l + i] = y[i]
       /\ \A i \in 1 .. l : z[i] = a[i]
  BY <1>3, <1>8, <1>9, Concat
<1>11. ASSUME NEW i \in 1 .. l + k PROVE x[i] = z[i]
  <2>1. CASE i <= l
    <3>1. i \in 1 .. l
      BY <2>1
    <3> QED
      BY <3>1, <1>2, <1>3, <1>6, <1>10
  <2>2. CASE ~(i <= l)
    <3>1. PICK j \in 1 .. k : i = l + j
      <4>1. i - l \in 1 .. k /\ i = l + (i - l)
        BY <2>2
      <4> QED
        BY <4>1
    <3>2. j \in 1 .. Len(b)
      OBVIOUS
    <3>3. c[l + j] = b[j]
      BY <3>2, <1>2, <1>3
    <3>4. z[l + j] = y[j] /\ y[j] = b[j]
      BY <1>8, <1>10
    <3>5. x[i] = c[i]
      BY <1>6
    <3> QED
      BY <3>1, <3>3, <3>4, <3>5
  <2> QED
    BY <2>1, <2>2
<1>12. x = z
  BY <1>6, <1>10, <1>11, SeqEqual
<1> QED
  BY <1>1, <1>3, <1>5, <1>7, <1>9, <1>12, Zenon DEF IsSplit

(* A frame a sender may send (SendableAssumption).                         *)
IsFrame(f) ==
  /\ Frame(f) \in BeastFrame /\ Len(f.payload) = PayloadLen[f.type]
  /\ f.header \in Seq(Byte) /\ Len(f.header) = HeaderLen - 2

(* The bytes of a frame on the wire.                                       *)
Encoded(f) == Encode(f.type, f.header, f.payload)

(* The parts of a frame are bytes, of the lengths its type has.            *)
LEMMA FrameParts ==
  ASSUME NEW f, IsFrame(f)
  PROVE  /\ f.type \in DOMAIN PayloadLen /\ f.type \in Byte /\ f.payload \in Seq(Byte)
         /\ PayloadLen[f.type] \in Nat \ {0} /\ Len(f.payload) = PayloadLen[f.type]
         /\ f.header \in Seq(Byte) /\ Len(f.header) = HeaderLen - 2
         /\ HeaderLen \in Nat /\ HeaderLen > 2
<1>1. f.type \in DOMAIN PayloadLen /\ f.payload \in Seq(Byte)
  BY DEF IsFrame, Frame, BeastFrame
<1> QED
  BY <1>1, CodecAssumption DEF IsFrame

(* What is encoded is a head of HeaderLen bytes and the escaped payload.   *)
LEMMA EncodedParts ==
  ASSUME NEW f, IsFrame(f)
  PROVE  \E h \in Seq(Byte), e \in Seq(Byte) :
           /\ IsSplit(Encoded(f), h, e) /\ e = Escape(f.payload)
           /\ Len(h) = HeaderLen /\ h[1] = ESC /\ h[2] = f.type
           /\ \A i \in 3 .. HeaderLen : h[i] = f.header[i - 2]
           /\ Len(e) \in PayloadLen[f.type] .. 2 * PayloadLen[f.type]
           /\ Encoded(f) \in Seq(Byte) /\ Len(Encoded(f)) = HeaderLen + Len(e)
<1>1. PICK x : x = <<ESC, f.type>>
  OBVIOUS
<1>2. x \in Seq(Byte) /\ Len(x) = 2 /\ x[1] = ESC /\ x[2] = f.type
  BY <1>1, FrameParts, CodecAssumption
<1>3. PICK h \in Seq(Byte) : h = x \o f.header
  <2>1. x \o f.header \in Seq(Byte)
    BY <1>2, FrameParts, Concat
  <2> QED
    BY <2>1
<1>4. /\ Len(h) = HeaderLen /\ h[1] = ESC /\ h[2] = f.type
      /\ \A i \in 3 .. HeaderLen : h[i] = f.header[i - 2]
  <2>1. PICK y \in Seq(Byte) : y = f.header
    BY FrameParts
  <2>2. Len(y) = HeaderLen - 2 /\ HeaderLen \in Nat
    BY <2>1, FrameParts
  <2>3. /\ Len(h) = 2 + Len(y)
        /\ \A i \in 1 .. 2 : h[i] = x[i]
        /\ \A i \in 1 .. Len(y) : h[2 + i] = y[i]
    BY <1>2, <1>3, <2>1, Concat, SMTT(30)
  <2>4. Len(h) = HeaderLen
    BY <2>2, <2>3
  <2>5. h[1] = x[1] /\ h[2] = x[2]
    <3>1. 1 \in 1 .. 2 /\ 2 \in 1 .. 2
      OBVIOUS
    <3> QED
      BY <2>3, <3>1
  <2>6. ASSUME NEW i \in 3 .. HeaderLen PROVE h[i] = y[i - 2]
    <3>1. PICK j \in 1 .. Len(y) : i = 2 + j /\ j = i - 2
      <4>1. i - 2 \in 1 .. Len(y) /\ i = 2 + (i - 2)
        BY <2>2
      <4> QED
        BY <4>1
    <3> QED
      BY <3>1, <2>3
  <2> QED
    BY <1>2, <2>1, <2>4, <2>5, <2>6
<1>5. PICK e \in Seq(Byte) : e = Escape(f.payload) /\ Len(e) \in Len(f.payload) .. 2 * Len(f.payload)
  BY FrameParts, EscapeLength
<1>6. Encoded(f) = h \o e
  BY <1>1, <1>3, <1>5, Zenon DEF Encoded, Encode
<1>7. Encoded(f) \in Seq(Byte) /\ Len(Encoded(f)) = Len(h) + Len(e)
  BY <1>6, BytesConcat
<1>8. IsSplit(Encoded(f), h, e)
  BY <1>6, Zenon DEF IsSplit
<1>9. Len(e) \in PayloadLen[f.type] .. 2 * PayloadLen[f.type]
  BY <1>5, FrameParts, Zenon
<1> QED
  BY <1>4, <1>5, <1>7, <1>8, <1>9

(* A frame that was encoded is parsed back, whatever follows it.           *)
LEMMA ParseEncoded ==
  ASSUME NEW f, IsFrame(f), NEW t \in Seq(Byte), NEW d, IsSplit(d, Encoded(f), t)
  PROVE  d \in Seq(Byte) /\ Parse(d) = Frame(f)
<1>1. PICK h \in Seq(Byte), e \in Seq(Byte) :
        /\ IsSplit(Encoded(f), h, e) /\ e = Escape(f.payload)
        /\ Len(h) = HeaderLen /\ h[1] = ESC /\ h[2] = f.type
        /\ Len(e) \in PayloadLen[f.type] .. 2 * PayloadLen[f.type]
  BY EncodedParts
<1>2. PICK p \in Seq(Byte) : p = f.payload /\ Len(p) = PayloadLen[f.type]
  BY FrameParts
<1>3. PICK g \in Seq(Byte) : g = e \o t /\ Len(g) = Len(e) + Len(t)
  BY BytesConcat
<1>4. d = h \o g
  <2>1. Regroups(h, e, t)
    BY BytesRegroup, Zenon
  <2> QED
    BY <1>1, <1>3, <2>1, Zenon DEF Regroups, IsSplit
<1>5. d \in Seq(Byte) /\ Len(d) = Len(h) + Len(g) /\ \A i \in 1 .. Len(h) : d[i] = h[i]
  BY <1>4, Concat
<1>6. PICK l \in Nat, k \in Nat, n \in Nat, m \in Nat :
        l = HeaderLen /\ k = PayloadLen[f.type] /\ n = Len(e) /\ m = Len(t)
  <2>1. Len(e) \in Nat /\ Len(t) \in Nat
    OBVIOUS
  <2> QED
    BY <2>1, FrameParts
<1>7. l > 2 /\ k > 0 /\ n \in k .. 2 * k /\ Len(g) = n + m /\ Len(d) = l + (n + m) /\ Len(h) = l
  <2>1. l > 2 /\ k > 0
    BY <1>6, FrameParts
  <2> QED
    BY <1>1, <1>3, <1>5, <1>6, <2>1
<1>8. d[1] = ESC /\ d[2] = f.type
  <2>1. 1 \in 1 .. Len(h) /\ 2 \in 1 .. Len(h)
    BY <1>7
  <2> QED
    BY <2>1, <1>1, <1>5
<1>9. PICK j \in 0 .. m : Min({Len(d), HeaderLen + MaxStuffed(d[2])}) = l + (n + j)
  <2>1. MaxStuffed(d[2]) = 2 * k
    BY <1>6, <1>8 DEF MaxStuffed
  <2>2. PICK a \in Int, b \in Int : a = l + (n + m) /\ b = l + 2 * k
    BY <1>7
  <2>3. Min({a, b}) = IF a <= b THEN a ELSE b
    BY MinOfTwo
  <2>4. \E j \in 0 .. m : Min({a, b}) = l + (n + j)
    <3>1. CASE a <= b
      BY <3>1, <2>2, <2>3
    <3>2. CASE ~(a <= b)
      <4>1. 2 * k - n \in 0 .. m /\ b = l + (n + (2 * k - n))
        BY <3>2, <2>2, <1>7
      <4> QED
        BY <3>2, <4>1, <2>3
    <3> QED
      BY <3>1, <3>2
  <2>5. Len(d) = a /\ HeaderLen + MaxStuffed(d[2]) = b
    BY <2>1, <2>2, <1>6, <1>7
  <2> QED
    BY <2>4, <2>5
<1>10. PICK raw, u \in Seq(Byte) : /\ raw = SubSeq(d, HeaderLen + 1, Min({Len(d), HeaderLen + MaxStuffed(d[2])}))
                                   /\ IsSplit(raw, e, u)
  <2>1. SubSeq(d, l + 1, l + (n + j)) = SubSeq(g, 1, n + j)
    <3>1. PICK q \in 0 .. Len(g) : q = n + j
      BY <1>7
    <3>2. SubSeq(h \o g, Len(h) + 1, Len(h) + q) = SubSeq(g, 1, q)
      BY SubSeqAfter
    <3> QED
      BY <3>1, <3>2, <1>4, <1>7, Zenon
  <2>2. IsSplit(SubSeq(g, 1, n + j), e, SubSeq(t, 1, j))
    <3>1. j \in 0 .. Len(t)
      BY <1>6
    <3>2. IsSplit(SubSeq(e \o t, 1, Len(e) + j), e, SubSeq(t, 1, j))
      BY <3>1, SubSeqThrough
    <3> QED
      BY <3>2, <1>3, <1>6, Zenon
  <2>3. SubSeq(t, 1, j) \in Seq(Byte)
    BY <1>6, PrefixType
  <2>4. HeaderLen + 1 = l + 1
    BY <1>6
  <2>5. PICK w \in Seq(Byte) : w = SubSeq(t, 1, j)
    BY <2>3
  <2>6. PICK raw : raw = SubSeq(d, HeaderLen + 1, Min({Len(d), HeaderLen + MaxStuffed(d[2])}))
    OBVIOUS
  <2>7. IsSplit(raw, e, w)
    BY <1>9, <2>1, <2>2, <2>4, <2>5, <2>6, Zenon
  <2>8. raw \in Seq(Byte)
    BY <2>7, BytesConcat, Zenon DEF IsSplit
  <2> QED
    BY <2>6, <2>7, <2>8
<1>11. PICK v \in Seq(Byte) : IsSplit(Destuff(raw), p, v)
  <2>1. \E v \in Seq(Byte) : IsSplit(Destuff(Escape(p) \o u), p, v)
    BY DestuffEscaped
  <2>2. raw = Escape(p) \o u
    BY <1>1, <1>2, <1>10, Zenon DEF IsSplit
  <2> QED
    BY <2>1, <2>2, Zenon
<1>12. PICK z : z = Destuff(raw)
  OBVIOUS
<1>13. z = p \o v /\ z \in Seq(Byte) /\ Len(z) = k + Len(v)
  <2>1. z = p \o v
    BY <1>11, <1>12, Zenon DEF IsSplit
  <2> QED
    BY <2>1, <1>2, <1>6, BytesConcat, SMTT(30)
<1>14. Min({Len(z), PayloadLen[d[2]]}) = k
  <2>1. PICK a \in Int : a = k + Len(v) /\ a >= k
    <3>1. PICK c \in Nat : c = Len(v)
      BY LenProperties
    <3>2. k + c \in Int /\ k + c >= k
      OBVIOUS
    <3> QED
      BY <3>1, <3>2
  <2>2. Min({a, k}) = k
    BY <2>1, MinOfTwo
  <2> QED
    BY <2>1, <2>2, <1>6, <1>8, <1>13
<1>15. SubSeq(z, 1, k) = p
  <2>1. k \in 0 .. Len(p) /\ k = Len(p)
    BY <1>2, <1>6
  <2>2. SubSeq(p \o v, 1, k) = SubSeq(p, 1, k)
    BY <2>1, SubSeqFirst
  <2>3. SubSeq(p, 1, Len(p)) = p
    BY SubSeqFull
  <2> QED
    BY <2>1, <2>2, <2>3, <1>13, Zenon
<1>16. ~(Len(d) <= HeaderLen \/ d[1] # ESC \/ d[2] \notin DOMAIN PayloadLen)
  <2>1. Len(d) > HeaderLen
    BY <1>6, <1>7, SMTT(30)
  <2>2. d[2] \in DOMAIN PayloadLen
    BY <1>8, FrameParts
  <2> QED
    BY <1>5, <1>8, <2>1, <2>2, <1>6
<1>17. Parse(d) = [type |-> d[2], payload |-> SubSeq(z, 1, Min({Len(z), PayloadLen[d[2]]}))]
  BY <1>10, <1>12, <1>16, Zenon DEF Parse
<1> QED
  BY <1>2, <1>5, <1>8, <1>14, <1>15, <1>17, Zenon DEF Frame

-----------------------------------------------------------------------------
(* The readers' scans of a buffer, by their steps.                         *)

(* The rest of a sequence is one over the same set.                        *)
LEMMA FromType ==
  ASSUME NEW S, NEW s \in Seq(S), NEW i \in Nat \ {0}
  PROVE  From(s, i) \in Seq(S)
<1>1. PICK n \in Nat : n = Len(s)
  OBVIOUS
<1>2. \A j \in i .. n : s[j] \in S
  BY <1>1
<1>3. SubSeq(s, i, n) \in Seq(S)
  BY <1>2, SubSeqProperties
<1> QED
  BY <1>1, <1>3, Zenon DEF From

(* Bytes are destuffed to bytes.                                           *)
LEMMA DestuffType ==
  ASSUME NEW s \in Seq(Byte)
  PROVE  Destuff(s) \in Seq(Byte)
<1>1. PICK r : IsDestuffing(r, s) /\ Destuff(s) = r[1]
  BY DestuffBySteps
<1>2. 1 \in 1 .. Len(s) + 1
  OBVIOUS
<1> QED
  BY <1>1, <1>2 DEF IsDestuffing

(* Parse gives a frame or none, and a frame only where one starts.         *)
LEMMA ParseType ==
  ASSUME NEW d \in Seq(Byte)
  PROVE  /\ Parse(d) \in BeastFrame \cup {NoFrame}
         /\ Parse(d) # NoFrame => Len(d) > HeaderLen /\ d[1] = ESC /\ d[2] \in DOMAIN PayloadLen
<1>1. CASE Len(d) <= HeaderLen \/ d[1] # ESC \/ d[2] \notin DOMAIN PayloadLen
  <2>1. Parse(d) = NoFrame
    BY <1>1, Zenon DEF Parse
  <2> QED
    BY <2>1
<1>2. CASE ~(Len(d) <= HeaderLen \/ d[1] # ESC \/ d[2] \notin DOMAIN PayloadLen)
  <2>1. PICK l \in Nat, k \in Nat : l = HeaderLen /\ k = PayloadLen[d[2]]
    BY <1>2, CodecAssumption
  <2>2. PICK n \in Nat : n = Len(d) /\ n > l
    <3>1. Len(d) \in Nat
      OBVIOUS
    <3> QED
      BY <3>1, <2>1, <1>2
  <2>3. PICK m \in 0 .. Len(d) : m = Min({Len(d), HeaderLen + MaxStuffed(d[2])})
    <3>1. Min({n, l + 2 * k}) = IF n <= l + 2 * k THEN n ELSE l + 2 * k
      BY MinOfTwo
    <3>2. Min({n, l + 2 * k}) \in 0 .. n
      BY <3>1
    <3>3. Min({Len(d), HeaderLen + MaxStuffed(d[2])}) = Min({n, l + 2 * k})
      BY <2>1, <2>2 DEF MaxStuffed
    <3> QED
      BY <3>2, <3>3, <2>2
  <2>4. PICK raw \in Seq(Byte) : raw = SubSeq(d, HeaderLen + 1, m)
    <3>1. l + 1 \in Nat \ {0}
      OBVIOUS
    <3>2. SubSeq(d, l + 1, m) \in Seq(Byte)
      BY <3>1, SubSeqType
    <3> QED
      BY <3>2, <2>1
  <2>5. PICK z \in Seq(Byte) : z = Destuff(raw)
    BY DestuffType
  <2>6. PICK q \in 0 .. Len(z) : q = Min({Len(z), PayloadLen[d[2]]})
    <3>1. PICK c \in Nat : c = Len(z)
      BY LenProperties
    <3>2. Min({c, k}) = IF c <= k THEN c ELSE k
      BY MinOfTwo
    <3>3. Min({c, k}) \in 0 .. c
      BY <3>2
    <3> QED
      BY <3>1, <3>3, <2>1
  <2>7. SubSeq(z, 1, q) \in Seq(Byte)
    BY PrefixType
  <2>8. Parse(d) = [type |-> d[2], payload |-> SubSeq(z, 1, q)]
    BY <1>2, <2>3, <2>4, <2>5, <2>6, Zenon DEF Parse
  <2>9. d[2] \in DOMAIN PayloadLen
    BY <1>2
  <2>10. Parse(d) \in BeastFrame
    BY <2>7, <2>8, <2>9 DEF BeastFrame
  <2>11. Len(d) > HeaderLen
    BY <2>1, <2>2
  <2> QED
    BY <1>2, <2>10, <2>11
<1> QED
  BY <1>1, <1>2

(* The least member of a set of numbers.                                   *)
LEMMA MinIs ==
  ASSUME NEW T, T \subseteq Nat, T # {}
  PROVE  Min(T) \in T /\ \A k \in T : Min(T) <= k
<1>1. \E m \in T : \A k \in T : m <= k
  BY LeastNumber
<1> QED
  BY <1>1 DEF Min

(* NextEsc is the first ESC from i on, or n + 1.                           *)
LEMMA NextEscIs ==
  ASSUME NEW b, NEW i \in Nat, NEW n \in Nat, i <= n + 1
  PROVE  /\ NextEsc(b, i, n) \in i .. n + 1
         /\ NextEsc(b, i, n) # n + 1 => b[NextEsc(b, i, n)] = ESC
         /\ \A k \in i .. n : b[k] = ESC => NextEsc(b, i, n) <= k
<1>1. PICK T : T = {j \in i .. n : b[j] = ESC} \cup {n + 1}
  OBVIOUS
<1>2. T \subseteq i .. n + 1 /\ T # {} /\ \A k \in i .. n : b[k] = ESC => k \in T
  BY <1>1
<1>3. T \subseteq Nat
  BY <1>2
<1>4. Min(T) \in T /\ \A k \in T : Min(T) <= k
  BY <1>2, <1>3, MinIs
<1>5. NextEsc(b, i, n) = Min(T)
  BY <1>1, Zenon DEF NextEsc
<1>6. PICK m : m = Min(T)
  OBVIOUS
<1>7. m \in i .. n + 1 /\ (m # n + 1 => b[m] = ESC)
  BY <1>1, <1>2, <1>4, <1>6
<1> QED
  BY <1>2, <1>4, <1>5, <1>6, <1>7, Zenon

(* What a scan of n bytes may find.                                        *)
Finds(n) == [frame : BeastFrame, used : 1 .. n]

(* The frame at i of a buffer.                                             *)
At(b, i) == Parse(From(b, i))

(* What Found adds for the frame at i: the frame, and where it ends.       *)
FindAt(b, n, i) == [frame |-> At(b, i), used |-> Used(i, NextEsc(b, i + 1, n))]

(* The equations of Found, at every place of a buffer.                     *)
IsScan(r, b, n) ==
  /\ \A i \in Nat \ {0} : r[i] \in Seq(Finds(n)) /\ (i > n => r[i] = <<>>)
  /\ \A i \in 1 .. n : IF At(b, i) = NoFrame
                       THEN r[i] = r[i + 1]
                       ELSE IsPreceded(r[i], FindAt(b, n, i), r[NextEsc(b, i + 1, n)])

(* What is found at a place is a frame and a place behind it.              *)
LEMMA FindType ==
  ASSUME NEW b \in Seq(Byte), NEW n \in 0 .. Len(b), NEW i \in 1 .. n, At(b, i) # NoFrame
  PROVE  FindAt(b, n, i) \in Finds(n)
<1>1. NextEsc(b, i + 1, n) \in i + 1 .. n + 1
  BY NextEscIs
<1>2. From(b, i) \in Seq(Byte)
  BY FromType
<1>3. At(b, i) \in BeastFrame
  BY <1>2, ParseType DEF At
<1>4. PICK j \in i + 1 .. n + 1 : j = NextEsc(b, i + 1, n)
  BY <1>1
<1>5. Used(i, j) \in 1 .. n
  BY <1>4 DEF Used
<1> QED
  BY <1>3, <1>4, <1>5 DEF FindAt, Finds

(* Found has its equations.                                                *)
LEMMA FoundBySteps ==
  ASSUME NEW b \in Seq(Byte), NEW n \in 0 .. Len(b)
  PROVE  \E r : IsScan(r, b, n) /\ Found(b, n) = r[1]
<1> DEFINE D == Nat \ {0}
           A == Seq(Finds(n))
           from[i \in Nat \ {0}] ==
             IF i > n THEN <<>>
             ELSE LET f == Parse(From(b, i))
                      j == NextEsc(b, i + 1, n)
                  IN  IF f = NoFrame THEN from[i + 1]
                      ELSE <<[frame |-> f, used |-> Used(i, j)]>> \o from[j]
           mu == [i \in D |-> IF i > n THEN 0 ELSE n + 1 - i]
           step(g, i) == IF i > n THEN <<>>
                         ELSE IF At(b, i) = NoFrame THEN g[i + 1]
                         ELSE <<FindAt(b, n, i)>> \o g[NextEsc(b, i + 1, n)]
           body(g) == [i \in D |-> step(g, i)]
           F == [g \in [D -> A] |-> body(g)]
<1>0. n \in Nat
  OBVIOUS
<1>a. mu \in [D -> Nat]
  BY <1>0
<1>b. ASSUME NEW i \in D, ~(i > n)
      PROVE  \E j \in D : j = NextEsc(b, i + 1, n) /\ mu[j] < mu[i]
  <2>0. i + 1 \in 1 .. n + 1
    BY <1>b
  <2>1. NextEsc(b, i + 1, n) \in i + 1 .. n + 1
    <3>1. PICK l \in Nat : l = i + 1 /\ l <= n + 1
      BY <2>0
    <3> QED
      BY <3>1, <1>0, NextEscIs
  <2>2. PICK j \in i + 1 .. n + 1 : j = NextEsc(b, i + 1, n)
    BY <2>1
  <2>3. j \in D /\ mu[j] < mu[i]
    BY <1>b
  <2> QED
    BY <2>2, <2>3
<1>c. ASSUME NEW i \in D, ~(i > n) PROVE i + 1 \in D /\ mu[i + 1] < mu[i]
  BY <1>c
<1>1. F \in [[D -> A] -> [D -> A]]
  <2>1. ASSUME NEW g \in [D -> A], NEW i \in D
        PROVE  step(g, i) \in A
    <3>1. CASE i > n
      BY <3>1
    <3>2. CASE ~(i > n) /\ At(b, i) = NoFrame
      <4>1. i + 1 \in D
        BY <3>2, <1>c
      <4> HIDE DEF A, D
      <4> QED
        BY <4>1, <3>2
    <3>3. CASE ~(i > n) /\ At(b, i) # NoFrame
      <4>1. PICK j \in D : j = NextEsc(b, i + 1, n)
        BY <3>3, <1>b
      <4>2. PICK x : x = FindAt(b, n, i)
        OBVIOUS
      <4>3. x \in Finds(n)
        <5>1. i \in 1 .. n
          BY <3>3
        <5> QED
          BY <3>3, <4>2, <5>1, FindType
      <4>4. <<x>> \in A
        BY <4>3
      <4>5. g[j] \in A
        <5> HIDE DEF A, D
        <5> QED
          OBVIOUS
      <4>6. <<x>> \o g[j] \in A
        BY <4>4, <4>5, Concat, Zenon
      <4> QED
        BY <4>1, <4>2, <4>6, <3>3, Zenon
    <3> QED
      BY <3>1, <3>2, <3>3
  <2> HIDE DEF A, D, step
  <2>2. \A g \in [D -> A] : body(g) \in [D -> A]
    BY <2>1
  <2> HIDE DEF body
  <2> QED
    BY <2>2
<1>2. IsRecursion(D, A, mu, F)
  <2>1. ASSUME NEW g \in [D -> A], NEW h \in [D -> A], NEW d \in D, \A e \in D : mu[e] < mu[d] => g[e] = h[e]
        PROVE  F[g][d] = F[h][d]
    <3>0. step(g, d) = step(h, d)
      <4>1. CASE d > n
        BY <4>1
      <4>2. CASE ~(d > n)
        <5>1. PICK j \in D : j = NextEsc(b, d + 1, n) /\ mu[j] < mu[d]
          BY <4>2, <1>b
        <5>2. g[j] = h[j]
          BY <2>1, <5>1
        <5>3. g[d + 1] = h[d + 1]
          BY <2>1, <1>c, <4>2
        <5> QED
          BY <5>1, <5>2, <5>3, Zenon
      <4> QED
        BY <4>1, <4>2
    <3> HIDE DEF A, D, mu, step
    <3> QED
      BY <3>0
  <2> HIDE DEF A, D, mu, F
  <2> QED
    BY <1>1, <1>a, <2>1 DEF IsRecursion
<1>3. PICK f \in [D -> A] : f = F[f]
  <2>1. A # {}
    <3>1. <<>> \in A
      OBVIOUS
    <3> QED
      BY <3>1
  <2> HIDE DEF A, D, mu, F
  <2> QED
    BY <1>2, <2>1, RecursionHasSolution
<1>4. f = body(f)
  <2> HIDE DEF body, A, D
  <2> QED
    BY <1>3
<1>5. from = body(from)
  <2>1. f = [i \in Nat \ {0} |->
              IF i > n THEN <<>>
              ELSE LET x == Parse(From(b, i))
                       j == NextEsc(b, i + 1, n)
                   IN  IF x = NoFrame THEN f[i + 1]
                       ELSE <<[frame |-> x, used |-> Used(i, j)]>> \o f[j]]
    BY <1>4, Zenon DEF At, FindAt
  <2>2. from = [i \in Nat \ {0} |->
              IF i > n THEN <<>>
              ELSE LET x == Parse(From(b, i))
                       j == NextEsc(b, i + 1, n)
                   IN  IF x = NoFrame THEN from[i + 1]
                       ELSE <<[frame |-> x, used |-> Used(i, j)]>> \o from[j]]
    <3> HIDE DEF F, A
    <3> QED
      BY <2>1, Zenon
  <2> HIDE DEF from
  <2> QED
    BY <2>2, Zenon DEF At, FindAt
<1>6. Found(b, n) = from[1]
  BY Zenon DEF Found
<1> HIDE DEF F, from
<1>7. from = f
  <2> DEFINE Same == {d \in D : from[d] = f[d]}
  <2>1. ASSUME NEW d \in D, \A e \in D : mu[e] < mu[d] => e \in Same PROVE d \in Same
    <3>0. step(from, d) = step(f, d)
      <4>1. CASE d > n
        BY <4>1
      <4>2. CASE ~(d > n)
        <5>1. PICK j \in D : j = NextEsc(b, d + 1, n) /\ mu[j] < mu[d]
          BY <4>2, <1>b
        <5>2. from[j] = f[j]
          BY <2>1, <5>1
        <5>3. from[d + 1] = f[d + 1]
          BY <2>1, <1>c, <4>2
        <5> QED
          BY <5>1, <5>2, <5>3, Zenon
      <4> QED
        BY <4>1, <4>2
    <3> HIDE DEF A, D, mu, step
    <3> QED
      BY <3>0, <1>4, <1>5
  <2>2. D \subseteq Same
    <3> HIDE DEF D, mu, Same
    <3> QED
      BY <1>a, <2>1, MeasureInduction
  <2> HIDE DEF D, A, step
  <2> QED
    BY <2>2, <1>4, <1>5
<1>8. ASSUME NEW i \in D PROVE f[i] \in Seq(Finds(n)) /\ f[i] = step(f, i)
  <2>1. f[i] \in A
    <3> HIDE DEF A, D
    <3> QED
      OBVIOUS
  <2> HIDE DEF D, step
  <2> QED
    BY <2>1, <1>4
<1>9. ASSUME NEW i \in 1 .. n
      PROVE  IF At(b, i) = NoFrame
             THEN f[i] = f[i + 1]
             ELSE IsPreceded(f[i], FindAt(b, n, i), f[NextEsc(b, i + 1, n)])
  <2>1. i \in D /\ ~(i > n)
    OBVIOUS
  <2>2. f[i] = step(f, i)
    BY <2>1, <1>8
  <2> QED
    BY <2>1, <2>2, Zenon DEF IsPreceded
<1>10. IsScan(f, b, n)
  <2>1. \A i \in Nat \ {0} : f[i] \in Seq(Finds(n)) /\ (i > n => f[i] = <<>>)
    BY <1>8
  <2> QED
    BY <1>9, <2>1 DEF IsScan
<1> QED
  BY <1>6, <1>7, <1>10

(* Where read_loop looks next after the frame at i.                        *)
NextAt(b, i) == i + Advance(At(b, i).payload)

(* The equations of ClientFrames, at every place of a buffer.              *)
IsClientScan(r, b, n) ==
  /\ \A i \in Nat \ {0} : r[i] \in Seq(BeastFrame) /\ (i > n => r[i] = <<>>)
  /\ \A i \in 1 .. n : IF At(b, i) = NoFrame
                       THEN r[i] = r[i + 1]
                       ELSE IsPreceded(r[i], At(b, i), r[NextAt(b, i)])

(* At each place is a frame or none.                                       *)
LEMMA AtType ==
  ASSUME NEW b \in Seq(Byte), NEW i \in Nat \ {0}
  PROVE  At(b, i) \in BeastFrame \cup {NoFrame}
<1>1. From(b, i) \in Seq(Byte)
  BY FromType
<1> QED
  BY <1>1, ParseType DEF At

(* read_loop moves on behind the frame it has found.                       *)
LEMMA NextAtIs ==
  ASSUME NEW b \in Seq(Byte), NEW i \in Nat \ {0}, At(b, i) # NoFrame
  PROVE  \E k \in Nat \ {0} : NextAt(b, i) = i + k
<1>1. At(b, i) \in BeastFrame
  BY AtType
<1>2. PICK p \in Seq(Byte) : p = At(b, i).payload
  BY <1>1 DEF BeastFrame
<1>3. PICK l \in Nat : l = Len(p)
  BY LenProperties
<1>4. PICK h \in Nat : h = HeaderLen /\ h > 2
  BY CodecAssumption
<1>5. h + 2 * l \in Nat \ {0} /\ Advance(p) = h + 2 * l
  BY <1>3, <1>4 DEF Advance
<1> QED
  BY <1>2, <1>5 DEF NextAt

(* ClientFrames has its equations.                                         *)
LEMMA ClientFramesBySteps ==
  ASSUME NEW b \in Seq(Byte), NEW n \in Nat
  PROVE  \E r : IsClientScan(r, b, n) /\ ClientFrames(b, n) = r[1]
<1> DEFINE D == Nat \ {0}
           A == Seq(BeastFrame)
           from[i \in Nat \ {0}] ==
             IF i > n THEN <<>>
             ELSE LET f == Parse(From(b, i))
                  IN  IF f = NoFrame THEN from[i + 1]
                      ELSE <<f>> \o from[i + Advance(f.payload)]
           mu == [i \in D |-> IF i > n THEN 0 ELSE n + 1 - i]
           step(g, i) == IF i > n THEN <<>>
                         ELSE IF At(b, i) = NoFrame THEN g[i + 1]
                         ELSE <<At(b, i)>> \o g[NextAt(b, i)]
           body(g) == [i \in D |-> step(g, i)]
           F == [g \in [D -> A] |-> body(g)]
<1>0. n \in Nat
  OBVIOUS
<1>a. mu \in [D -> Nat]
  BY <1>0
<1>b. ASSUME NEW i \in D, ~(i > n), At(b, i) # NoFrame
      PROVE  NextAt(b, i) \in D /\ mu[NextAt(b, i)] < mu[i]
  <2>1. PICK k \in Nat \ {0} : NextAt(b, i) = i + k
    BY <1>b, NextAtIs
  <2>2. i + k \in D /\ mu[i + k] < mu[i]
    BY <1>b
  <2> QED
    BY <2>1, <2>2
<1>c. ASSUME NEW i \in D, ~(i > n) PROVE i + 1 \in D /\ mu[i + 1] < mu[i]
  BY <1>c
<1>1. F \in [[D -> A] -> [D -> A]]
  <2>1. ASSUME NEW g \in [D -> A], NEW i \in D
        PROVE  step(g, i) \in A
    <3>1. CASE i > n
      BY <3>1
    <3>2. CASE ~(i > n) /\ At(b, i) = NoFrame
      <4>1. i + 1 \in D
        BY <3>2, <1>c
      <4> HIDE DEF A, D
      <4> QED
        BY <4>1, <3>2
    <3>3. CASE ~(i > n) /\ At(b, i) # NoFrame
      <4>1. PICK j \in D : j = NextAt(b, i)
        BY <3>3, <1>b
      <4>2. PICK x : x = At(b, i)
        OBVIOUS
      <4>3. x \in BeastFrame
        <5>1. i \in 1 .. n
          BY <3>3
        <5> QED
          BY <3>3, <4>2, <5>1, AtType
      <4>4. <<x>> \in A
        BY <4>3
      <4>5. g[j] \in A
        <5> HIDE DEF A, D
        <5> QED
          OBVIOUS
      <4>6. <<x>> \o g[j] \in A
        BY <4>4, <4>5, Concat, Zenon
      <4> QED
        BY <4>1, <4>2, <4>6, <3>3, Zenon
    <3> QED
      BY <3>1, <3>2, <3>3
  <2> HIDE DEF A, D, step
  <2>2. \A g \in [D -> A] : body(g) \in [D -> A]
    BY <2>1
  <2> HIDE DEF body
  <2> QED
    BY <2>2
<1>2. IsRecursion(D, A, mu, F)
  <2>1. ASSUME NEW g \in [D -> A], NEW h \in [D -> A], NEW d \in D, \A e \in D : mu[e] < mu[d] => g[e] = h[e]
        PROVE  F[g][d] = F[h][d]
    <3>0. step(g, d) = step(h, d)
      <4>1. CASE d > n
        BY <4>1
      <4>2. CASE ~(d > n)
        <5>2. At(b, d) # NoFrame => g[NextAt(b, d)] = h[NextAt(b, d)]
          BY <2>1, <1>b, <4>2
        <5>3. g[d + 1] = h[d + 1]
          BY <2>1, <1>c, <4>2
        <5> QED
          BY <5>2, <5>3, Zenon
      <4> QED
        BY <4>1, <4>2
    <3> HIDE DEF A, D, mu, step
    <3> QED
      BY <3>0
  <2> HIDE DEF A, D, mu, F
  <2> QED
    BY <1>1, <1>a, <2>1 DEF IsRecursion
<1>3. PICK f \in [D -> A] : f = F[f]
  <2>1. A # {}
    <3>1. <<>> \in A
      OBVIOUS
    <3> QED
      BY <3>1
  <2> HIDE DEF A, D, mu, F
  <2> QED
    BY <1>2, <2>1, RecursionHasSolution
<1>4. f = body(f)
  <2> HIDE DEF body, A, D
  <2> QED
    BY <1>3
<1>5. from = body(from)
  <2>1. f = [i \in Nat \ {0} |->
              IF i > n THEN <<>>
              ELSE LET x == Parse(From(b, i))
                   IN  IF x = NoFrame THEN f[i + 1]
                       ELSE <<x>> \o f[i + Advance(x.payload)]]
    BY <1>4, Zenon DEF At, NextAt
  <2>2. from = [i \in Nat \ {0} |->
              IF i > n THEN <<>>
              ELSE LET x == Parse(From(b, i))
                   IN  IF x = NoFrame THEN from[i + 1]
                       ELSE <<x>> \o from[i + Advance(x.payload)]]
    <3> HIDE DEF F, A
    <3> QED
      BY <2>1, Zenon
  <2> HIDE DEF from
  <2> QED
    BY <2>2, Zenon DEF At, NextAt
<1>6. ClientFrames(b, n) = from[1]
  BY Zenon DEF ClientFrames
<1> HIDE DEF F, from
<1>7. from = f
  <2> DEFINE Same == {d \in D : from[d] = f[d]}
  <2>1. ASSUME NEW d \in D, \A e \in D : mu[e] < mu[d] => e \in Same PROVE d \in Same
    <3>0. step(from, d) = step(f, d)
      <4>1. CASE d > n
        BY <4>1
      <4>2. CASE ~(d > n)
        <5>2. At(b, d) # NoFrame => from[NextAt(b, d)] = f[NextAt(b, d)]
          BY <2>1, <1>b, <4>2
        <5>3. from[d + 1] = f[d + 1]
          BY <2>1, <1>c, <4>2
        <5> QED
          BY <5>2, <5>3, Zenon
      <4> QED
        BY <4>1, <4>2
    <3> HIDE DEF A, D, mu, step
    <3> QED
      BY <3>0, <1>4, <1>5
  <2>2. D \subseteq Same
    <3> HIDE DEF D, mu, Same
    <3> QED
      BY <1>a, <2>1, MeasureInduction
  <2> HIDE DEF D, A, step
  <2> QED
    BY <2>2, <1>4, <1>5
<1>8. ASSUME NEW i \in D PROVE f[i] \in Seq(BeastFrame) /\ f[i] = step(f, i)
  <2>1. f[i] \in A
    <3> HIDE DEF A, D
    <3> QED
      OBVIOUS
  <2> HIDE DEF D, step
  <2> QED
    BY <2>1, <1>4
<1>9. ASSUME NEW i \in 1 .. n
      PROVE  IF At(b, i) = NoFrame
             THEN f[i] = f[i + 1]
             ELSE IsPreceded(f[i], At(b, i), f[NextAt(b, i)])
  <2>1. i \in D /\ ~(i > n)
    OBVIOUS
  <2>2. f[i] = step(f, i)
    BY <2>1, <1>8
  <2> QED
    BY <2>1, <2>2, Zenon DEF IsPreceded
<1>10. IsClientScan(f, b, n)
  <2>1. \A i \in Nat \ {0} : f[i] \in Seq(BeastFrame) /\ (i > n => f[i] = <<>>)
    BY <1>8
  <2> QED
    BY <1>9, <2>1 DEF IsClientScan
<1> QED
  BY <1>6, <1>7, <1>10

(* read_loop finds frames.                                                 *)
LEMMA ClientFramesType ==
  ASSUME NEW b \in Seq(Byte), NEW n \in Nat
  PROVE  ClientFrames(b, n) \in Seq(BeastFrame)
<1>1. PICK r : IsClientScan(r, b, n) /\ ClientFrames(b, n) = r[1]
  BY ClientFramesBySteps
<1> QED
  BY <1>1 DEF IsClientScan

(* Of a read that begins with a frame that frame is what read_loop finds   *)
(* first.                                                                  *)
LEMMA ClientFramesFirst ==
  ASSUME NEW f, IsFrame(f), NEW t \in Seq(Byte), NEW b, IsSplit(b, Encoded(f), t), NEW n \in Nat \ {0}
  PROVE  Len(ClientFrames(b, n)) > 0 /\ ClientFrames(b, n)[1] = Frame(f)
<1>1. b \in Seq(Byte) /\ Parse(b) = Frame(f)
  BY ParseEncoded
<1>2. From(b, 1) = b
  BY <1>1 DEF From
<1>3. At(b, 1) = Frame(f) /\ Frame(f) # NoFrame /\ Frame(f) \in BeastFrame
  <2>1. Frame(f) \in BeastFrame
    BY DEF IsFrame
  <2> QED
    BY <1>1, <1>2, <2>1, CodecAssumption DEF At
<1>4. PICK r : IsClientScan(r, b, n) /\ ClientFrames(b, n) = r[1]
  BY <1>1, ClientFramesBySteps
<1>5. PICK k \in Nat \ {0} : k = NextAt(b, 1)
  <2>1. PICK j \in Nat \ {0} : NextAt(b, 1) = 1 + j
    BY <1>1, <1>3, NextAtIs
  <2>2. 1 + j \in Nat \ {0}
    OBVIOUS
  <2> QED
    BY <2>1, <2>2
<1>6. IsPreceded(r[1], At(b, 1), r[k])
  <2>1. 1 \in 1 .. n
    OBVIOUS
  <2> QED
    BY <2>1, <1>3, <1>4, <1>5 DEF IsClientScan
<1>7. PICK q \in Seq(BeastFrame) : q = r[k]
  BY <1>4, <1>5 DEF IsClientScan
<1>8. r[1] = <<Frame(f)>> \o q
  BY <1>3, <1>6, <1>7, Zenon DEF IsPreceded
<1>9. <<Frame(f)>> \in Seq(BeastFrame) /\ Len(<<Frame(f)>>) = 1 /\ <<Frame(f)>>[1] = Frame(f)
  BY <1>3
<1>10. PICK h \in Seq(BeastFrame) : h = <<Frame(f)>> /\ Len(h) = 1 /\ h[1] = Frame(f)
  BY <1>9
<1>11. Len(h \o q) = Len(h) + Len(q) /\ \A i \in 1 .. Len(h) : (h \o q)[i] = h[i]
  BY Concat
<1>12. PICK l \in Nat : l = Len(q)
  BY LenProperties
<1> QED
  BY <1>4, <1>8, <1>10, <1>11, <1>12

-----------------------------------------------------------------------------
(* Where frames lie in a buffer.                                           *)

(* The bytes of s from position p on begin with e.                         *)
Holds(s, p, e) == \A i \in 1 .. Len(e) : s[p + i - 1] = e[i]

(* Bytes that hold e from p on are e and a rest.                           *)
LEMMA SplitThere ==
  ASSUME NEW s \in Seq(Byte), NEW e \in Seq(Byte), NEW p \in Nat \ {0}, p + Len(e) - 1 <= Len(s), Holds(s, p, e)
  PROVE  \E t \in Seq(Byte) : IsSplit(From(s, p), e, t)
<1>1. PICK n \in Nat, l \in Nat : n = Len(s) /\ l = Len(e) /\ p + l <= n + 1
  <2>1. Len(s) \in Nat /\ Len(e) \in Nat
    BY LenProperties
  <2> QED
    BY <2>1
<1>2. CASE l = 0
  <2>1. PICK q \in Seq(Byte) : q = From(s, p)
    BY FromType
  <2>2. e = <<>>
    BY <1>1, <1>2, EmptySeq
  <2>3. q = e \o q
    BY <2>2
  <2> QED
    BY <2>1, <2>3, Zenon DEF IsSplit
<1>3. CASE l # 0
  <2>1. /\ p \in 1 .. Len(s) + 1 /\ p + l - 1 \in p - 1 .. Len(s) /\ n \in p + l - 1 .. Len(s)
        /\ p - 1 \in Nat /\ p + l - 1 \in Nat
    BY <1>1, <1>3
  <2>2. PICK x \in Seq(Byte), y \in Seq(Byte) : x = SubSeq(s, p, p + l - 1) /\ y = SubSeq(s, p + l - 1 + 1, n)
    <3>1. p + l - 1 + 1 \in Nat \ {0} /\ n \in 0 .. Len(s) /\ p + l - 1 \in 0 .. Len(s)
      BY <1>1, <1>3
    <3> QED
      BY <3>1, SubSeqType
  <2>3. x \o y = SubSeq(s, p, n)
    BY <2>1, <2>2, ConcatAdjacentSubSeq
  <2>4. x = e
    <3>1. /\ Len(x) = IF p <= p + l - 1 THEN p + l - 1 - p + 1 ELSE 0
          /\ \A i \in 1 .. p + l - 1 - p + 1 : x[i] = s[p + i - 1]
      <4>1. p + l - 1 \in 0 .. Len(s)
        BY <1>1, <1>3
      <4> QED
        BY <4>1, <2>2, SubSeqType
    <3>2. p <= p + l - 1 /\ p + l - 1 - p + 1 = l
      BY <1>1, <1>3
    <3>3. Len(x) = Len(e) /\ \A i \in 1 .. Len(x) : x[i] = e[i]
      BY <3>1, <3>2, <1>1 DEF Holds
    <3> QED
      BY <3>3, SeqEqual
  <2> QED
    BY <2>3, <2>4, <1>1, Zenon DEF IsSplit, From
<1> QED
  BY <1>2, <1>3

(* The bytes of the first m of some byte sequences.                        *)
Bytes(w, m) == FlattenSeq(SubSeq(w, 1, m))

(* They are over the same set.                                             *)
LEMMA BytesType ==
  ASSUME NEW S, NEW w \in Seq(Seq(S)), NEW m \in 0 .. Len(w)
  PROVE  Bytes(w, m) \in Seq(S) /\ Len(Bytes(w, m)) \in Nat
<1>1. SubSeq(w, 1, m) \in Seq(Seq(S))
  BY PrefixType
<1>2. Bytes(w, m) \in Seq(S)
  BY <1>1, FlattenType DEF Bytes
<1> QED
  BY <1>2, LenProperties

(* The first none of them are empty.                                       *)
LEMMA BytesNone ==
  ASSUME NEW S, NEW w \in Seq(Seq(S))
  PROVE  Bytes(w, 0) = <<>>
<1>1. SubSeq(w, 1, 0) = <<>>
  BY SubSeqEmpty
<1>2. FlattenSeq(<<>>) = <<>>
  BY DEF FlattenSeq
<1> QED
  BY <1>1, <1>2 DEF Bytes

(* Those of m are those of m - 1 and the m-th.                             *)
LEMMA BytesNext ==
  ASSUME NEW S, NEW w \in Seq(Seq(S)), NEW m \in 1 .. Len(w)
  PROVE  IsSplit(Bytes(w, m), Bytes(w, m - 1), w[m])
<1>1. m - 1 \in 0 .. Len(w)
  BY LenProperties
<1>2. PICK p \in Seq(Seq(S)) : p = SubSeq(w, 1, m - 1)
  BY <1>1, PrefixType
<1>3. SubSeq(w, 1, m) = p \o <<w[m]>>
  <2>1. m \in 1 .. Len(w)
    OBVIOUS
  <2> QED
    BY <1>2, <2>1, SubSeqRecursiveSecond
<1>4. w[m] \in Seq(S) /\ <<w[m]>> \in Seq(Seq(S))
  BY ElementOfSeq
<1>5. FlattenSeq(p \o <<w[m]>>) = FlattenSeq(p) \o FlattenSeq(<<w[m]>>)
  BY <1>4, FlattenConcat
<1>6. FlattenSeq(<<w[m]>>) = w[m]
  BY <1>4, FlattenOne
<1> QED
  BY <1>2, <1>3, <1>5, <1>6, Zenon DEF Bytes, IsSplit

(* Those of m are the beginning of those of more.                          *)
LEMMA BytesBegin ==
  ASSUME NEW S, NEW w \in Seq(Seq(S)), NEW k \in 0 .. Len(w), NEW m \in 0 .. k
  PROVE  \E t \in Seq(S) : IsSplit(Bytes(w, k), Bytes(w, m), t)
<1>1. PICK n \in Nat : n = Len(w) /\ k <= n
  BY LenProperties
<1>2. PICK p \in Seq(Seq(S)), q \in Seq(Seq(S)) : p = SubSeq(w, 1, m) /\ q = SubSeq(w, m + 1, k)
  <2>1. m + 1 \in Nat \ {0} /\ k \in 0 .. Len(w) /\ m \in 0 .. Len(w)
    BY <1>1
  <2> QED
    BY <2>1, SubSeqType, PrefixType
<1>3. SubSeq(w, 1, k) = p \o q
  <2>1. 1 \in 1 .. Len(w) + 1 /\ m \in 1 - 1 .. Len(w) /\ k \in m .. Len(w)
    BY <1>1
  <2> QED
    BY <1>2, <2>1, ConcatAdjacentSubSeq
<1>4. FlattenSeq(p \o q) = FlattenSeq(p) \o FlattenSeq(q)
  BY FlattenConcat
<1>5. PICK t \in Seq(S) : t = FlattenSeq(q)
  BY FlattenType
<1> QED
  BY <1>2, <1>3, <1>4, <1>5, Zenon DEF Bytes, IsSplit

(* Where the frames of a read lie in the buffer.                           *)
IsLayout(pos, b, off, w, k) ==
  /\ pos[1] = off + 1
  /\ \A m \in 1 .. k + 1 : pos[m] \in Nat \ {0}
  /\ \A m \in 1 .. k : pos[m + 1] = pos[m] + Len(w[m]) /\ Holds(b, pos[m], w[m])

(* The first k byte sequences of w are in b behind off bytes.              *)
HasFirst(b, off, w, k) == Holds(b, off + 1, Bytes(w, k))

(* Byte sequences one behind the other have places where they begin.       *)
LEMMA Layout ==
  ASSUME NEW S, NEW w \in Seq(Seq(S)), NEW k \in 0 .. Len(w), NEW b, NEW off \in Nat, HasFirst(b, off, w, k)
  PROVE  \E pos : /\ pos \in [1 .. k + 1 -> Nat]
                  /\ IsLayout(pos, b, off, w, k) /\ pos[k + 1] = off + 1 + Len(Bytes(w, k))
<1>0. PICK x \in Seq(S) : x = Bytes(w, k) /\ Holds(b, off + 1, x)
  BY BytesType DEF HasFirst
<1>1. PICK n \in Nat, h \in Nat : n = Len(w) /\ k \in 0 .. n /\ h = Len(x)
  BY LenProperties
<1> DEFINE pos == [m \in 1 .. k + 1 |-> off + 1 + Len(Bytes(w, m - 1))]
<1>2. ASSUME NEW m \in 0 .. k
      PROVE  /\ Bytes(w, m) \in Seq(S) /\ Len(Bytes(w, m)) \in Nat
             /\ pos[m + 1] = off + 1 + Len(Bytes(w, m))
  <2>1. m \in 0 .. Len(w)
    BY <1>1
  <2>2. m + 1 \in 1 .. k + 1 /\ m + 1 - 1 = m
    OBVIOUS
  <2>3. pos[m + 1] = off + 1 + Len(Bytes(w, m))
    BY <2>2
  <2> QED
    BY <2>1, <2>3, BytesType
<1>3. pos[1] = off + 1
  <2>1. Len(Bytes(w, 0)) = 0
    BY BytesNone
  <2>2. 0 \in 0 .. k
    OBVIOUS
  <2>3. pos[0 + 1] = off + 1 + Len(Bytes(w, 0))
    BY <1>2, <2>2
  <2> QED
    BY <2>1, <2>3
<1>4. ASSUME NEW m \in 1 .. k + 1 PROVE pos[m] \in Nat \ {0}
  <2>1. m - 1 \in 0 .. k /\ (m - 1) + 1 = m
    OBVIOUS
  <2>2. Len(Bytes(w, m - 1)) \in Nat
    BY <1>2, <2>1
  <2>3. pos[m] = off + 1 + Len(Bytes(w, m - 1))
    OBVIOUS
  <2> QED
    BY <2>2, <2>3
<1>5. ASSUME NEW m \in 1 .. k
      PROVE  pos[m + 1] = pos[m] + Len(w[m]) /\ Holds(b, pos[m], w[m])
  <2>1. m \in 1 .. Len(w) /\ m - 1 \in 0 .. k /\ (m - 1) + 1 = m /\ m \in 0 .. k
    BY <1>1
  <2>2. PICK p \in Seq(S), q \in Seq(S) : p = Bytes(w, m - 1) /\ q = Bytes(w, m)
    BY <1>2, <2>1
  <2>3. PICK e \in Seq(S) : e = w[m]
    BY <2>1, ElementOfSeq
  <2>4. q = p \o e
    BY <2>1, <2>2, <2>3, BytesNext, Zenon DEF IsSplit
  <2>5. PICK i \in Nat, j \in Nat : i = Len(p) /\ j = Len(e)
    BY LenProperties
  <2>6. Len(q) = i + j /\ \A l \in 1 .. j : q[i + l] = e[l]
    BY <2>4, <2>5, Concat
  <2>7. pos[m] = off + 1 + i /\ pos[m + 1] = off + 1 + (i + j)
    BY <1>2, <2>1, <2>2, <2>5, <2>6
  <2>8. PICK t \in Seq(S) : x = q \o t
    <3>1. \E t \in Seq(S) : IsSplit(Bytes(w, k), Bytes(w, m), t)
      BY <2>1, BytesBegin
    <3> QED
      BY <3>1, <2>2, <1>0, Zenon DEF IsSplit
  <2>9. i + j <= h /\ \A l \in 1 .. i + j : x[l] = q[l]
    <3>1. PICK g \in Nat : g = Len(t)
      BY LenProperties
    <3>2. Len(x) = Len(q) + Len(t) /\ \A l \in 1 .. Len(q) : x[l] = q[l]
      BY <2>8, Concat
    <3> QED
      BY <3>1, <3>2, <2>6, <1>1
  <2>10. ASSUME NEW l \in 1 .. j PROVE b[pos[m] + l - 1] = e[l]
    <3>1. i + l \in 1 .. i + j /\ i + l \in 1 .. h /\ off + 1 + i + l - 1 = off + 1 + (i + l) - 1
      BY <2>5, <2>9, <1>1
    <3>2. b[off + 1 + (i + l) - 1] = x[i + l]
      BY <3>1, <1>0, <1>1 DEF Holds
    <3> QED
      BY <3>1, <3>2, <2>6, <2>7, <2>9
  <2>11. Holds(b, pos[m], w[m])
    BY <2>3, <2>5, <2>10 DEF Holds
  <2>12. pos[m + 1] = pos[m] + Len(w[m])
    <3>1. off + 1 + (i + j) = (off + 1 + i) + j
      BY <2>5
    <3> QED
      BY <3>1, <2>3, <2>5, <2>7, Zenon
  <2> QED
    BY <2>11, <2>12
<1>6. pos[k + 1] = off + 1 + Len(Bytes(w, k))
  <2>1. k \in 0 .. k
    OBVIOUS
  <2> QED
    BY <2>1, <1>2
<1>7. pos \in [1 .. k + 1 -> Nat]
  BY <1>4
<1> HIDE DEF pos
<1> QED
  BY <1>3, <1>4, <1>5, <1>6, <1>7 DEF IsLayout

(* Places that ascend step by step ascend.                                 *)
LEMMA StepsAscend ==
  ASSUME NEW k \in Nat, NEW pos, \A m \in 1 .. k + 1 : pos[m] \in Nat, \A m \in 1 .. k : pos[m] < pos[m + 1]
  PROVE  \A l, m \in 1 .. k + 1 : l < m => pos[l] < pos[m]
<1> DEFINE S == {d \in Nat : \A l \in 1 .. k + 1 : l + d + 1 <= k + 1 => pos[l] < pos[l + d + 1]}
<1>1. 0 \in S
  <2>1. ASSUME NEW l \in 1 .. k + 1, l + 0 + 1 <= k + 1 PROVE pos[l] < pos[l + 0 + 1]
    <3>1. l \in 1 .. k /\ l + 0 + 1 = l + 1
      BY <2>1
    <3> QED
      BY <3>1
  <2> QED
    BY <2>1
<1>2. ASSUME NEW d \in Nat, d \in S PROVE d + 1 \in S
  <2>1. ASSUME NEW l \in 1 .. k + 1, l + (d + 1) + 1 <= k + 1 PROVE pos[l] < pos[l + (d + 1) + 1]
    <3>1. PICK h \in 1 .. k : h = l + d + 1 /\ h + 1 = l + (d + 1) + 1
      <4>1. l + d + 1 \in 1 .. k /\ l + d + 1 + 1 = l + (d + 1) + 1
        BY <2>1
      <4> QED
        BY <4>1
    <3>2. pos[l] < pos[h]
      <4>1. l + d + 1 <= k + 1
        BY <3>1
      <4>2. pos[l] < pos[l + d + 1]
        BY <4>1, <1>2
      <4> QED
        BY <4>2, <3>1
    <3>3. pos[h] < pos[h + 1] /\ h \in 1 .. k + 1 /\ h + 1 \in 1 .. k + 1
      OBVIOUS
    <3>4. pos[l] \in Nat /\ pos[h] \in Nat /\ pos[h + 1] \in Nat
      BY <3>3
    <3>5. pos[l] < pos[h + 1]
      BY <3>2, <3>3, <3>4
    <3> QED
      BY <3>1, <3>5
  <2> QED
    BY <2>1
<1>3. Nat \subseteq S
  <2> HIDE DEF S
  <2> QED
    BY <1>1, <1>2, Induction
<1>4. ASSUME NEW l \in 1 .. k + 1, NEW m \in 1 .. k + 1, l < m PROVE pos[l] < pos[m]
  <2>1. PICK d \in Nat : m = l + d + 1
    <3>1. m - l - 1 \in Nat /\ m = l + (m - l - 1) + 1
      BY <1>4
    <3> QED
      BY <3>1
  <2>2. d \in S
    BY <1>3
  <2> QED
    BY <2>1, <2>2
<1> QED
  BY <1>4

-----------------------------------------------------------------------------
(* What is on the wire, and the types of the readers' state.               *)

(* What is written over part of a buffer, and what that leaves.            *)
LEMMA OverwriteType ==
  ASSUME NEW b \in Seq(Byte), NEW x \in Seq(Byte), NEW k \in Nat, k + Len(x) <= Len(b)
  PROVE  /\ Overwrite(b, k, x) \in Seq(Byte) /\ Len(Overwrite(b, k, x)) = Len(b)
         /\ \A i \in 1 .. k : Overwrite(b, k, x)[i] = b[i]
         /\ \A i \in 1 .. Len(x) : Overwrite(b, k, x)[k + i] = x[i]
<1>1. PICK n \in Nat, l \in Nat : n = Len(b) /\ l = Len(x) /\ k + l <= n
  BY LenProperties
<1>2. PICK p \in Seq(Byte) : p = SubSeq(b, 1, k) /\ Len(p) = k /\ \A i \in 1 .. k : p[i] = b[i]
  <2>1. k \in 0 .. Len(b)
    BY <1>1
  <2> QED
    BY <2>1, PrefixType, ZenonT(60)
<1>3. PICK q \in Seq(Byte) : q = From(b, k + Len(x) + 1) /\ Len(q) = n - (k + l)
  <2>1. k + l + 1 \in Nat \ {0} /\ n \in 0 .. Len(b)
    BY <1>1
  <2>2. SubSeq(b, k + l + 1, n) \in Seq(Byte)
    BY <2>1, SubSeqType
  <2>3. Len(SubSeq(b, k + l + 1, n)) = IF k + l + 1 <= n THEN n - (k + l + 1) + 1 ELSE 0
    BY <2>1, SubSeqType
  <2>4. (IF k + l + 1 <= n THEN n - (k + l + 1) + 1 ELSE 0) = n - (k + l)
    BY <1>1
  <2> QED
    BY <1>1, <2>2, <2>3, <2>4 DEF From
<1>4. PICK px \in Seq(Byte) : px = p \o x
  BY Concat
<1>5. /\ Len(px) = k + l
      /\ \A i \in 1 .. k : px[i] = p[i]
      /\ \A i \in 1 .. l : px[k + i] = x[i]
  BY <1>1, <1>2, <1>4, Concat
<1>6. PICK o \in Seq(Byte) : o = px \o q
  BY Concat
<1>7. Len(o) = n /\ \A i \in 1 .. k + l : o[i] = px[i]
  BY <1>1, <1>3, <1>5, <1>6, Concat
<1>8. Overwrite(b, k, x) = o
  BY <1>2, <1>3, <1>4, <1>6, Zenon DEF Overwrite
<1>9. ASSUME NEW i \in 1 .. k PROVE o[i] = b[i]
  <2>1. i \in 1 .. k + l
    BY <1>1
  <2> QED
    BY <2>1, <1>2, <1>5, <1>7
<1>10. ASSUME NEW i \in 1 .. l PROVE o[k + i] = x[i]
  <2>1. k + i \in 1 .. k + l
    BY <1>1
  <2> QED
    BY <2>1, <1>5, <1>7
<1> QED
  BY <1>1, <1>7, <1>8, <1>9, <1>10

(* The first frames found, and what they use up.                           *)
LEMMA ScanFramesAre ==
  ASSUME NEW b \in Seq(Byte), NEW n \in 0 .. Len(b), NEW max \in Nat
  PROVE  \E c \in 0 .. max :
           /\ Found(b, n) \in Seq(Finds(n)) /\ c <= Len(Found(b, n)) /\ (c < max => c = Len(Found(b, n)))
           /\ ScanFrames(b, n, max).frames \in Seq(BeastFrame) /\ Len(ScanFrames(b, n, max).frames) = c
           /\ \A i \in 1 .. c : ScanFrames(b, n, max).frames[i] = Found(b, n)[i].frame
           /\ ScanFrames(b, n, max).used \in 0 .. n
           /\ ScanFrames(b, n, max).used = IF c = 0 THEN 0 ELSE Found(b, n)[c].used
<1>1. PICK r : IsScan(r, b, n) /\ Found(b, n) = r[1]
  BY FoundBySteps
<1>2. Found(b, n) \in Seq(Finds(n))
  BY <1>1 DEF IsScan
<1>3. PICK found \in Seq(Finds(n)) : found = Found(b, n)
  BY <1>2
<1>4. PICK l \in Nat : l = Len(found)
  BY LenProperties
<1>5. PICK c \in 0 .. max : c = Min({max, l}) /\ c <= l /\ (c < max => c = l)
  <2>1. Min({max, l}) = IF max <= l THEN max ELSE l
    BY MinOfTwo
  <2> QED
    BY <2>1
<1>6. PICK s : s = ScanFrames(b, n, max)
  OBVIOUS
<1>7. s = [frames |-> [m \in 1 .. c |-> found[m].frame], used |-> IF c = 0 THEN 0 ELSE found[c].used]
  BY <1>3, <1>4, <1>5, <1>6 DEF ScanFrames
<1>8. ASSUME NEW i \in 1 .. c PROVE found[i].frame \in BeastFrame /\ found[i].used \in 0 .. n
  <2>1. i \in 1 .. Len(found)
    BY <1>4, <1>5
  <2>2. found[i] \in Finds(n)
    BY <2>1, ElementOfSeq
  <2> QED
    BY <2>2 DEF Finds
<1>9. s.frames \in [1 .. c -> BeastFrame] /\ \A i \in 1 .. c : s.frames[i] = found[i].frame
  BY <1>7, <1>8
<1>10. s.frames \in Seq(BeastFrame) /\ Len(s.frames) = c
  <2>1. c \in Nat
    OBVIOUS
  <2> QED
    BY <1>9, <2>1, FunctionIsSequence
<1>11. s.used = (IF c = 0 THEN 0 ELSE found[c].used) /\ s.used \in 0 .. n
  <2>1. s.used = IF c = 0 THEN 0 ELSE found[c].used
    BY <1>7
  <2>2. c # 0 => c \in 1 .. c
    OBVIOUS
  <2> QED
    BY <2>1, <2>2, <1>8
<1> QED
  BY <1>2, <1>3, <1>4, <1>5, <1>6, <1>9, <1>10, <1>11

(* The types of the readers' state.                                        *)
ReaderTypes ==
  /\ reader \in Readers
  /\ buf \in Seq(Byte) /\ Len(buf) = BufSize
  /\ offset \in 0 .. BufSize
  /\ frames \in Seq(BeastFrame) /\ Len(frames) < MaxFrames[reader]
  /\ got \in Seq(BeastFrame)
  /\ uncut \in Seq(BeastFrame) /\ due \in Seq(BeastFrame)

(* On the wire is what was sent last, encoded.                             *)
OnWire ==
  /\ wire \in Seq(Seq(Byte)) /\ pending \in Seq(Byte)
  /\ sent \in Seq(BeastFrame) /\ Len(wire) <= Len(sent)
  /\ \A i \in 1 .. Len(wire) :
       \E f \in Sendable[reader] : wire[i] = Encoded(f) /\ sent[Len(sent) - Len(wire) + i] = Frame(f)

(* What may be sent is a frame.                                            *)
LEMMA SendableFrames ==
  ASSUME reader \in Readers, NEW f \in Sendable[reader]
  PROVE  IsFrame(f) /\ Encoded(f) \in Seq(Byte) /\ Frame(f) \in BeastFrame
<1>1. IsFrame(f)
  BY SendableAssumption DEF IsFrame
<1> QED
  BY <1>1, EncodedParts DEF IsFrame

(* What is left of a wire of which j frames are taken.                     *)
IsRest(r, j) ==
  /\ r.rest \in Seq(Seq(Byte)) /\ Len(r.rest) = Len(wire) - j
  /\ \A i \in 1 .. Len(wire) - j : r.rest[i] = wire[j + i]

(* The bytes of a read: p, the first k frames of the wire, and q.          *)
IsMadeOf(bytes, p, k, q) == bytes = (p \o Bytes(wire, k)) \o q

(* A read has k whole frames between p and q, and j have been taken when   *)
(* it is done.                                                             *)
IsRead(r, p, k, q, j) ==
  /\ r.bytes \in Seq(Byte) /\ IsMadeOf(r.bytes, p, k, q) /\ (pending = <<>> => p = <<>>)
  /\ r.whole \in Seq(BeastFrame) /\ Len(r.whole) = k /\ \A i \in 1 .. k : r.whole[i] = sent[Taken + i]
  /\ r.pending \in Seq(Byte) /\ IsRest(r, j)

(* What is left behind the first j of them.                                *)
LEMMA RestType ==
  ASSUME NEW w \in Seq(Seq(Byte)), NEW j \in 0 .. Len(w)
  PROVE  /\ From(w, j + 1) \in Seq(Seq(Byte)) /\ Len(From(w, j + 1)) = Len(w) - j
         /\ \A i \in 1 .. Len(w) - j : From(w, j + 1)[i] = w[j + i]
<1>1. PICK n \in Nat : n = Len(w)
  BY LenProperties
<1>2. j + 1 \in Nat \ {0} /\ n \in 0 .. Len(w)
  BY <1>1
<1>3. PICK q \in Seq(Seq(Byte)) : q = From(w, j + 1)
  BY <1>2, FromType
<1>4. Len(q) = n - j /\ \A i \in 1 .. n - j : q[i] = w[j + i]
  <2>1. q = SubSeq(w, j + 1, n)
    BY <1>1, <1>3 DEF From
  <2>2. /\ Len(q) = IF j + 1 <= n THEN n - (j + 1) + 1 ELSE 0
        /\ \A i \in 1 .. n - (j + 1) + 1 : q[i] = w[j + 1 + i - 1]
    BY <2>1, <1>2, SubSeqType
  <2>3. n - (j + 1) + 1 = n - j /\ \A i \in 1 .. n - j : j + 1 + i - 1 = j + i
    BY <1>1
  <2> QED
    BY <1>1, <2>2, <2>3
<1> QED
  BY <1>1, <1>3, <1>4

(* The frames that were sent as the first of those on the wire.            *)
LEMMA WholeType ==
  ASSUME OnWire, NEW k \in 0 .. Len(wire)
  PROVE  /\ SubSeq(sent, Taken + 1, Taken + k) \in Seq(BeastFrame)
         /\ Len(SubSeq(sent, Taken + 1, Taken + k)) = k
         /\ \A i \in 1 .. k : SubSeq(sent, Taken + 1, Taken + k)[i] = sent[Taken + i]
<1>1. PICK s \in Seq(BeastFrame), m \in Nat, n \in Nat : s = sent /\ m = Len(s) /\ n = Len(wire) /\ n <= m
  <2>1. Len(sent) \in Nat /\ Len(wire) \in Nat
    BY LenProperties DEF OnWire
  <2> QED
    BY <2>1 DEF OnWire
<1>2. PICK t \in Nat : t = Taken /\ t = m - n
  <2>1. m - n \in Nat
    BY <1>1
  <2> QED
    BY <2>1, <1>1 DEF Taken
<1>3. t + 1 \in Nat \ {0} /\ t + k \in 0 .. Len(s)
  BY <1>1, <1>2
<1>4. PICK q : q = SubSeq(s, t + 1, t + k)
  OBVIOUS
<1>5. /\ q \in Seq(BeastFrame) /\ Len(q) = IF t + 1 <= t + k THEN t + k - (t + 1) + 1 ELSE 0
      /\ \A i \in 1 .. t + k - (t + 1) + 1 : q[i] = s[t + 1 + i - 1]
  BY <1>3, <1>4, SubSeqType
<1>6. k \in Nat /\ t + k - (t + 1) + 1 = k /\ \A i \in 1 .. k : t + 1 + i - 1 = t + i
  OBVIOUS
<1>7. Len(q) = k
  BY <1>5, <1>6
<1> QED
  BY <1>1, <1>2, <1>4, <1>5, <1>6, <1>7

(* A read is a part of the wire, and the rest is left on it.               *)
LEMMA ReadsAre ==
  ASSUME ReaderTypes, OnWire, NEW r \in Reads
  PROVE  \E p \in Seq(Byte), k \in 0 .. Len(wire), q \in Seq(Byte), j \in 0 .. Len(wire) : IsRead(r, p, k, q, j)
<1>1. PICK w \in Seq(Seq(Byte)), n \in Nat, o \in Nat, u \in Seq(Byte) :
        w = wire /\ n = Len(w) /\ o = WholeFrames[reader] /\ u = pending
  <2>1. WholeFrames[reader] \in Nat
    BY ReadersAssumption DEF ReaderTypes
  <2>2. Len(wire) \in Nat /\ wire \in Seq(Seq(Byte)) /\ pending \in Seq(Byte)
    BY LenProperties DEF OnWire
  <2> QED
    BY <2>1, <2>2
<1>2. Cuts[reader] \subseteq Nat \ {0}
  BY ReadersAssumption DEF ReaderTypes
<1>3. <<>> \in Seq(Byte) /\ \A x \in Seq(Byte) : x \o <<>> = x /\ <<>> \o x = x
  OBVIOUS
<1>4. ASSUME NEW m \in {c \in Cuts[reader] : c < Len(u)},
             r = [bytes |-> SubSeq(u, 1, m), whole |-> <<>>, rest |-> w, pending |-> From(u, m + 1)]
      PROVE  \E p \in Seq(Byte) : IsRead(r, p, 0, <<>>, 0)
  <2>1. PICK l \in Nat : l = Len(u)
    BY LenProperties
  <2>2. m \in 0 .. Len(u) /\ m + 1 \in Nat \ {0} /\ l > 0
    BY <1>2, <2>1
  <2>3. PICK p \in Seq(Byte) : p = SubSeq(u, 1, m)
    BY <2>2, PrefixType
  <2>4. From(u, m + 1) \in Seq(Byte)
    BY <2>2, FromType
  <2>5. Bytes(wire, 0) = <<>>
    BY <1>1, BytesNone
  <2>6. IsMadeOf(p, p, 0, <<>>)
    BY <2>5, <1>3 DEF IsMadeOf
  <2>7. pending # <<>>
    BY <2>1, <2>2, <1>1
  <2>8. r.bytes = p /\ r.whole = <<>> /\ r.rest = w /\ r.pending = From(u, m + 1)
    BY <1>4, <2>3
  <2>9. IsRest(r, 0)
    BY <2>8, <1>1 DEF IsRest
  <2>10. r.whole \in Seq(BeastFrame) /\ Len(r.whole) = 0 /\ \A i \in 1 .. 0 : r.whole[i] = sent[Taken + i]
    BY <2>8
  <2> QED
    BY <2>4, <2>6, <2>7, <2>8, <2>9, <2>10, Zenon DEF IsRead
<1>5. ASSUME NEW k \in 0 .. n,
             r = [bytes |-> u \o FlattenSeq(SubSeq(w, 1, k)), whole |-> SubSeq(sent, Taken + 1, Taken + k),
                  rest |-> From(w, k + 1), pending |-> <<>>]
      PROVE  IsRead(r, u, k, <<>>, k)
  <2>1. k \in 0 .. Len(wire) /\ k \in 0 .. Len(w)
    BY <1>1
  <2>2. PICK x \in Seq(Byte) : x = Bytes(wire, k)
    BY <2>1, <1>1, BytesType
  <2>3. PICK y \in Seq(Byte) : y = u \o x
    BY Concat
  <2>4. r.bytes = y /\ r.whole = SubSeq(sent, Taken + 1, Taken + k) /\ r.rest = From(w, k + 1) /\ r.pending = <<>>
    BY <1>5, <1>1, <2>2, <2>3, Zenon DEF Bytes
  <2>5. IsMadeOf(y, u, k, <<>>)
    BY <2>2, <2>3, <1>3, Zenon DEF IsMadeOf
  <2>6. IsRest(r, k)
    BY <2>1, <2>4, <1>1, RestType DEF IsRest
  <2>7. r.whole \in Seq(BeastFrame) /\ Len(r.whole) = k /\ \A i \in 1 .. k : r.whole[i] = sent[Taken + i]
    BY <2>1, <2>4, WholeType
  <2> QED
    BY <2>4, <2>5, <2>6, <2>7, <1>1, <1>3, Zenon DEF IsRead
<1>6. ASSUME NEW k \in Nat, NEW m \in Cuts[reader], k < n, m < Len(w[k + 1]),
             r = [bytes |-> u \o FlattenSeq(SubSeq(w, 1, k)) \o SubSeq(w[k + 1], 1, m),
                  whole |-> SubSeq(sent, Taken + 1, Taken + k),
                  rest |-> From(w, k + 2), pending |-> From(w[k + 1], m + 1)]
      PROVE  k + 1 \in 0 .. n /\ \E q \in Seq(Byte) : IsRead(r, u, k, q, k + 1)
  <2>1. k \in 0 .. Len(wire) /\ k \in 0 .. Len(w) /\ k + 1 \in 1 .. Len(w) /\ k + 1 + 1 = k + 2 /\ k + 1 \in 0 .. Len(w)
    BY <1>1, <1>6
  <2>2. PICK x \in Seq(Byte) : x = Bytes(wire, k)
    BY <2>1, <1>1, BytesType
  <2>3. PICK e \in Seq(Byte) : e = w[k + 1]
    BY <2>1, ElementOfSeq
  <2>4. PICK q \in Seq(Byte) : q = SubSeq(e, 1, m)
    <3>1. Len(e) \in Nat
      BY LenProperties
    <3>2. m \in 0 .. Len(e)
      BY <3>1, <2>3, <1>2, <1>6
    <3> QED
      BY <3>2, PrefixType
  <2>5. PICK y \in Seq(Byte) : y = u \o x
    BY Concat
  <2>6. PICK z \in Seq(Byte) : z = y \o q
    BY Concat
  <2>7. /\ r.bytes = z /\ r.whole = SubSeq(sent, Taken + 1, Taken + k)
        /\ r.rest = From(w, k + 2) /\ r.pending = From(e, m + 1)
    BY <1>6, <1>1, <2>2, <2>3, <2>4, <2>5, <2>6, Zenon DEF Bytes
  <2>8. IsMadeOf(z, u, k, q)
    BY <2>2, <2>5, <2>6, Zenon DEF IsMadeOf
  <2>9. IsRest(r, k + 1)
    <3>1. r.rest = From(w, k + 1 + 1)
      BY <2>1, <2>7, Zenon
    <3>2. PICK j \in 0 .. Len(w) : j = k + 1
      BY <2>1
    <3>3. r.rest = From(w, j + 1)
      BY <3>1, <3>2
    <3>4. IsRest(r, j)
      BY <3>3, <1>1, RestType, Zenon DEF IsRest
    <3> QED
      BY <3>2, <3>4
  <2>10. r.whole \in Seq(BeastFrame) /\ Len(r.whole) = k /\ \A i \in 1 .. k : r.whole[i] = sent[Taken + i]
    BY <2>1, <2>7, WholeType
  <2>11. From(e, m + 1) \in Seq(Byte)
    <3>1. m + 1 \in Nat \ {0}
      BY <1>2
    <3> QED
      BY <3>1, FromType
  <2>12. IsRead(r, u, k, q, k + 1)
    BY <2>7, <2>8, <2>9, <2>10, <2>11, <1>1, Zenon DEF IsRead
  <2>13. k + 1 \in 0 .. n
    BY <1>6
  <2> QED
    BY <2>12, <2>13
<1>7. Min({o, n}) = IF o <= n THEN o ELSE n
  BY MinOfTwo
<1>8. \/ \E m \in {c \in Cuts[reader] : c < Len(u)} :
           r = [bytes |-> SubSeq(u, 1, m), whole |-> <<>>, rest |-> w, pending |-> From(u, m + 1)]
      \/ \E k \in 0 .. Min({o, n}) :
           r = [bytes |-> u \o FlattenSeq(SubSeq(w, 1, k)), whole |-> SubSeq(sent, Taken + 1, Taken + k),
                rest |-> From(w, k + 1), pending |-> <<>>]
      \/ \E km \in {c \in (0 .. o) \X Cuts[reader] : c[1] < n /\ c[2] < Len(w[c[1] + 1])} :
           r = [bytes |-> u \o FlattenSeq(SubSeq(w, 1, km[1])) \o SubSeq(w[km[1] + 1], 1, km[2]),
                whole |-> SubSeq(sent, Taken + 1, Taken + km[1]),
                rest |-> From(w, km[1] + 2), pending |-> From(w[km[1] + 1], km[2] + 1)]
  BY <1>1 DEF Reads
<1>9. 0 \in 0 .. Len(wire) /\ 0 \in 0 .. Len(wire)
  BY <1>1
<1>10. ASSUME NEW m \in {c \in Cuts[reader] : c < Len(u)},
              r = [bytes |-> SubSeq(u, 1, m), whole |-> <<>>, rest |-> w, pending |-> From(u, m + 1)]
       PROVE  \E p \in Seq(Byte), k \in 0 .. Len(wire), q \in Seq(Byte), j \in 0 .. Len(wire) : IsRead(r, p, k, q, j)
  BY <1>10, <1>4, <1>9, <1>3
<1>11. ASSUME NEW k \in 0 .. Min({o, n}),
              r = [bytes |-> u \o FlattenSeq(SubSeq(w, 1, k)), whole |-> SubSeq(sent, Taken + 1, Taken + k),
                   rest |-> From(w, k + 1), pending |-> <<>>]
       PROVE  \E p \in Seq(Byte), h \in 0 .. Len(wire), q \in Seq(Byte), j \in 0 .. Len(wire) : IsRead(r, p, h, q, j)
  <2>1. k \in 0 .. n /\ k \in 0 .. Len(wire) /\ k \in 0 .. Len(wire)
    BY <1>1, <1>7
  <2>2. IsRead(r, u, k, <<>>, k)
    BY <2>1, <1>5, <1>11
  <2> QED
    BY <2>1, <2>2, <1>3
<1>12. ASSUME NEW k \in 0 .. o, NEW m \in Cuts[reader], k < n, m < Len(w[k + 1]),
              r = [bytes |-> u \o FlattenSeq(SubSeq(w, 1, k)) \o SubSeq(w[k + 1], 1, m),
                   whole |-> SubSeq(sent, Taken + 1, Taken + k),
                   rest |-> From(w, k + 2), pending |-> From(w[k + 1], m + 1)]
       PROVE  \E p \in Seq(Byte), h \in 0 .. Len(wire), q \in Seq(Byte), j \in 0 .. Len(wire) : IsRead(r, p, h, q, j)
  <2>1. k \in 0 .. Len(wire) /\ k \in Nat
    BY <1>1, <1>12
  <2>2. k + 1 \in 0 .. Len(wire) /\ \E q \in Seq(Byte) : IsRead(r, u, k, q, k + 1)
    BY <2>1, <1>1, <1>6, <1>12
  <2> QED
    BY <2>1, <2>2
<1> QED
  BY <1>8, <1>10, <1>11, <1>12

(* The wire is empty, and nothing has been sent.                           *)
LEMMA WireInit == Init => OnWire
BY DEF Init, OnWire

(* A frame that is sent is last on the wire.                               *)
LEMMA WireSend ==
  ASSUME ReaderTypes, OnWire, NEW f \in Sendable[reader], Send(f)
  PROVE  OnWire'
<1>1. Encoded(f) \in Seq(Byte) /\ Frame(f) \in BeastFrame
  BY SendableFrames DEF ReaderTypes
<1>2. PICK e \in Seq(Byte), g \in BeastFrame : e = Encoded(f) /\ g = Frame(f)
  BY <1>1
<1>3. PICK w \in Seq(Seq(Byte)), s \in Seq(BeastFrame), n \in Nat, m \in Nat :
        w = wire /\ s = sent /\ n = Len(w) /\ m = Len(s) /\ n <= m
  <2>1. Len(wire) \in Nat /\ Len(sent) \in Nat
    BY LenProperties DEF OnWire
  <2> QED
    BY <2>1 DEF OnWire
<1>4. wire' = Append(w, e) /\ sent' = Append(s, g) /\ reader' = reader
  BY <1>2, <1>3 DEF Send, Encoded
<1>5. /\ wire' \in Seq(Seq(Byte)) /\ Len(wire') = n + 1
      /\ wire'[n + 1] = e /\ \A i \in 1 .. n : wire'[i] = w[i]
  BY <1>3, <1>4, AppendProperties
<1>6. /\ sent' \in Seq(BeastFrame) /\ Len(sent') = m + 1
      /\ sent'[m + 1] = g /\ \A i \in 1 .. m : sent'[i] = s[i]
  BY <1>3, <1>4, AppendProperties
<1>7. ASSUME NEW i \in 1 .. n + 1
      PROVE  \E h \in Sendable[reader] : wire'[i] = Encoded(h) /\ sent'[m + 1 - (n + 1) + i] = Frame(h)
  <2>1. CASE i \in 1 .. n
    <3>1. PICK h \in Sendable[reader] : w[i] = Encoded(h) /\ s[m - n + i] = Frame(h)
      BY <2>1, <1>3 DEF OnWire
    <3>2. m - n + i \in 1 .. m /\ m + 1 - (n + 1) + i = m - n + i
      BY <2>1, <1>3
    <3> QED
      BY <2>1, <3>1, <3>2, <1>5, <1>6
  <2>2. CASE i = n + 1
    <3>1. m + 1 - (n + 1) + i = m + 1
      BY <2>2
    <3> QED
      BY <2>2, <3>1, <1>2, <1>5, <1>6
  <2> QED
    BY <2>1, <2>2
<1>8. n + 1 <= m + 1
  BY <1>3
<1>9. ASSUME NEW i \in 1 .. Len(wire')
      PROVE  \E h \in Sendable[reader'] : wire'[i] = Encoded(h) /\ sent'[Len(sent') - Len(wire') + i] = Frame(h)
  <2>1. i \in 1 .. n + 1
    BY <1>5
  <2>2. PICK h \in Sendable[reader] : wire'[i] = Encoded(h) /\ sent'[m + 1 - (n + 1) + i] = Frame(h)
    BY <2>1, <1>7
  <2>3. Len(sent') - Len(wire') + i = m + 1 - (n + 1) + i
    BY <1>5, <1>6
  <2>4. reader' = reader
    BY <1>4
  <2> QED
    BY <2>2, <2>3, <2>4, Zenon
<1>10. wire' \in Seq(Seq(Byte)) /\ sent' \in Seq(BeastFrame) /\ Len(wire') <= Len(sent') /\ pending' \in Seq(Byte)
  BY <1>5, <1>6, <1>8 DEF Send, OnWire
<1> QED
  BY <1>9, <1>10, Zenon DEF OnWire

(* Frames that are read leave the wire at its front.                       *)
LEMMA WireRead ==
  ASSUME ReaderTypes, OnWire, NEW r, NEW j \in 0 .. Len(wire), IsRest(r, j), r.pending \in Seq(Byte),
         wire' = r.rest, pending' = r.pending, UNCHANGED <<reader, sent>>
  PROVE  OnWire'
<1>1. PICK w \in Seq(Seq(Byte)), s \in Seq(BeastFrame), n \in Nat, m \in Nat :
        w = wire /\ s = sent /\ n = Len(w) /\ m = Len(s) /\ n <= m
  <2>1. Len(wire) \in Nat /\ Len(sent) \in Nat
    BY LenProperties DEF OnWire
  <2> QED
    BY <2>1 DEF OnWire
<1>2. wire' \in Seq(Seq(Byte)) /\ Len(wire') = n - j /\ \A i \in 1 .. n - j : wire'[i] = w[j + i]
  BY <1>1 DEF IsRest
<1>3. ASSUME NEW i \in 1 .. n - j
      PROVE  \E h \in Sendable[reader] : wire'[i] = Encoded(h) /\ s[m - (n - j) + i] = Frame(h)
  <2>1. j + i \in 1 .. n /\ m - n + (j + i) = m - (n - j) + i
    BY <1>1
  <2>2. PICK h \in Sendable[reader] : w[j + i] = Encoded(h) /\ s[m - n + (j + i)] = Frame(h)
    BY <2>1, <1>1 DEF OnWire
  <2> QED
    BY <2>1, <2>2, <1>2
<1>4. n - j <= m
  BY <1>1
<1>5. wire' \in Seq(Seq(Byte)) /\ pending' \in Seq(Byte) /\ sent' \in Seq(BeastFrame) /\ Len(wire') <= Len(sent')
  BY <1>1, <1>2, <1>4
<1>6. ASSUME NEW i \in 1 .. Len(wire')
      PROVE  \E h \in Sendable[reader'] : wire'[i] = Encoded(h) /\ sent'[Len(sent') - Len(wire') + i] = Frame(h)
  <2>1. i \in 1 .. n - j
    BY <1>2
  <2>2. PICK h \in Sendable[reader] : wire'[i] = Encoded(h) /\ s[m - (n - j) + i] = Frame(h)
    BY <2>1, <1>3
  <2>3. Len(sent') - Len(wire') + i = m - (n - j) + i /\ sent' = s
    BY <1>1, <1>2
  <2> QED
    BY <2>2, <2>3, Zenon
<1> QED
  BY <1>5, <1>6, Zenon DEF OnWire

(* When the wire is dropped it matches whatever was sent.                  *)
LEMMA WireDropped ==
  ASSUME wire' = <<>>, pending' = <<>>, sent' \in Seq(BeastFrame)
  PROVE  OnWire'
<1>1. Len(sent') \in Nat
  BY LenProperties
<1> QED
  BY <1>1 DEF OnWire

(* The invariant of the readers.                                           *)
ReadersInv == ReaderTypes /\ OnWire

(* What the assumptions say of the sizes of the reader at hand.            *)
LEMMA Constants ==
  /\ BufSize \in Nat /\ BufSize > 0
  /\ \A r \in Readers : MaxFrames[r] \in Nat /\ MaxFrames[r] > 0
BY ReadersAssumption

(* An empty buffer is full of bytes.                                       *)
LEMMA EmptyBufType == EmptyBuf \in Seq(Byte) /\ Len(EmptyBuf) = BufSize
<1>1. 0 \in Byte
  BY DEF Byte
<1>2. EmptyBuf \in [1 .. BufSize -> Byte]
  BY <1>1 DEF EmptyBuf
<1> QED
  BY <1>2, Constants, FunctionIsSequence

(* ReadersInv holds at first.                                              *)
LEMMA ReadersInit == Init => ReadersInv
<1> SUFFICES ASSUME Init PROVE ReadersInv
  OBVIOUS
<1>1. reader \in Readers /\ frames = <<>> /\ got = <<>> /\ uncut = <<>> /\ due = <<>> /\ offset = 0 /\ buf = EmptyBuf
  BY DEF Init
<1>2. frames \in Seq(BeastFrame) /\ Len(frames) = 0 /\ got \in Seq(BeastFrame) /\ uncut \in Seq(BeastFrame) /\ due \in Seq(BeastFrame)
  BY <1>1
<1>3. Len(frames) < MaxFrames[reader] /\ offset \in 0 .. BufSize
  <2>1. Len(frames) < MaxFrames[reader]
    <3>1. PICK m : m = MaxFrames[reader] /\ m \in Nat /\ m > 0
      BY <1>1, Constants
    <3> QED
      BY <3>1, <1>2
  <2>2. 0 \in 0 .. BufSize
    BY Constants
  <2> QED
    BY <1>1, <2>1, <2>2
<1>4. buf \in Seq(Byte) /\ Len(buf) = BufSize
  BY <1>1, EmptyBufType
<1>5. ReaderTypes
  BY <1>1, <1>2, <1>3, <1>4 DEF ReaderTypes
<1> QED
  BY <1>5, WireInit DEF ReadersInv

(* One turn of read_beast_frames: how much the buffer then holds, what is  *)
(* in it, and what is found there.                                         *)
LEMMA BatchParts ==
  ASSUME ReaderTypes, NEW x \in Seq(Byte), Room(offset + Len(x))
  PROVE  \E n \in 0 .. BufSize, b \in Seq(Byte), max \in Nat :
           /\ n = offset + Len(x) /\ b = Overwrite(buf, offset, x) /\ Len(b) = BufSize
           /\ \A i \in 1 .. offset : b[i] = buf[i]
           /\ \A i \in 1 .. Len(x) : b[offset + i] = x[i]
           /\ max = MaxFrames[reader] - Len(frames) /\ max > 0
<1>1. PICK o \in Nat, l \in Nat, m \in Nat, c \in Nat : o = offset /\ l = Len(x) /\ m = MaxFrames[reader] /\ c = Len(frames) /\ c < m
  <2>1. Len(x) \in Nat /\ Len(frames) \in Nat /\ offset \in Nat
    BY LenProperties, Constants DEF ReaderTypes
  <2>2. MaxFrames[reader] \in Nat
    BY Constants DEF ReaderTypes
  <2> QED
    BY <2>1, <2>2 DEF ReaderTypes
<1>2. o + l <= BufSize /\ o + l \in 0 .. BufSize
  BY <1>1, Constants DEF Room
<1>3. m - c \in Nat /\ m - c > 0
  BY <1>1
<1>4. o + Len(x) <= Len(buf)
  BY <1>1, <1>2 DEF ReaderTypes
<1>5. /\ Overwrite(buf, o, x) \in Seq(Byte) /\ Len(Overwrite(buf, o, x)) = BufSize
      /\ \A i \in 1 .. o : Overwrite(buf, o, x)[i] = buf[i]
      /\ \A i \in 1 .. Len(x) : Overwrite(buf, o, x)[o + i] = x[i]
  BY <1>4, OverwriteType DEF ReaderTypes
<1> QED
  BY <1>1, <1>2, <1>3, <1>5

(* The frames handed on stay, and more are added.                          *)
GotGrows == \E x \in Seq(BeastFrame) : IsSplit(got', got, x)

(* Handing nothing on is a case of GotGrows.                               *)
LEMMA GotStays ==
  ASSUME ReaderTypes, got' = got
  PROVE  GotGrows
<1>1. <<>> \in Seq(BeastFrame) /\ got = got \o <<>>
  BY DEF ReaderTypes
<1>2. got' = got \o <<>>
  BY <1>1, Zenon
<1> QED
  BY <1>1, <1>2, Zenon DEF GotGrows, IsSplit

(* A call that is over leaves well-typed state.                            *)
LEMMA LeaveTypes ==
  ASSUME ReaderTypes, Leave, reader' = reader, got' \in Seq(BeastFrame), uncut' \in Seq(BeastFrame)
  PROVE  ReaderTypes'
<1>1. frames' \in Seq(BeastFrame) /\ Len(frames') = 0 /\ offset' = 0 /\ buf' = EmptyBuf /\ due' \in Seq(BeastFrame)
  BY DEF Leave
<1> QED
  BY <1>1, EmptyBufType, Constants DEF ReaderTypes

(* Return hands on what it is given and leaves well-typed state.           *)
LEMMA ReturnTypes ==
  ASSUME ReaderTypes, NEW found \in Seq(BeastFrame), Return(found), reader' = reader
  PROVE  ReaderTypes' /\ GotGrows
<1>1. got' \in Seq(BeastFrame) /\ uncut' \in Seq(BeastFrame)
  BY Concat DEF Return, ReaderTypes
<1>2. GotGrows
  BY Zenon DEF Return, GotGrows, IsSplit
<1>3. ReaderTypes'
  BY <1>1, LeaveTypes DEF Return
<1> QED
  BY <1>2, <1>3

(* ReadersInv is kept by a turn of read_loop, which only adds to got,      *)
LEMMA TypesClientRead ==
  ASSUME ReadersInv, NEW r \in Reads, ClientRead(r)
  PROVE  ReadersInv' /\ GotGrows
<1>1. PICK p \in Seq(Byte), k \in 0 .. Len(wire), q \in Seq(Byte), j \in 0 .. Len(wire) : IsRead(r, p, k, q, j)
  BY ReadsAre DEF ReadersInv
<1>2. PICK x \in Seq(Byte) : x = r.bytes
  BY <1>1 DEF IsRead
<1>3. 0 + Len(x) <= Len(buf) /\ Len(x) \in Nat
  <2>1. Len(x) \in Nat /\ Len(x) <= BufSize
    BY <1>2, LenProperties DEF ClientRead
  <2> QED
    BY <2>1 DEF ReadersInv, ReaderTypes
<1>4. buf' \in Seq(Byte) /\ Len(buf') = BufSize
  <2>1. buf' = Overwrite(buf, 0, x)
    BY <1>2 DEF ClientRead
  <2> QED
    BY <1>3, <2>1, OverwriteType DEF ReadersInv, ReaderTypes
<1>5. got' \in Seq(BeastFrame) /\ GotGrows
  <2>1. ClientFrames(buf', Len(x)) \in Seq(BeastFrame)
    BY <1>3, <1>4, ClientFramesType
  <2>2. got' = got \o ClientFrames(buf', Len(x))
    BY <1>2 DEF ClientRead
  <2>3. GotGrows
    BY <2>1, <2>2, Zenon DEF GotGrows, IsSplit
  <2> QED
    BY <2>1, <2>2, <2>3, Concat DEF ReadersInv, ReaderTypes
<1>6. UNCHANGED <<reader, sent, offset, frames, due>> /\ wire' = r.rest /\ pending' = r.pending
  BY DEF ClientRead
<1>7. uncut' \in Seq(BeastFrame)
  <2>1. PICK a \in Seq(BeastFrame) : a = r.whole
    BY <1>1 DEF IsRead
  <2>2. a # <<>> => a[1] \in BeastFrame
    BY FirstAndRest
  <2>3. uncut \in Seq(BeastFrame)
    BY DEF ReadersInv, ReaderTypes
  <2>4. uncut' = IF pending = <<>> /\ a # <<>> THEN Append(uncut, a[1]) ELSE uncut
    BY <2>1 DEF ClientRead
  <2> QED
    BY <2>2, <2>3, <2>4, AppendProperties
<1>8. ReaderTypes'
  BY <1>4, <1>5, <1>6, <1>7 DEF ReadersInv, ReaderTypes
<1>9. j \in 0 .. Len(wire) /\ IsRest(r, j) /\ r.pending \in Seq(Byte)
  BY <1>1 DEF IsRead
<1>10. OnWire'
  BY <1>6, <1>9, WireRead DEF ReadersInv
<1> QED
  BY <1>5, <1>8, <1>10 DEF ReadersInv

(* by a read of read_beast_frames,                                         *)
LEMMA TypesBatchRead ==
  ASSUME ReadersInv, NEW r \in Reads, BatchRead(r)
  PROVE  ReadersInv' /\ GotGrows
<1>1. PICK p \in Seq(Byte), k \in 0 .. Len(wire), q \in Seq(Byte), j \in 0 .. Len(wire) : IsRead(r, p, k, q, j)
  BY ReadsAre DEF ReadersInv
<1>2. PICK x \in Seq(Byte) : x = r.bytes
  BY <1>1 DEF IsRead
<1>3. PICK n \in 0 .. BufSize, b \in Seq(Byte), max \in Nat :
        /\ n = offset + Len(x) /\ b = Overwrite(buf, offset, x) /\ Len(b) = BufSize
        /\ max = MaxFrames[reader] - Len(frames) /\ max > 0
  BY <1>2, BatchParts DEF BatchRead, ReadersInv
<1>4. PICK s : s = ScanFrames(b, n, max)
  OBVIOUS
<1>5. s.frames \in Seq(BeastFrame) /\ s.used \in 0 .. n
  BY <1>3, <1>4, ScanFramesAre
<1>6. PICK found \in Seq(BeastFrame) : found = frames \o s.frames
  BY <1>5, Concat DEF ReadersInv, ReaderTypes
<1>7. /\ wire' = r.rest /\ pending' = r.pending /\ reader' = reader /\ sent' = sent
      /\ IF Len(found) >= MaxFrames[reader]
         THEN Return(found) /\ lost' = TRUE
         ELSE /\ frames' = found
              /\ due' = due \o r.whole
              /\ buf' = Overwrite(b, 0, SubSeq(b, s.used + 1, n))
              /\ offset' = n - s.used
              /\ UNCHANGED <<got, uncut, lost>>
  BY <1>2, <1>3, <1>4, <1>6, Zenon DEF BatchRead
<1>8. OnWire'
  <2>1. j \in 0 .. Len(wire) /\ IsRest(r, j) /\ r.pending \in Seq(Byte)
    BY <1>1 DEF IsRead
  <2> QED
    BY <2>1, <1>7, WireRead DEF ReadersInv
<1>9. due \o r.whole \in Seq(BeastFrame)
  BY <1>1, Concat DEF IsRead, ReadersInv, ReaderTypes
<1>10. CASE Len(found) >= MaxFrames[reader]
  <2>1. ReaderTypes' /\ GotGrows
    BY <1>7, <1>10, ReturnTypes DEF ReadersInv
  <2> QED
    BY <2>1, <1>8 DEF ReadersInv
<1>11. CASE ~(Len(found) >= MaxFrames[reader])
  <2>1. PICK u \in 0 .. n : u = s.used
    BY <1>5
  <2>2. u + 1 \in Nat \ {0} /\ n \in 0 .. Len(b) /\ n - u \in 0 .. BufSize
    BY <1>3, Constants
  <2>3. PICK y \in Seq(Byte) : y = SubSeq(b, u + 1, n)
    BY <2>2, SubSeqType
  <2>4. Len(y) = n - u
    <3>1. Len(y) = IF u + 1 <= n THEN n - (u + 1) + 1 ELSE 0
      BY <2>2, <2>3, SubSeqType
    <3> QED
      BY <3>1, <1>3, Constants, SMTT(30)
  <2>5. 0 + Len(y) <= Len(b)
    BY <2>2, <2>4, <1>3
  <2>6. Overwrite(b, 0, y) \in Seq(Byte) /\ Len(Overwrite(b, 0, y)) = BufSize
    BY <2>5, <1>3, OverwriteType
  <2>7. buf' = Overwrite(b, 0, y) /\ offset' = n - u /\ frames' = found /\ got' = got /\ uncut' = uncut /\ due' = due \o r.whole
    BY <1>7, <1>11, <2>1, <2>3
  <2>8. Len(found) < MaxFrames[reader]
    <3>1. Len(found) \in Nat /\ MaxFrames[reader] \in Nat
      BY LenProperties, Constants DEF ReadersInv, ReaderTypes
    <3> QED
      BY <3>1, <1>11
  <2>9. ReaderTypes'
    BY <1>7, <1>9, <2>2, <2>6, <2>7, <2>8 DEF ReadersInv, ReaderTypes
  <2>10. GotGrows
    BY <2>7, GotStays DEF ReadersInv
  <2> QED
    BY <2>9, <2>10, <1>8 DEF ReadersInv
<1> QED
  BY <1>10, <1>11

(* by its end,                                                             *)
LEMMA TypesBatchEnd ==
  ASSUME ReadersInv, BatchEnd
  PROVE  ReadersInv' /\ GotGrows
<1>1. Return(frames) /\ UNCHANGED <<reader, wire, pending, sent>>
  BY DEF BatchEnd
<1>2. ReaderTypes' /\ GotGrows
  BY <1>1, ReturnTypes DEF ReadersInv, ReaderTypes
<1>3. OnWire'
  BY <1>1 DEF ReadersInv, OnWire
<1> QED
  BY <1>2, <1>3 DEF ReadersInv

(* by an error, which hands nothing on,                                    *)
LEMMA TypesBatchError ==
  ASSUME ReadersInv, BatchError
  PROVE  ReadersInv' /\ got' = got
<1>1. Leave /\ UNCHANGED <<reader, wire, pending, sent, got, uncut>>
  BY DEF BatchError
<1>2. got' \in Seq(BeastFrame) /\ uncut' \in Seq(BeastFrame)
  BY <1>1 DEF ReadersInv, ReaderTypes
<1>3. ReaderTypes'
  BY <1>1, <1>2, LeaveTypes DEF ReadersInv
<1>4. OnWire'
  BY <1>1 DEF ReadersInv, OnWire
<1> QED
  BY <1>1, <1>3, <1>4 DEF ReadersInv

(* by a sender,                                                            *)
LEMMA TypesSend ==
  ASSUME ReadersInv, NEW f \in Sendable[reader], Send(f)
  PROVE  ReadersInv'
<1>1. OnWire'
  BY WireSend DEF ReadersInv
<1>2. ReaderTypes'
  BY DEF Send, ReadersInv, ReaderTypes
<1> QED
  BY <1>1, <1>2 DEF ReadersInv

(* The reader is at rest while its program works.                          *)
Works ==
  \/ RecordNext \/ RecordWrite \/ RecordFails \/ RecordDone
  \/ CompareOn \/ ViewUpdate \/ ViewQuit
  \/ JsonCreate \/ JsonWrite \/ JsonRename \/ JsonFails
  \/ CsvHeader \/ CsvRows \/ CsvFails

(* by what a program does between two calls, which leaves the reader       *)
(* alone,                                                                  *)
LEMMA WorksKeep == Works => UNCHANGED vars
BY Zenon DEF Works, RecordNext, RecordWrite, RecordFails, RecordDone, CompareOn, ViewUpdate, ViewQuit,
   JsonCreate, JsonWrite, JsonRename, JsonFails, CsvHeader, CsvRows, CsvFails

(* by steps of nobody,                                                     *)
LEMMA ReadersKept == ReadersInv /\ UNCHANGED vars => ReadersInv'
BY DEF vars, ReadersInv, ReaderTypes, OnWire

(* and by the end of a window of compare, after which what was on the wire *)
(* was never sent.                                                         *)
LEMMA TypesCompareWindow == ReadersInv /\ CompareWindow => ReadersInv'
<1> SUFFICES ASSUME ReadersInv, CompareWindow PROVE ReadersInv'
  OBVIOUS
<1>1. /\ UNCHANGED <<reader, buf, offset, frames, got, uncut, due>>
      /\ wire' = <<>> /\ pending' = <<>> /\ sent' = SubSeq(sent, 1, Taken)
  BY DEF CompareWindow
<1>2. ReaderTypes'
  BY <1>1 DEF ReadersInv, ReaderTypes
<1>3. sent' \in Seq(BeastFrame)
  <2>1. PICK m \in Nat, n \in Nat : m = Len(sent) /\ n = Len(wire) /\ n <= m /\ sent \in Seq(BeastFrame)
    BY LenProperties DEF ReadersInv, OnWire
  <2>2. Taken \in 0 .. Len(sent)
    <3>1. m - n \in 0 .. m
      BY <2>1
    <3> QED
      BY <2>1, <3>1 DEF Taken
  <2> QED
    BY <1>1, <2>1, <2>2, PrefixType
<1>4. OnWire'
  BY <1>1, <1>3, WireDropped DEF ReadersInv, ReaderTypes
<1> QED
  BY <1>2, <1>4 DEF ReadersInv

(* ReadersInv is kept by every step.                                       *)
LEMMA ReadersNext == ReadersInv /\ [ClientsNext]_allVars => ReadersInv'
<1> SUFFICES ASSUME ReadersInv, [ClientsNext]_allVars PROVE ReadersInv'
  OBVIOUS
<1>1. CASE UNCHANGED allVars
  BY <1>1, ReadersKept DEF allVars
<1>2. CASE \E f \in Sendable[reader] : Send(f)
  BY <1>2, TypesSend
<1>3. CASE \E r \in Reads : ClientRead(r)
  BY <1>3, TypesClientRead
<1>4. CASE \E r \in Reads : Batch(r)
  BY <1>4, TypesBatchRead DEF Batch
<1>5. CASE Timeout
  BY <1>5, TypesBatchEnd DEF Timeout
<1>6. CASE ReadError
  BY <1>6, TypesBatchError DEF ReadError
<1>7. CASE CompareWindow
  BY <1>7, TypesCompareWindow
<1>8. CASE Works
  BY <1>8, WorksKeep, ReadersKept
<1> QED
  BY <1>1, <1>2, <1>3, <1>4, <1>5, <1>6, <1>7, <1>8, Zenon DEF ClientsNext, Works

(* ReadersInv always holds.                                                *)
LEMMA ReadersTyped == ClientsSpec => []ReadersInv
<1>1. ClientsInit => ReadersInv
  BY ReadersInit DEF ClientsInit
<1> QED
  BY <1>1, ReadersNext, PTL DEF ClientsSpec

(* A frame is parsed back, whatever its bytes are and whatever follows.    *)
THEOREM FramesSurvive == ClientsSpec => []RoundTrip
<1>1. ReadersInv => RoundTrip
  <2> SUFFICES ASSUME ReadersInv, NEW i \in DOMAIN wire
               PROVE  Parse(FlattenSeq(From(wire, i))) = sent[Len(sent) - Len(wire) + i]
    BY DEF RoundTrip, Taken
  <2>1. PICK w \in Seq(Seq(Byte)), n \in Nat : w = wire /\ n = Len(w) /\ i \in 1 .. n
    BY LenProperties DEF ReadersInv, OnWire
  <2>2. PICK f \in Sendable[reader] : w[i] = Encoded(f) /\ sent[Len(sent) - Len(wire) + i] = Frame(f)
    BY <2>1 DEF ReadersInv, OnWire
  <2>3. IsFrame(f) /\ Encoded(f) \in Seq(Byte)
    BY SendableFrames DEF ReadersInv, ReaderTypes
  <2>4. PICK q \in Seq(Seq(Byte)) : q = From(w, i)
    <3>1. i \in Nat \ {0}
      BY <2>1
    <3>2. From(w, i) \in Seq(Seq(Byte))
      BY <3>1, FromType
    <3> QED
      BY <3>2
  <2>5. q # <<>> /\ q[1] = w[i]
    <3>1. i \in Nat \ {0} /\ n \in 0 .. Len(w) /\ i <= n
      BY <2>1
    <3>2. q = SubSeq(w, i, n)
      BY <2>1, <2>4 DEF From
    <3>3. /\ Len(q) = IF i <= n THEN n - i + 1 ELSE 0
          /\ \A j \in 1 .. n - i + 1 : q[j] = w[i + j - 1]
      BY <3>1, <3>2, SubSeqType
    <3>4. 1 \in 1 .. n - i + 1 /\ i + 1 - 1 = i /\ n - i + 1 > 0
      BY <3>1
    <3> QED
      BY <3>1, <3>3, <3>4
  <2>6. Tail(q) \in Seq(Seq(Byte)) /\ q = <<Encoded(f)>> \o Tail(q)
    <3>1. Tail(q) \in Seq(Seq(Byte)) /\ q = <<q[1]>> \o Tail(q)
      BY <2>5, FirstAndRest
    <3> QED
      BY <3>1, <2>2, <2>5, Zenon
  <2>7. PICK t \in Seq(Byte) : t = FlattenSeq(Tail(q))
    BY <2>6, FlattenType
  <2>8. FlattenSeq(q) = Encoded(f) \o t
    <3>1. <<Encoded(f)>> \in Seq(Seq(Byte))
      BY <2>3
    <3>2. FlattenSeq(<<Encoded(f)>> \o Tail(q)) = FlattenSeq(<<Encoded(f)>>) \o FlattenSeq(Tail(q))
      BY <3>1, <2>6, FlattenConcat
    <3>3. FlattenSeq(<<Encoded(f)>>) = Encoded(f)
      BY <2>3, FlattenOne
    <3> QED
      BY <3>2, <3>3, <2>6, <2>7, Zenon
  <2>9. IsSplit(FlattenSeq(q), Encoded(f), t)
    BY <2>8, Zenon DEF IsSplit
  <2>10. Parse(FlattenSeq(q)) = Frame(f)
    BY <2>3, <2>9, ParseEncoded
  <2> QED
    BY <2>1, <2>2, <2>4, <2>10, Zenon
<1> QED
  BY <1>1, ReadersTyped, PTL

(* IsPreceded, by the elements.                                            *)
LEMMA Preceded ==
  ASSUME NEW S, NEW x \in S, NEW q \in Seq(S), NEW s, IsPreceded(s, x, q)
  PROVE  /\ s \in Seq(S) /\ Len(s) = Len(q) + 1 /\ s[1] = x
         /\ \A l \in 1 .. Len(q) : s[l + 1] = q[l]
<1>1. <<x>> \in Seq(S) /\ Len(<<x>>) = 1 /\ <<x>>[1] = x
  OBVIOUS
<1>2. s = <<x>> \o q
  BY Zenon DEF IsPreceded
<1>3. PICK h \in Seq(S) : h = <<x>> /\ Len(h) = 1 /\ h[1] = x
  BY <1>1
<1>4. /\ s \in Seq(S) /\ Len(s) = 1 + Len(q)
      /\ \A i \in 1 .. 1 : s[i] = h[i]
      /\ \A i \in 1 .. Len(q) : s[1 + i] = q[i]
  BY <1>2, <1>3, Concat
<1>5. PICK l \in Nat : l = Len(q)
  BY LenProperties
<1> QED
  BY <1>3, <1>4, <1>5

-----------------------------------------------------------------------------
(* Frames that came in one piece: read_beast_frames finds them.            *)

(* t is the end of s.                                                      *)
EndsIn(s, t) == Len(t) <= Len(s) /\ \A l \in 1 .. Len(t) : s[Len(s) - Len(t) + l] = t[l]

(* The end of what follows the first element is the end of the whole.      *)
LEMMA EndsAfter ==
  ASSUME NEW S, NEW x \in S, NEW q \in Seq(S), NEW t \in Seq(S), NEW s, IsPreceded(s, x, q), EndsIn(q, t)
  PROVE  EndsIn(s, t)
<1>1. s \in Seq(S) /\ Len(s) = Len(q) + 1 /\ \A l \in 1 .. Len(q) : s[l + 1] = q[l]
  BY Preceded
<1>2. PICK m \in Nat, n \in Nat : m = Len(t) /\ n = Len(q) /\ m <= n
  BY LenProperties DEF EndsIn
<1>3. \A l \in 1 .. m : q[n - m + l] = t[l]
  BY <1>2 DEF EndsIn
<1>4. ASSUME NEW l \in 1 .. m PROVE s[n + 1 - m + l] = t[l]
  <2>1. n - m + l \in 1 .. n /\ n - m + l + 1 = n + 1 - m + l
    BY <1>2
  <2> QED
    BY <2>1, <1>1, <1>2, <1>3
<1> QED
  BY <1>1, <1>2, <1>4 DEF EndsIn

(* A scan that comes to an ESC goes on as a scan that begins there.        *)
LEMMA ScanPasses ==
  ASSUME NEW b \in Seq(Byte), NEW n \in 0 .. Len(b), NEW r, IsScan(r, b, n),
         NEW p \in 1 .. n, b[p] = ESC, NEW i \in 1 .. p
  PROVE  EndsIn(r[i], r[p])
<1> DEFINE S == {d \in Nat : \A j \in 1 .. p : p - j <= d => EndsIn(r[j], r[p])}
<1>1. n \in Nat /\ p \in Nat \ {0} /\ p <= n
  OBVIOUS
<1>2. \A j \in Nat \ {0} : r[j] \in Seq(Finds(n))
  BY DEF IsScan
<1>3. EndsIn(r[p], r[p])
  <2>1. PICK m \in Nat : m = Len(r[p])
    BY <1>1, <1>2, LenProperties
  <2>2. \A l \in 1 .. m : m - m + l = l
    OBVIOUS
  <2> QED
    BY <2>1, <2>2 DEF EndsIn
<1>4. 0 \in S
  <2>1. ASSUME NEW j \in 1 .. p, p - j <= 0 PROVE EndsIn(r[j], r[p])
    <3>1. j = p
      BY <2>1, <1>1
    <3> QED
      BY <3>1, <1>3
  <2> QED
    BY <2>1
<1>5. ASSUME NEW d \in Nat, d \in S PROVE d + 1 \in S
  <2>1. ASSUME NEW j \in 1 .. p, p - j <= d + 1, j # p PROVE EndsIn(r[j], r[p])
    <3>1. j \in 1 .. n /\ j + 1 \in 1 .. p /\ p - (j + 1) <= d
      BY <2>1, <1>1
    <3>2. CASE At(b, j) = NoFrame
      <4>1. r[j] = r[j + 1]
        BY <3>1, <3>2 DEF IsScan
      <4>2. EndsIn(r[j + 1], r[p])
        BY <3>1, <1>5
      <4> QED
        BY <4>1, <4>2
    <3>3. CASE At(b, j) # NoFrame
      <4>1. PICK k \in Nat : k = NextEsc(b, j + 1, n) /\ k \in j + 1 .. p
        <5>1. PICK i1 \in Nat : i1 = j + 1 /\ i1 <= n + 1 /\ p \in i1 .. n
          BY <3>1, <1>1
        <5>2. NextEsc(b, i1, n) \in i1 .. n + 1 /\ NextEsc(b, i1, n) <= p
          BY <5>1, <1>1, NextEscIs
        <5>3. NextEsc(b, i1, n) \in Nat /\ NextEsc(b, i1, n) \in i1 .. p
          BY <5>1, <5>2, <1>1
        <5> QED
          BY <5>1, <5>3
      <4>2. IsPreceded(r[j], FindAt(b, n, j), r[k])
        BY <3>1, <3>3, <4>1 DEF IsScan
      <4>3. FindAt(b, n, j) \in Finds(n)
        BY <3>1, <3>3, FindType
      <4>4. k \in 1 .. p /\ p - k <= d /\ k \in Nat \ {0}
        BY <4>1, <3>1
      <4>5. EndsIn(r[k], r[p])
        BY <4>4, <1>5
      <4>6. r[k] \in Seq(Finds(n)) /\ r[p] \in Seq(Finds(n))
        BY <4>4, <1>1, <1>2
      <4> QED
        BY <4>2, <4>3, <4>5, <4>6, EndsAfter, Zenon
    <3> QED
      BY <3>2, <3>3
  <2>2. \A j \in 1 .. p : p - j <= d + 1 => EndsIn(r[j], r[p])
    BY <2>1, <1>3
  <2> QED
    BY <2>2
<1>6. Nat \subseteq S
  <2> HIDE DEF S
  <2> QED
    BY <1>4, <1>5, Induction
<1>7. PICK d \in Nat : d = p - i
  BY <1>1
<1>8. d \in S
  BY <1>6
<1> QED
  BY <1>7, <1>8

(* The k frames fs start at pos, which ascends, and an ESC is there.       *)
AreAt(pos, k, b, n, fs) ==
  /\ \A m \in 1 .. k : /\ pos[m] \in 1 .. n /\ b[pos[m]] = ESC
                       /\ At(b, pos[m]) = fs[m] /\ fs[m] \in BeastFrame
  /\ \A l, m \in 1 .. k : l < m => pos[l] < pos[m]

(* What is found where a frame starts, seen from where the scan starts.    *)
LEMMA FoundThere ==
  ASSUME NEW b \in Seq(Byte), NEW n \in 0 .. Len(b), NEW r, IsScan(r, b, n),
         NEW p \in 1 .. n, b[p] = ESC, At(b, p) # NoFrame
  PROVE  \E a \in 1 .. Len(r[1]) :
           /\ r[1][a].frame = At(b, p) /\ a = Len(r[1]) - Len(r[p]) + 1
           /\ \A q \in 1 .. n : b[q] = ESC /\ p < q => Len(r[q]) < Len(r[p])
<1>1. n \in Nat /\ p \in Nat \ {0} /\ p <= n /\ 1 \in 1 .. p /\ 1 \in Nat \ {0}
  OBVIOUS
<1>2. \A j \in Nat \ {0} : r[j] \in Seq(Finds(n))
  BY DEF IsScan
<1>3. EndsIn(r[1], r[p])
  BY <1>1, ScanPasses
<1>4. PICK k \in Nat : k = NextEsc(b, p + 1, n) /\ k \in p + 1 .. n + 1
                       /\ \A q \in p + 1 .. n : b[q] = ESC => k <= q
  <2>1. PICK i1 \in Nat : i1 = p + 1 /\ i1 <= n + 1
    BY <1>1
  <2>2. /\ NextEsc(b, i1, n) \in i1 .. n + 1
        /\ \A q \in i1 .. n : b[q] = ESC => NextEsc(b, i1, n) <= q
    BY <2>1, <1>1, NextEscIs
  <2>3. NextEsc(b, i1, n) \in Nat
    BY <2>1, <2>2, <1>1
  <2> QED
    BY <2>1, <2>2, <2>3
<1>5. PICK x \in Finds(n) : x = FindAt(b, n, p)
  BY FindType
<1>6. IsPreceded(r[p], x, r[k])
  BY <1>1, <1>4, <1>5 DEF IsScan
<1>7. r[k] \in Seq(Finds(n)) /\ r[p] \in Seq(Finds(n)) /\ r[1] \in Seq(Finds(n))
  <2>1. k \in Nat \ {0}
    BY <1>4, <1>1
  <2> QED
    BY <2>1, <1>1, <1>2
<1>8. Len(r[p]) = Len(r[k]) + 1 /\ r[p][1] = x
  BY <1>6, <1>7, Preceded
<1>9. PICK l \in Nat, m \in Nat, o \in Nat : l = Len(r[1]) /\ m = Len(r[p]) /\ o = Len(r[k]) /\ m = o + 1 /\ m <= l
  BY <1>3, <1>7, <1>8, LenProperties DEF EndsIn
<1>10. r[1][l - m + 1] = x /\ l - m + 1 \in 1 .. l
  <2>a. \A u, v, w \in Nat : v = w + 1 /\ v <= u => 1 \in 1 .. v /\ u - v + 1 \in 1 .. u
    OBVIOUS
  <2>1. 1 \in 1 .. m /\ l - m + 1 \in 1 .. l
    BY <2>a, <1>9, Zenon
  <2>2. r[1][l - m + 1] = r[p][1]
    BY <2>1, <1>3, <1>9 DEF EndsIn
  <2> QED
    BY <2>1, <2>2, <1>8
<1>11. ASSUME NEW q \in 1 .. n, b[q] = ESC, p < q PROVE Len(r[q]) < m
  <2>1. q \in p + 1 .. n /\ q \in Nat \ {0}
    BY <1>11, <1>1
  <2>2. k \in 1 .. q
    BY <2>1, <1>11, <1>4, <1>1
  <2>3. EndsIn(r[k], r[q])
    BY <1>11, <2>2, ScanPasses
  <2>4. PICK c \in Nat : c = Len(r[q])
    BY <2>1, <1>2, LenProperties
  <2>5. c <= o
    BY <2>3, <2>4, <1>9 DEF EndsIn
  <2> QED
    BY <2>4, <2>5, <1>9
<1>12. x.frame = At(b, p)
  BY <1>5 DEF FindAt
<1> QED
  BY <1>9, <1>10, <1>11, <1>12

(* All of them are found, in order.                                        *)
LEMMA FoundAll ==
  ASSUME NEW b \in Seq(Byte), NEW n \in 0 .. Len(b), NEW k \in Nat, NEW pos, NEW fs, DOMAIN fs = 1 .. k,
         AreAt(pos, k, b, n, fs),
         NEW s \in Seq(BeastFrame), Len(s) = Len(Found(b, n)), \A i \in 1 .. Len(s) : s[i] = Found(b, n)[i].frame
  PROVE  Selection(fs, s)
<1>1. PICK r : IsScan(r, b, n) /\ Found(b, n) = r[1]
  BY FoundBySteps
<1>2. PICK l \in Nat : l = Len(s) /\ DOMAIN s = 1 .. l /\ l = Len(r[1])
  BY <1>1, LenProperties
<1> DEFINE a(m) == l - Len(r[pos[m]]) + 1
           at == [m \in 1 .. k |-> a(m)]
<1>3. ASSUME NEW m \in 1 .. k
      PROVE  /\ a(m) \in 1 .. l /\ s[a(m)] = fs[m] /\ Len(r[pos[m]]) \in Nat
             /\ \A j \in 1 .. k : m < j => Len(r[pos[j]]) < Len(r[pos[m]])
  <2>1. PICK p \in 1 .. n : p = pos[m] /\ b[p] = ESC /\ At(b, p) = fs[m] /\ fs[m] # NoFrame
    BY CodecAssumption DEF AreAt
  <2>2. PICK i \in 1 .. l : /\ r[1][i].frame = At(b, p) /\ i = l - Len(r[p]) + 1
                            /\ \A q \in 1 .. n : b[q] = ESC /\ p < q => Len(r[q]) < Len(r[p])
    <3>1. At(b, p) # NoFrame
      BY <2>1
    <3>2. PICK i \in 1 .. Len(r[1]) :
            /\ r[1][i].frame = At(b, p) /\ i = Len(r[1]) - Len(r[p]) + 1
            /\ \A q \in 1 .. n : b[q] = ESC /\ p < q => Len(r[q]) < Len(r[p])
      BY <1>1, <2>1, <3>1, FoundThere
    <3>3. i \in 1 .. l /\ i = l - Len(r[p]) + 1
      BY <3>2, <1>2
    <3> QED
      BY <3>2, <3>3, Zenon
  <2>3. s[i] = fs[m]
    BY <2>1, <2>2, <1>1, <1>2
  <2>4. ASSUME NEW j \in 1 .. k, m < j PROVE Len(r[pos[j]]) < Len(r[p])
    <3>1. pos[j] \in 1 .. n /\ b[pos[j]] = ESC /\ p < pos[j]
      BY <2>1, <2>4 DEF AreAt
    <3> QED
      BY <3>1, <2>2
  <2>5. Len(r[p]) \in Nat
    <3>1. p \in Nat \ {0}
      OBVIOUS
    <3> QED
      BY <3>1, <1>1, LenProperties DEF IsScan
  <2> QED
    BY <2>1, <2>2, <2>3, <2>4, <2>5
<1>4. at \in [1 .. k -> 1 .. l] /\ \A m \in 1 .. k : at[m] = a(m)
  BY <1>3
<1>5. ASSUME NEW m \in 1 .. k, NEW j \in 1 .. k, m < j PROVE at[m] < at[j]
  <2>1. PICK u \in Nat, v \in Nat : u = Len(r[pos[m]]) /\ v = Len(r[pos[j]])
    BY <1>3
  <2>2. v < u
    BY <1>3, <1>5, <2>1
  <2>3. l - u + 1 < l - v + 1
    BY <2>2
  <2> QED
    BY <2>1, <2>3, <1>4
<1>6. \A m \in 1 .. k : fs[m] = s[at[m]]
  BY <1>3, <1>4
<1> HIDE DEF a, at
<1> QED
  BY <1>2, <1>4, <1>5, <1>6 DEF Selection

(* Selections of a sequence.                                               *)

(* A sequence is a selection of itself.                                    *)
LEMMA SelectionAll ==
  ASSUME NEW S, NEW s \in Seq(S)
  PROVE  Selection(s, s)
<1> DEFINE at == [i \in DOMAIN s |-> i]
<1>1. at \in [DOMAIN s -> DOMAIN s] /\ \A i \in DOMAIN s : at[i] = i
  OBVIOUS
<1> HIDE DEF at
<1> QED
  BY <1>1 DEF Selection

(* Nothing is a selection of anything.                                     *)
LEMMA SelectionNone ==
  ASSUME NEW S, NEW t \in Seq(S)
  PROVE  Selection(<<>>, t)
<1> DEFINE at == [i \in DOMAIN <<>> |-> i]
<1>1. DOMAIN <<>> = {}
  OBVIOUS
<1>2. at \in [DOMAIN <<>> -> DOMAIN t]
  BY <1>1
<1> HIDE DEF at
<1> QED
  BY <1>1, <1>2 DEF Selection

(* Selections of two parts make one of the whole.                          *)
LEMMA SelectionJoin ==
  ASSUME NEW S, NEW s \in Seq(S), NEW t \in Seq(S), NEW u \in Seq(S), NEW v \in Seq(S), Selection(s, t), Selection(u, v)
  PROVE  Selection(s \o u, t \o v)
<1>1. PICK at \in [DOMAIN s -> DOMAIN t] :
        /\ \A i \in DOMAIN s : s[i] = t[at[i]]
        /\ \A i, j \in DOMAIN s : i < j => at[i] < at[j]
  BY DEF Selection
<1>2. PICK k \in Nat, l \in Nat, m \in Nat, n \in Nat : k = Len(s) /\ l = Len(t) /\ m = Len(u) /\ n = Len(v)
  BY LenProperties
<1>3. DOMAIN s = 1 .. k /\ DOMAIN t = 1 .. l /\ DOMAIN u = 1 .. m /\ DOMAIN v = 1 .. n
  BY <1>2, LenProperties
<1>c. PICK bt \in [1 .. m -> 1 .. n] :
        /\ \A i \in 1 .. m : u[i] = v[bt[i]]
        /\ \A i, j \in 1 .. m : i < j => bt[i] < bt[j]
  BY <1>3 DEF Selection
<1>a. PICK x \in Seq(S) : x = s \o u
  BY Concat
<1>b. PICK y \in Seq(S) : y = t \o v
  BY Concat
<1>4. x = s \o u /\ Len(x) = k + m /\ (\A i \in 1 .. k : x[i] = s[i]) /\ \A i \in 1 .. m : x[k + i] = u[i]
  BY <1>2, <1>a, Concat
<1>5. y = t \o v /\ Len(y) = l + n /\ (\A i \in 1 .. l : y[i] = t[i]) /\ \A i \in 1 .. n : y[l + i] = v[i]
  BY <1>2, <1>b, Concat
<1>6. DOMAIN x = 1 .. k + m /\ DOMAIN y = 1 .. l + n
  BY <1>4, <1>5, LenProperties
<1> DEFINE to == [i \in 1 .. k + m |-> IF i <= k THEN at[i] ELSE l + bt[i - k]]
<1>7. ASSUME NEW i \in 1 .. k PROVE to[i] = at[i] /\ at[i] \in 1 .. l /\ x[i] = y[at[i]] /\ i \in 1 .. k + m
  <2>1. i \in 1 .. k + m /\ i <= k
    BY <1>2
  <2>2. to[i] = at[i]
    BY <2>1
  <2>3. at[i] \in 1 .. l /\ s[i] = t[at[i]]
    BY <1>1, <1>3
  <2>4. x[i] = y[at[i]]
    BY <2>3, <1>4, <1>5, Zenon
  <2> QED
    BY <2>1, <2>2, <2>3, <2>4
<1>8. ASSUME NEW i \in 1 .. m
      PROVE  to[k + i] = l + bt[i] /\ bt[i] \in 1 .. n /\ x[k + i] = y[l + bt[i]] /\ k + i \in 1 .. k + m
  <2>1. k + i \in 1 .. k + m /\ ~(k + i <= k) /\ k + i - k = i
    BY <1>2
  <2>2. to[k + i] = l + bt[i]
    BY <2>1
  <2>3. bt[i] \in 1 .. n /\ u[i] = v[bt[i]]
    BY <1>c
  <2>4. x[k + i] = y[l + bt[i]]
    BY <2>3, <1>4, <1>5, Zenon
  <2> QED
    BY <2>1, <2>2, <2>3, <2>4
<1> HIDE DEF to
<1>9. ASSUME NEW i \in 1 .. k + m
      PROVE  i \in 1 .. k \/ \E j \in 1 .. m : i = k + j
  <2>1. i - k \in 1 .. m \/ i \in 1 .. k
    OBVIOUS
  <2>2. i = k + (i - k)
    OBVIOUS
  <2> QED
    BY <2>1, <2>2
<1>10. ASSUME NEW i \in 1 .. k + m PROVE to[i] \in 1 .. l + n /\ x[i] = y[to[i]]
  <2>1. CASE i \in 1 .. k
    <3>1. to[i] = at[i] /\ at[i] \in 1 .. l /\ x[i] = y[at[i]]
      BY <2>1, <1>7
    <3>2. at[i] \in 1 .. l + n
      BY <3>1, <1>2
    <3> QED
      BY <3>1, <3>2, Zenon
  <2>2. ASSUME NEW j \in 1 .. m, i = k + j PROVE to[i] \in 1 .. l + n /\ x[i] = y[to[i]]
    <3>1. to[k + j] = l + bt[j] /\ bt[j] \in 1 .. n /\ x[k + j] = y[l + bt[j]]
      BY <1>8
    <3>2. to[i] = l + bt[j] /\ x[i] = y[l + bt[j]]
      BY <2>2, <3>1, Zenon
    <3>3. l + bt[j] \in 1 .. l + n
      BY <3>1, <1>2
    <3> QED
      BY <3>2, <3>3, Zenon
  <2> QED
    BY <2>1, <2>2, <1>9
<1>11. ASSUME NEW i \in 1 .. k + m, NEW j \in 1 .. k + m, i < j PROVE to[i] < to[j]
  <2>1. CASE i \in 1 .. k /\ j \in 1 .. k
    BY <2>1, <1>1, <1>3, <1>7, <1>11
  <2>2. ASSUME i \in 1 .. k, NEW h \in 1 .. m, j = k + h PROVE to[i] < to[j]
    <3>1. to[i] \in 1 .. l /\ to[j] = l + bt[h] /\ bt[h] \in 1 .. n
      BY <2>2, <1>7, <1>8
    <3>2. PICK c \in Nat, d \in Nat : c = to[i] /\ d = bt[h] /\ c <= l /\ d > 0
      BY <3>1, <1>2
    <3>3. c < l + d
      BY <3>2, <1>2
    <3> QED
      BY <3>1, <3>2, <3>3, Zenon
  <2>3. ASSUME NEW g \in 1 .. m, i = k + g, NEW h \in 1 .. m, j = k + h PROVE to[i] < to[j]
    <3>1. to[i] = l + bt[g] /\ to[j] = l + bt[h] /\ bt[g] \in 1 .. n /\ bt[h] \in 1 .. n
      BY <2>3, <1>8, Zenon
    <3>2. g < h
      BY <2>3, <1>2, <1>11
    <3>3. PICK c \in Nat, d \in Nat : c = bt[g] /\ d = bt[h] /\ c < d
      BY <3>1, <3>2, <1>c
    <3>4. l + c < l + d
      BY <3>3, <1>2
    <3> QED
      BY <3>1, <3>3, <3>4, Zenon
  <2>4. i \in 1 .. k \/ j \notin 1 .. k
    BY <1>11
  <2> QED
    BY <2>1, <2>2, <2>3, <2>4, <1>9
<1>12. to \in [1 .. k + m -> 1 .. l + n]
  BY <1>10 DEF to
<1>13. Selection(x, y)
  BY <1>6, <1>10, <1>11, <1>12 DEF Selection
<1> QED
  BY <1>4, <1>5, <1>13

(* It is one of any longer sequence too.                                   *)
LEMMA SelectionOfMore ==
  ASSUME NEW S, NEW s \in Seq(S), NEW t \in Seq(S), NEW v \in Seq(S), Selection(s, t)
  PROVE  Selection(s, t \o v)
<1>0. <<>> \in Seq(S)
  OBVIOUS
<1>1. PICK u \in Seq(S) : u = <<>>
  BY <1>0, Zenon
<1>2. Selection(u, v)
  BY <1>1, SelectionNone
<1>3. Selection(s \o u, t \o v)
  BY <1>2, SelectionJoin
<1>4. s \o u = s
  BY <1>1
<1> QED
  BY <1>3, <1>4

-----------------------------------------------------------------------------
(* Frames that came in one piece arrive.                                   *)

(* What is known of the frames on the wire.                                *)
LEMMA WireFrames ==
  ASSUME ReadersInv, NEW m \in 1 .. Len(wire)
  PROVE  \E f : /\ IsFrame(f) /\ wire[m] = Encoded(f) /\ sent[Taken + m] = Frame(f)
                /\ Frame(f) \in BeastFrame
                /\ wire[m] \in Seq(Byte) /\ Len(wire[m]) \in Nat /\ Len(wire[m]) > 2 /\ wire[m][1] = ESC
<1>1. PICK f \in Sendable[reader] : wire[m] = Encoded(f) /\ sent[Taken + m] = Frame(f)
  BY DEF ReadersInv, OnWire, Taken
<1>2. IsFrame(f) /\ Frame(f) \in BeastFrame
  BY SendableFrames DEF ReadersInv, ReaderTypes
<1>3. PICK h \in Seq(Byte), e \in Seq(Byte) :
        /\ IsSplit(Encoded(f), h, e) /\ Len(h) = HeaderLen /\ h[1] = ESC
        /\ Encoded(f) \in Seq(Byte) /\ Len(Encoded(f)) = HeaderLen + Len(e)
  BY <1>2, EncodedParts
<1>4. PICK l \in Nat, n \in Nat : l = HeaderLen /\ l > 2 /\ n = Len(e)
  BY LenProperties, CodecAssumption
<1>5. l + n \in Nat /\ l + n > 2 /\ 1 \in 1 .. l
  BY <1>4
<1>6. Encoded(f)[1] = ESC
  <2>1. \A i \in 1 .. Len(h) : (h \o e)[i] = h[i]
    BY Concat
  <2>2. (h \o e)[1] = h[1]
    BY <2>1, <1>3, <1>4, <1>5
  <2> QED
    BY <2>2, <1>3, Zenon DEF IsSplit
<1> QED
  BY <1>1, <1>2, <1>3, <1>4, <1>5, <1>6

(* Of the n bytes of b the last are those of the first k frames on the     *)
(* wire and then some more.                                                *)
IsFilled(b, n, o, k) == HasFirst(b, o, wire, k) /\ o + Len(Bytes(wire, k)) <= n

(* A buffer filled with frames has them at their starts.                   *)
LEMMA FramesAreAt ==
  ASSUME ReadersInv, NEW k \in 0 .. Len(wire), NEW b \in Seq(Byte), NEW n \in 0 .. Len(b), NEW o \in Nat,
         IsFilled(b, n, o, k), NEW fs, \A i \in 1 .. k : fs[i] = sent[Taken + i]
  PROVE  \E pos : AreAt(pos, k, b, n, fs)
<1>1. PICK w \in Seq(Seq(Byte)), h \in Nat, g \in Nat :
        w = wire /\ h = Len(b) /\ n <= h /\ k \in 0 .. Len(w) /\ g = Len(Bytes(w, k)) /\ o + g <= n
  <2>1. wire \in Seq(Seq(Byte)) /\ Len(b) \in Nat
    BY LenProperties DEF ReadersInv, OnWire
  <2>2. Len(Bytes(wire, k)) \in Nat
    BY <2>1, BytesType
  <2> QED
    BY <2>1, <2>2 DEF IsFilled
<1>2. PICK pos : /\ pos \in [1 .. k + 1 -> Nat]
                 /\ IsLayout(pos, b, o, w, k) /\ pos[k + 1] = o + 1 + Len(Bytes(w, k))
  <2>1. HasFirst(b, o, w, k)
    BY <1>1 DEF IsFilled
  <2>2. w \in Seq(Seq(Byte)) /\ k \in 0 .. Len(w) /\ o \in Nat
    BY <1>1
  <2> QED
    BY <2>1, <2>2, Layout, ZenonT(30)
<1>3. ASSUME NEW m \in 1 .. k
      PROVE  \E f : /\ IsFrame(f) /\ w[m] = Encoded(f) /\ fs[m] = Frame(f) /\ Frame(f) \in BeastFrame
                    /\ w[m] \in Seq(Byte) /\ Len(w[m]) \in Nat /\ Len(w[m]) > 2 /\ w[m][1] = ESC
  <2>1. m \in 1 .. Len(wire)
    BY <1>1
  <2> QED
    BY <2>1, <1>1, WireFrames
<1>4. pos[k + 1] = o + 1 + g /\ \A m \in 1 .. k + 1 : pos[m] \in Nat \ {0}
  BY <1>1, <1>2 DEF IsLayout
<1>5. ASSUME NEW m \in 1 .. k
      PROVE  /\ pos[m + 1] = pos[m] + Len(w[m]) /\ Holds(b, pos[m], w[m])
             /\ pos[m] \in Nat \ {0} /\ pos[m + 1] \in Nat \ {0} /\ pos[m] < pos[m + 1]
  <2>1. pos[m + 1] = pos[m] + Len(w[m]) /\ Holds(b, pos[m], w[m])
    BY <1>2 DEF IsLayout
  <2>2. m \in 1 .. k + 1 /\ m + 1 \in 1 .. k + 1
    OBVIOUS
  <2>3. pos[m] \in Nat \ {0} /\ pos[m + 1] \in Nat \ {0}
    BY <2>2, <1>4
  <2>4. Len(w[m]) \in Nat /\ Len(w[m]) > 2
    BY <1>3
  <2> QED
    BY <2>1, <2>3, <2>4, SMTT(30)
<1>6. \A l, m \in 1 .. k + 1 : l < m => pos[l] < pos[m]
  <2>1. \A m \in 1 .. k + 1 : pos[m] \in Nat
    BY <1>4
  <2>2. \A m \in 1 .. k : pos[m] < pos[m + 1]
    BY <1>5
  <2>3. k \in Nat
    BY <1>1
  <2> QED
    BY <2>1, <2>2, <2>3, StepsAscend
<1>7. ASSUME NEW m \in 1 .. k PROVE pos[m] \in 1 .. n /\ pos[m + 1] \in 1 .. n + 1
  <2>1. m \in 1 .. k + 1 /\ m + 1 \in 1 .. k + 1 /\ k + 1 \in 1 .. k + 1 /\ m < k + 1
        /\ (m + 1 = k + 1 \/ m + 1 < k + 1)
    OBVIOUS
  <2>2. pos[m] \in Nat \ {0} /\ pos[m + 1] \in Nat \ {0} /\ pos[k + 1] \in Nat
    BY <2>1, <1>4
  <2>3. pos[m] < pos[k + 1] /\ pos[m] < pos[m + 1] /\ (pos[m + 1] = pos[k + 1] \/ pos[m + 1] < pos[k + 1])
    BY <2>1, <1>5, <1>6
  <2>4. \A x \in Nat \ {0}, y \in Nat \ {0}, z \in Nat :
          x < z /\ x < y /\ (y = z \/ y < z) /\ z = o + 1 + g => x \in 1 .. n /\ y \in 1 .. n + 1
    BY <1>1
  <2> QED
    BY <2>2, <2>3, <2>4, <1>4, Zenon
<1>8. ASSUME NEW m \in 1 .. k PROVE b[pos[m]] = ESC /\ At(b, pos[m]) = fs[m] /\ fs[m] \in BeastFrame
  <2>1. PICK f : /\ IsFrame(f) /\ w[m] = Encoded(f) /\ fs[m] = Frame(f) /\ Frame(f) \in BeastFrame
                 /\ w[m] \in Seq(Byte) /\ Len(w[m]) \in Nat /\ Len(w[m]) > 2 /\ w[m][1] = ESC
    BY <1>3
  <2>2. PICK e \in Seq(Byte), l \in Nat, p \in Nat \ {0} : e = w[m] /\ l = Len(e) /\ p = pos[m] /\ l > 2
    BY <2>1, <1>5
  <2>3. p + l \in 1 .. n + 1
    BY <2>2, <1>5, <1>7
  <2>4. p + Len(e) - 1 <= Len(b)
    <3>1. p + l - 1 <= h
      BY <2>3, <1>1
    <3> QED
      BY <3>1, <2>2, <1>1
  <2>5. PICK t \in Seq(Byte) : IsSplit(From(b, p), e, t)
    BY <2>2, <2>4, <1>5, SplitThere
  <2>6. At(b, p) = Frame(f)
    <3>1. IsSplit(From(b, p), Encoded(f), t)
      BY <2>1, <2>2, <2>5, Zenon
    <3> QED
      BY <3>1, <2>1, ParseEncoded DEF At
  <2>7. b[p] = e[1]
    <3>1. 1 \in 1 .. Len(e) /\ p + 1 - 1 = p
      BY <2>2
    <3>2. b[p + 1 - 1] = e[1]
      BY <3>1, <2>2, <1>5 DEF Holds
    <3> QED
      BY <3>1, <3>2
  <2> QED
    BY <2>1, <2>2, <2>6, <2>7
<1>9. \A l, m \in 1 .. k : l < m => pos[l] < pos[m]
  BY <1>6
<1>10. AreAt(pos, k, b, n, fs)
  BY <1>7, <1>8, <1>9 DEF AreAt
<1> QED
  BY <1>10

(* Where the middle of three parts is.                                     *)
LEMMA MiddleOfThree ==
  ASSUME NEW p \in Seq(Byte), NEW y \in Seq(Byte), NEW q \in Seq(Byte), NEW x, x = (p \o y) \o q
  PROVE  Len(x) = Len(p) + Len(y) + Len(q) /\ \A i \in 1 .. Len(y) : x[Len(p) + i] = y[i]
<1>1. PICK z \in Seq(Byte) : z = p \o y /\ Len(z) = Len(p) + Len(y) /\ \A i \in 1 .. Len(y) : z[Len(p) + i] = y[i]
  <2>1. /\ p \o y \in Seq(Byte) /\ Len(p \o y) = Len(p) + Len(y)
        /\ \A i \in 1 .. Len(y) : (p \o y)[Len(p) + i] = y[i]
    BY Concat
  <2> QED
    BY <2>1, Zenon
<1>2. Len(x) = Len(z) + Len(q) /\ \A i \in 1 .. Len(z) : x[i] = z[i]
  BY <1>1, Concat
<1>3. Len(p) \in Nat /\ Len(y) \in Nat
  BY LenProperties
<1>4. \A c, d \in Nat : \A i \in 1 .. d : c + i \in 1 .. c + d
  OBVIOUS
<1>5. ASSUME NEW i \in 1 .. Len(y) PROVE x[Len(p) + i] = y[i]
  <2>1. Len(p) + i \in 1 .. Len(z)
    BY <1>1, <1>3, <1>4, Zenon
  <2> QED
    BY <2>1, <1>1, <1>2, Zenon
<1> QED
  BY <1>1, <1>2, <1>5, Zenon

(* So is one into which what a read returns has been put.                  *)
LEMMA ReadFills ==
  ASSUME ReadersInv, NEW r, NEW p \in Seq(Byte), NEW k \in 0 .. Len(wire), NEW q \in Seq(Byte), NEW j, IsRead(r, p, k, q, j),
         NEW b \in Seq(Byte), NEW o \in Nat, NEW n \in Nat, n = o + Len(r.bytes),
         \A i \in 1 .. Len(r.bytes) : b[o + i] = r.bytes[i]
  PROVE  IsFilled(b, n, o + Len(p), k)
<1>1. PICK x \in Seq(Byte), y \in Seq(Byte) : x = r.bytes /\ y = Bytes(wire, k) /\ x = (p \o y) \o q
  <2>1. Bytes(wire, k) \in Seq(Byte)
    BY BytesType DEF ReadersInv, OnWire
  <2> QED
    BY <2>1, Zenon DEF IsRead, IsMadeOf
<1>2. Len(x) = Len(p) + Len(y) + Len(q) /\ \A i \in 1 .. Len(y) : x[Len(p) + i] = y[i]
  BY <1>1, MiddleOfThree
<1>3. /\ Len(p) \in Nat /\ Len(y) \in Nat /\ Len(q) \in Nat
      /\ n = o + Len(x) /\ \A i \in 1 .. Len(x) : b[o + i] = x[i]
  BY <1>1, LenProperties
<1>4. \A c, d, e \in Nat :
        /\ o + c + d <= o + (c + d + e)
        /\ \A i \in 1 .. d : c + i \in 1 .. c + d + e /\ o + c + 1 + i - 1 = o + (c + i)
  OBVIOUS
<1>5. ASSUME NEW i \in 1 .. Len(y) PROVE b[o + Len(p) + 1 + i - 1] = y[i]
  <2>1. Len(p) + i \in 1 .. Len(x) /\ o + Len(p) + 1 + i - 1 = o + (Len(p) + i)
    <3>1. /\ Len(p) + i \in 1 .. Len(p) + Len(y) + Len(q)
          /\ o + Len(p) + 1 + i - 1 = o + (Len(p) + i)
      BY <1>3, <1>4
    <3> QED
      BY <3>1, <1>2
  <2>2. b[o + (Len(p) + i)] = x[Len(p) + i]
    BY <2>1, <1>3, Zenon
  <2> QED
    BY <2>1, <2>2, <1>2, Zenon
<1>6. o + Len(p) + Len(y) <= n
  <2>1. o + Len(p) + Len(y) <= o + (Len(p) + Len(y) + Len(q))
    BY <1>3, <1>4
  <2> QED
    BY <2>1, <1>2, <1>3
<1> QED
  BY <1>1, <1>5, <1>6, Zenon DEF IsFilled, HasFirst, Holds

(* UncutFramesArrive holds at first,                                       *)
LEMMA UncutInit == Init => UncutFramesArrive
<1> SUFFICES ASSUME Init PROVE UncutFramesArrive
  OBVIOUS
<1>1. uncut = <<>> /\ due = <<>> /\ got = <<>> /\ frames = <<>>
  BY DEF Init
<1>2. Selection(<<>>, <<>>)
  <2>1. <<>> \in Seq(BeastFrame)
    OBVIOUS
  <2> QED
    BY <2>1, SelectionNone
<1> QED
  BY <1>1, <1>2 DEF UncutFramesArrive

(* and is kept by a turn of read_loop,                                     *)
LEMMA UncutClientRead ==
  ASSUME ReadersInv, UncutFramesArrive, NEW r \in Reads, ClientRead(r)
  PROVE  UncutFramesArrive'
<1>1. PICK p \in Seq(Byte), k \in 0 .. Len(wire), q \in Seq(Byte), j \in 0 .. Len(wire) : IsRead(r, p, k, q, j)
  BY ReadsAre DEF ReadersInv
<1>2. PICK x \in Seq(Byte), a \in Seq(BeastFrame) : x = r.bytes /\ a = r.whole
  BY <1>1 DEF IsRead
<1>3. 0 + Len(x) <= Len(buf) /\ Len(x) \in Nat
  <2>1. Len(x) \in Nat /\ Len(x) <= BufSize
    BY <1>2, LenProperties DEF ClientRead
  <2> QED
    BY <2>1 DEF ReadersInv, ReaderTypes
<1>4. PICK b \in Seq(Byte) : b = buf' /\ Len(b) = BufSize /\ \A i \in 1 .. Len(x) : b[0 + i] = x[i]
  <2>1. buf' = Overwrite(buf, 0, x)
    BY <1>2 DEF ClientRead
  <2> QED
    BY <1>3, <2>1, OverwriteType DEF ReadersInv, ReaderTypes
<1>5. PICK s \in Seq(BeastFrame), u \in Seq(BeastFrame), f \in Seq(BeastFrame) :
        s = got /\ u = uncut /\ f = ClientFrames(b, Len(x)) /\ Selection(u, s)
  BY <1>3, ClientFramesType DEF ReadersInv, ReaderTypes, UncutFramesArrive
<1>6. got' = s \o f /\ uncut' = (IF pending = <<>> /\ a # <<>> THEN Append(u, a[1]) ELSE u) /\ UNCHANGED <<due, frames>>
  BY <1>2, <1>4, <1>5 DEF ClientRead
<1>7. CASE pending = <<>> /\ a # <<>>
  <2>1. k \in 1 .. Len(wire) /\ a[1] = sent[Taken + 1] /\ a[1] \in BeastFrame
    <3>1. Len(a) = k /\ \A i \in 1 .. k : a[i] = sent[Taken + i]
      BY <1>1, <1>2 DEF IsRead
    <3>2. k # 0
      BY <3>1, <1>2, <1>7, EmptySeq
    <3>3. k \in 1 .. Len(wire) /\ 1 \in 1 .. k
      BY <3>2, LenProperties DEF ReadersInv, OnWire
    <3> QED
      BY <3>1, <3>3, <1>2, <1>7, FirstAndRest
  <2>2. 1 \in 1 .. Len(wire)
    BY <2>1, LenProperties DEF ReadersInv, OnWire
  <2>3. PICK g : IsFrame(g) /\ wire[1] = Encoded(g) /\ sent[Taken + 1] = Frame(g) /\ wire[1] \in Seq(Byte)
    BY <2>2, WireFrames
  <2>4. PICK e \in Seq(Byte) : e = wire[1]
    BY <2>3
  <2>5. Bytes(wire, 1) = e
    <3>1. PICK w \in Seq(Seq(Byte)) : w = wire
      BY DEF ReadersInv, OnWire
    <3>2. IsSplit(Bytes(w, 1), Bytes(w, 1 - 1), w[1])
      BY <2>2, <3>1, BytesNext
    <3>3. Bytes(w, 1 - 1) = <<>>
      <4>1. 1 - 1 = 0
        OBVIOUS
      <4> QED
        BY <4>1, BytesNone
    <3>4. Bytes(w, 1) = <<>> \o e
      BY <3>1, <3>2, <3>3, <2>4, Zenon DEF IsSplit
    <3>5. <<>> \o e = e
      OBVIOUS
    <3> QED
      BY <3>1, <3>4, <3>5
  <2>6. PICK t \in Seq(Byte) : Bytes(wire, k) = e \o t
    <3>1. PICK w \in Seq(Seq(Byte)) : w = wire /\ k \in 0 .. Len(w) /\ 1 \in 0 .. k
      BY <2>1, LenProperties DEF ReadersInv, OnWire
    <3>2. PICK t \in Seq(Byte) : IsSplit(Bytes(w, k), Bytes(w, 1), t)
      BY <3>1, BytesBegin
    <3> QED
      BY <3>1, <3>2, <2>5, Zenon DEF IsSplit
  <2>7. PICK y \in Seq(Byte) : /\ y = e \o t /\ Len(y) = Len(e) + Len(t)
                               /\ (\A i \in 1 .. Len(e) : y[i] = e[i])
                               /\ Holds(b, 1, y) /\ Len(y) <= Len(x)
    <3>1. PICK l \in Nat, o \in Nat : l = Len(x) /\ o = 0 /\ l = o + l /\ p = <<>> /\ o + Len(p) = o /\ o + 1 = 1
      <4>1. p = <<>>
        BY <1>1, <1>7 DEF IsRead
      <4> QED
        BY <4>1, <1>3
    <3>2. IsFilled(b, l, o + Len(p), k)
      BY <3>1, <1>1, <1>2, <1>4, ReadFills
    <3>3. Holds(b, o + 1, Bytes(wire, k)) /\ o + Len(Bytes(wire, k)) <= l
      BY <3>1, <3>2, Zenon DEF IsFilled, HasFirst
    <3>4. PICK y \in Seq(Byte) : /\ y = e \o t /\ Len(y) = Len(e) + Len(t)
                                 /\ \A i \in 1 .. Len(e) : y[i] = e[i]
      <4>1. /\ e \o t \in Seq(Byte) /\ Len(e \o t) = Len(e) + Len(t)
            /\ \A i \in 1 .. Len(e) : (e \o t)[i] = e[i]
        BY Concat
      <4> QED
        BY <4>1, Zenon
    <3>5. y = Bytes(wire, k)
      BY <3>4, <2>6
    <3>6. Len(y) <= l
      <4>1. o + Len(y) <= l /\ Len(y) \in Nat
        BY <3>3, <3>5, LenProperties
      <4> QED
        BY <4>1, <3>1
    <3> QED
      BY <3>1, <3>3, <3>4, <3>5, <3>6, Zenon
  <2>8. PICK l \in Nat, m \in Nat, c \in Nat, d \in Nat :
          /\ l = Len(e) /\ m = Len(t) /\ c = Len(x) /\ d = Len(b) /\ l > 2 /\ l + m <= c /\ c <= d
    <3>1. Len(e) > 2
      BY <2>2, <2>4, WireFrames
    <3>2. Len(x) <= Len(b)
      BY <1>3, <1>4 DEF ReadersInv, ReaderTypes
    <3> QED
      BY <3>1, <3>2, <2>7, LenProperties
  <2>9. Holds(b, 1, e) /\ 1 + Len(e) - 1 <= Len(b) /\ Len(x) \in Nat \ {0}
    <3>1. 1 + l - 1 <= d /\ c \in Nat \ {0} /\ \A i \in 1 .. l : i \in 1 .. l + m
      BY <2>8
    <3>2. \A i \in 1 .. Len(e) : i \in 1 .. Len(y)
      BY <3>1, <2>7, <2>8
    <3>3. Holds(b, 1, e)
      BY <3>2, <2>7 DEF Holds
    <3> QED
      BY <3>1, <3>3, <2>8
  <2>10. PICK v \in Seq(Byte) : IsSplit(From(b, 1), Encoded(g), v)
    <3>1. 1 \in Nat \ {0}
      OBVIOUS
    <3>2. \E v \in Seq(Byte) : IsSplit(From(b, 1), e, v)
      BY <2>9, <3>1, SplitThere, Zenon
    <3> QED
      BY <3>2, <2>3, <2>4, Zenon
  <2>11. From(b, 1) = b
    BY SubSeqFull DEF From
  <2>12. IsSplit(b, Encoded(g), v)
    BY <2>10, <2>11, Zenon
  <2>13. Len(f) > 0 /\ f[1] = Frame(g)
    BY <2>3, <2>9, <2>12, <1>5, ClientFramesFirst
  <2>14. PICK h \in Seq(BeastFrame) : h = <<a[1]>> /\ Len(h) = 1 /\ h[1] = a[1]
    <3>1. \A z \in BeastFrame : <<z>> \in Seq(BeastFrame) /\ Len(<<z>>) = 1 /\ <<z>>[1] = z
      OBVIOUS
    <3> QED
      BY <3>1, <2>1, Zenon
  <2>15. Selection(h, f)
    <3>1. DOMAIN h = {1} /\ 1 \in DOMAIN f
      BY <2>13, <2>14, LenProperties
    <3>2. h[1] = f[1]
      BY <2>1, <2>3, <2>13, <2>14
    <3> DEFINE at == [i \in {1} |-> 1]
    <3>3. at \in [DOMAIN h -> DOMAIN f] /\ at[1] = 1
      BY <3>1
    <3> HIDE DEF at
    <3>4. \A i, z \in DOMAIN h : ~(i < z)
      BY <3>1
    <3> QED
      BY <3>1, <3>2, <3>3, <3>4 DEF Selection
  <2>16. Selection(u \o h, s \o f)
    BY <1>5, <2>15, SelectionJoin
  <2>17. uncut' = u \o h
    <3>1. uncut' = Append(u, a[1])
      BY <1>6, <1>7
    <3> QED
      BY <3>1, <2>1, <2>14, AppendIsConcat
  <2>18. Selection(uncut', got')
    BY <2>16, <2>17, <1>6
  <2> QED
    BY <2>18, <1>6 DEF UncutFramesArrive
<1>8. CASE ~(pending = <<>> /\ a # <<>>)
  <2>1. Selection(u, s \o f)
    BY <1>5, SelectionOfMore
  <2>2. Selection(uncut', got')
    BY <2>1, <1>6, <1>8
  <2> QED
    BY <2>2, <1>6 DEF UncutFramesArrive
<1> QED
  BY <1>7, <1>8

(* by frames handed on,                                                    *)
LEMMA UncutReturn ==
  ASSUME ReadersInv, UncutFramesArrive, NEW found \in Seq(BeastFrame), Selection(due, found), Return(found)
  PROVE  UncutFramesArrive'
<1>1. PICK s \in Seq(BeastFrame), u \in Seq(BeastFrame), d \in Seq(BeastFrame) :
        s = got /\ u = uncut /\ d = due /\ Selection(u, s) /\ Selection(d, found)
  BY DEF ReadersInv, ReaderTypes, UncutFramesArrive
<1>2. got' = s \o found /\ uncut' = u \o d /\ due' = <<>> /\ frames' = <<>>
  BY <1>1 DEF Return, Leave
<1>3. Selection(u \o d, s \o found)
  BY <1>1, SelectionJoin
<1>4. Selection(<<>>, <<>>)
  <2>1. <<>> \in Seq(BeastFrame)
    OBVIOUS
  <2> QED
    BY <2>1, SelectionNone
<1> QED
  BY <1>2, <1>3, <1>4 DEF UncutFramesArrive

(* by a read of read_beast_frames,                                         *)
LEMMA UncutBatchRead ==
  ASSUME ReadersInv, UncutFramesArrive, NEW r \in Reads, BatchRead(r)
  PROVE  UncutFramesArrive'
<1>1. PICK p \in Seq(Byte), k \in 0 .. Len(wire), q \in Seq(Byte), j \in 0 .. Len(wire) : IsRead(r, p, k, q, j)
  BY ReadsAre DEF ReadersInv
<1>2. PICK x \in Seq(Byte), a \in Seq(BeastFrame) : x = r.bytes /\ a = r.whole
  BY <1>1 DEF IsRead
<1>3. PICK n \in 0 .. BufSize, b \in Seq(Byte), max \in Nat :
        /\ n = offset + Len(x) /\ b = Overwrite(buf, offset, x) /\ Len(b) = BufSize
        /\ \A i \in 1 .. Len(x) : b[offset + i] = x[i]
        /\ max = MaxFrames[reader] - Len(frames) /\ max > 0
  <2>1. ReaderTypes /\ Room(offset + Len(x))
    BY <1>2 DEF BatchRead, ReadersInv
  <2> QED
    BY <2>1, BatchParts, ZenonT(60)
<1>4. PICK s : s = ScanFrames(b, n, max)
  OBVIOUS
<1>5. PICK c \in 0 .. max, z \in Seq(BeastFrame) :
        /\ Found(b, n) \in Seq(Finds(n)) /\ (c < max => c = Len(Found(b, n)))
        /\ z = s.frames /\ Len(z) = c /\ \A i \in 1 .. c : z[i] = Found(b, n)[i].frame
  <2>1. n \in 0 .. Len(b)
    BY <1>3
  <2>2. \E c \in 0 .. max :
          /\ Found(b, n) \in Seq(Finds(n)) /\ (c < max => c = Len(Found(b, n)))
          /\ s.frames \in Seq(BeastFrame) /\ Len(s.frames) = c
          /\ \A i \in 1 .. c : s.frames[i] = Found(b, n)[i].frame
    BY <1>4, <2>1, ScanFramesAre, ZenonT(60)
  <2> QED
    BY <2>2, Zenon
<1>6. PICK f \in Seq(BeastFrame), g \in Seq(BeastFrame), d \in Seq(BeastFrame) :
        g = frames /\ d = due /\ Selection(d, g) /\ f = g \o z /\ Len(f) = Len(g) + Len(z)
  <2>1. frames \o z \in Seq(BeastFrame) /\ Len(frames \o z) = Len(frames) + Len(z)
    BY Concat DEF ReadersInv, ReaderTypes
  <2> QED
    BY <2>1, Zenon DEF ReadersInv, ReaderTypes, UncutFramesArrive
<1>7. IF Len(f) >= MaxFrames[reader]
      THEN Return(f)
      ELSE frames' = f /\ due' = d \o a /\ UNCHANGED <<got, uncut>>
  <2>1. f = frames \o s.frames
    BY <1>5, <1>6
  <2> QED
    BY <1>2, <1>3, <1>4, <1>6, <2>1, Zenon DEF BatchRead
<1>8. CASE Len(f) >= MaxFrames[reader]
  <2>1. Selection(d, f)
    BY <1>6, SelectionOfMore
  <2> QED
    BY <2>1, <1>6, <1>7, <1>8, UncutReturn
<1>9. CASE ~(Len(f) >= MaxFrames[reader])
  <2>1. c = Len(Found(b, n))
    <3>1. /\ Len(f) \in Nat /\ Len(g) \in Nat /\ MaxFrames[reader] \in Nat /\ c \in Nat
          /\ Len(f) = Len(g) + c
      BY <1>5, <1>6, LenProperties, Constants DEF ReadersInv, ReaderTypes
    <3>2. max = MaxFrames[reader] - Len(g)
      BY <1>3, <1>6
    <3>3. \A u, v, w, y \in Nat : u = v + w /\ ~(u >= y) => w < y - v
      OBVIOUS
    <3>4. c < max
      BY <3>1, <3>2, <3>3, <1>9, Zenon
    <3> QED
      BY <3>4, <1>5
  <2>2. IsFilled(b, n, offset + Len(p), k)
    <3>1. offset \in Nat /\ n \in Nat
      BY Constants DEF ReadersInv, ReaderTypes
    <3> QED
      BY <3>1, <1>1, <1>2, <1>3, ReadFills
  <2>3. DOMAIN a = 1 .. k /\ \A i \in 1 .. k : a[i] = sent[Taken + i]
    BY <1>1, <1>2, LenProperties DEF IsRead
  <2>4. offset + Len(p) \in Nat /\ n \in 0 .. Len(b) /\ k \in Nat
    <3>1. offset \in Nat /\ Len(p) \in Nat /\ Len(wire) \in Nat
      BY LenProperties, Constants DEF ReadersInv, ReaderTypes, OnWire
    <3>2. n \in 0 .. Len(b)
      BY <1>3
    <3>3. \A u, v \in Nat : u + v \in Nat /\ \A i \in 0 .. u : i \in Nat
      OBVIOUS
    <3> QED
      BY <3>1, <3>2, <3>3, Zenon
  <2>5. PICK pos : AreAt(pos, k, b, n, a)
    BY <2>2, <2>3, <2>4, FramesAreAt
  <2>6. Selection(a, z)
    BY <2>1, <2>3, <2>4, <2>5, <1>5, FoundAll
  <2>7. Selection(d \o a, g \o z)
    BY <2>6, <1>6, SelectionJoin
  <2>8. Selection(due', frames')
    BY <2>7, <1>6, <1>7, <1>9
  <2> QED
    BY <2>8, <1>7, <1>9 DEF UncutFramesArrive
<1> QED
  BY <1>8, <1>9

(* by its end,                                                             *)
LEMMA UncutBatchEnd ==
  ASSUME ReadersInv, UncutFramesArrive, BatchEnd
  PROVE  UncutFramesArrive'
<1>1. frames \in Seq(BeastFrame) /\ Selection(due, frames) /\ Return(frames)
  BY DEF ReadersInv, ReaderTypes, UncutFramesArrive, BatchEnd
<1> QED
  BY <1>1, UncutReturn

(* by an error, with which what is due is lost,                            *)
LEMMA UncutBatchError ==
  ASSUME UncutFramesArrive, BatchError
  PROVE  UncutFramesArrive'
<1>1. got' = got /\ uncut' = uncut /\ due' = <<>> /\ frames' = <<>>
  BY DEF BatchError, Leave
<1>2. Selection(<<>>, <<>>)
  <2>1. <<>> \in Seq(BeastFrame)
    OBVIOUS
  <2> QED
    BY <2>1, SelectionNone
<1> QED
  BY <1>1, <1>2 DEF UncutFramesArrive

(* and by every step.                                                      *)
LEMMA UncutNext ==
  ASSUME ReadersInv, UncutFramesArrive, [ClientsNext]_allVars
  PROVE  UncutFramesArrive'
<1>1. CASE UNCHANGED <<uncut, due, got, frames>>
  BY <1>1 DEF UncutFramesArrive
<1>2. CASE \E r \in Reads : ClientRead(r)
  BY <1>2, UncutClientRead
<1>3. CASE \E r \in Reads : Batch(r)
  BY <1>3, UncutBatchRead DEF Batch
<1>4. CASE Timeout
  BY <1>4, UncutBatchEnd DEF Timeout
<1>5. CASE ReadError
  BY <1>5, UncutBatchError DEF ReadError
<1>6. UNCHANGED allVars \/ Works => UNCHANGED <<uncut, due, got, frames>>
  BY WorksKeep DEF allVars, vars
<1>7. (\E f \in Sendable[reader] : Send(f)) \/ CompareWindow => UNCHANGED <<uncut, due, got, frames>>
  BY DEF Send, CompareWindow
<1> QED
  BY <1>1, <1>2, <1>3, <1>4, <1>5, <1>6, <1>7, Zenon DEF ClientsNext, Works

(* Frames that came in one piece arrive.                                   *)
THEOREM UncutFrames == ClientsSpec => []UncutFramesArrive
<1>1. ClientsInit => UncutFramesArrive
  BY UncutInit DEF ClientsInit
<1> QED
  BY <1>1, UncutNext, ReadersTyped, PTL DEF ClientsSpec

-----------------------------------------------------------------------------
(* viewsb: its snapshots and its CSV file.                                 *)

(* A snapshot of what has been dealt with by now.                          *)
IsVersion(v) == \E n, shown : n \in 0 .. done /\ v = <<n, shown>>

(* What the i-th entry of the CSV file is.                                 *)
IsRow(i) ==
  \/ csv[i] = Torn
  \/ header_written /\ (csv[i] = Header \/ IsVersion(csv[i]))

(* In the CSV file the header comes before the snapshots, which are in     *)
(* order.                                                                  *)
CsvInv ==
  /\ \E S : csv \in Seq(S)
  /\ \A i \in 1 .. Len(csv) : IsRow(i)
  /\ \A j \in 1 .. Len(csv) :
       /\ csv[j] = Header => \A i \in 1 .. j - 1 : csv[i] = Torn
       /\ csv[j][1] >= 0 => /\ \E i \in 1 .. j - 1 : csv[i] = Header
                            /\ \A i \in 1 .. j - 1 : csv[i][1] <= csv[j][1]
  /\ header_written => \E i \in 1 .. Len(csv) : csv[i] = Header

(* The JSON file is a snapshot, and so is a temporary file to be renamed.  *)
JsonInv ==
  /\ json = [path |-> json.path, tmp |-> json.tmp]
  /\ json.path = {} \/ \E v : json.path = {v} /\ IsVersion(v)
  /\ pc = "rename" => json.tmp = {Snapshot}
  /\ pc = "csv" /\ "json" \notin failed => json.path = {Snapshot}

(* viewsb is at its files.                                                 *)
AtFiles == pc \in {"json", "write", "rename", "csv"}

(* The last snapshot is one of all aircraft.                               *)
FinalInv ==
  /\ AtFiles => reader = "viewsb" /\ done = Len(got) /\ (~interactive /\ CountReached => final)
  /\ reader = "viewsb" /\ pc = "end" /\ CountReached /\ ~interactive =>
       /\ done = Len(got) /\ final
       /\ "json" \notin failed => json.path = {Snapshot}
       /\ "csv" \notin failed => csv[Len(csv)] = Snapshot

(* The invariant of viewsb.                                                *)
ProgramInv ==
  /\ done \in Nat /\ done <= Len(got)
  /\ JsonInv
  /\ CsvInv
  /\ FinalInv

(* ProgramInv holds at first.                                              *)
LEMMA ProgramInit == ClientsInit => ProgramInv
<1> SUFFICES ASSUME ClientsInit PROVE ProgramInv
  OBVIOUS
<1>1. got = <<>> /\ done = 0 /\ pc = "read" /\ json = [path |-> {}, tmp |-> {}] /\ csv = <<>> /\ header_written = FALSE
  BY DEF ClientsInit, Init
<1>2. Len(got) = 0 /\ Len(csv) = 0 /\ csv \in Seq({})
  BY <1>1
<1>3. CsvInv
  BY <1>1, <1>2 DEF CsvInv
<1>4. JsonInv /\ FinalInv
  BY <1>1 DEF JsonInv, FinalInv, AtFiles
<1> QED
  BY <1>1, <1>2, <1>3, <1>4 DEF ProgramInv

(* What is got does not get shorter.                                       *)
LEMMA GrownLength ==
  ASSUME ReadersInv, GotGrows
  PROVE  Len(got) \in Nat /\ Len(got') \in Nat /\ Len(got) <= Len(got')
<1>1. PICK x \in Seq(BeastFrame), y \in Seq(BeastFrame) : y = got /\ got' = y \o x
  BY DEF GotGrows, IsSplit, ReadersInv, ReaderTypes
<1>2. PICK l \in Nat, m \in Nat : l = Len(x) /\ m = Len(y)
  BY LenProperties
<1>3. Len(got') = m + l
  BY <1>1, <1>2, Concat
<1> QED
  BY <1>1, <1>2, <1>3

(* Snapshots and the CSV file stay what they are while more is dealt with. *)
LEMMA VersionsStay ==
  ASSUME ProgramInv, done' \in Nat, done <= done', UNCHANGED <<csv, header_written>>
  PROVE  CsvInv' /\ \A v : IsVersion(v) => IsVersion(v)'
<1>1. ASSUME NEW v, IsVersion(v) PROVE IsVersion(v)'
  <2>1. 0 .. done \subseteq 0 .. done'
    BY DEF ProgramInv
  <2> QED
    BY <2>1, <1>1 DEF IsVersion
<1>2. \A i : IsRow(i) => IsRow(i)'
  BY <1>1 DEF IsRow
<1>3. CsvInv'
  BY <1>2 DEF ProgramInv, CsvInv
<1> QED
  BY <1>1, <1>3

(* Steps of others leave the files alone.                                  *)
LEMMA ProgramAway ==
  ASSUME ProgramInv, done' \in Nat, done <= done', done' <= Len(got'), reader' = reader,
         UNCHANGED <<json, csv, header_written>>,
         ~AtFiles', ~(reader = "viewsb" /\ pc' = "end")
  PROVE  ProgramInv'
<1>1. CsvInv' /\ \A v : IsVersion(v) => IsVersion(v)'
  BY VersionsStay
<1>2. JsonInv'
  BY <1>1 DEF ProgramInv, JsonInv, AtFiles
<1>3. FinalInv'
  BY DEF FinalInv
<1> QED
  BY <1>1, <1>2, <1>3 DEF ProgramInv

(* So do the steps of the reader,                                          *)
LEMMA ProgramReads ==
  ASSUME ReadersInv, ProgramInv, Len(got) \in Nat, Len(got') \in Nat, Len(got) <= Len(got'),
         (reader = "read_loop" /\ pc' = pc) \/ pc' \in {"read", "work", "over"}, reader' = reader, UNCHANGED programVars
  PROVE  ProgramInv'
<1>1. UNCHANGED <<done, json, csv, header_written>>
  BY DEF programVars, viewVars
<1>2. done' \in Nat /\ done <= done' /\ done' <= Len(got')
  BY <1>1 DEF ProgramInv
<1>3. ~AtFiles' /\ ~(reader = "viewsb" /\ pc' = "end")
  BY DEF ProgramInv, FinalInv, AtFiles
<1> QED
  BY <1>1, <1>2, <1>3, ProgramAway

(* steps that change nothing the invariant is about,                       *)
LEMMA ProgramKept ==
  ASSUME ProgramInv, UNCHANGED <<got, reader, pc, programVars>>
  PROVE  ProgramInv'
<1>1. UNCHANGED <<done, json, csv, header_written, failed, final, registry, interactive>>
  BY DEF programVars, viewVars
<1>2. CsvInv' /\ \A v : IsVersion(v) => IsVersion(v)'
  BY <1>1, VersionsStay DEF ProgramInv
<1>3. JsonInv'
  BY <1>1, <1>2 DEF ProgramInv, JsonInv, Snapshot
<1>4. FinalInv'
  BY <1>1 DEF ProgramInv, FinalInv, AtFiles, CountReached, Snapshot
<1> QED
  BY <1>1, <1>2, <1>3, <1>4 DEF ProgramInv

(* and the steps of record and compare.                                    *)
LEMMA ProgramOther ==
  ASSUME ReadersInv, ProgramInv,
         RecordNext \/ RecordWrite \/ RecordFails \/ RecordDone \/ CompareOn \/ CompareWindow,
         reader = "record" \/ reader = "compare"
  PROVE  ProgramInv'
<1>1. /\ UNCHANGED <<got, reader, json, csv, header_written>>
      /\ pc' \in {pc, "read", "end"}
      /\ done' \in {done, done + 1, Len(got)}
  BY DEF RecordNext, RecordWrite, RecordFails, RecordDone, CompareOn, CompareWindow, vars, programVars, viewVars
<1>2. done \in Nat /\ Len(got) \in Nat /\ done <= Len(got)
  BY LenProperties DEF ProgramInv, ReadersInv, ReaderTypes
<1>3. done' <= Len(got)
  <2>1. RecordNext => done + 1 <= Len(got) /\ done' = done + 1
    BY <1>2 DEF RecordNext
  <2>2. ~RecordNext => done' \in {done, Len(got)}
    BY DEF RecordWrite, RecordFails, RecordDone, CompareOn, CompareWindow, programVars
  <2> QED
    BY <1>2, <2>1, <2>2
<1>4. done' \in Nat /\ done <= done' /\ done' <= Len(got')
  BY <1>1, <1>2, <1>3
<1>5. ~AtFiles
  BY DEF ProgramInv, FinalInv
<1>6. ~AtFiles'
  BY <1>1, <1>5 DEF AtFiles
<1> QED
  BY <1>1, <1>4, <1>6, ProgramAway

(* Only record writes to its file.                                         *)
RecordInv == writing # <<>> => reader = "record"

(* RecordInv is kept by every step.                                        *)
LEMMA RecordInvNext == RecordInv /\ [ClientsNext]_allVars => RecordInv'
<1> SUFFICES ASSUME RecordInv, [ClientsNext]_allVars PROVE RecordInv'
  OBVIOUS
<1>1. CASE UNCHANGED programVars /\ UNCHANGED reader
  BY <1>1 DEF RecordInv, programVars, recordVars
<1>2. CASE RecordNext \/ RecordWrite \/ RecordFails \/ RecordDone
  BY <1>2 DEF RecordInv, RecordNext, RecordWrite, RecordFails, RecordDone, vars, programVars, recordVars
<1>3. CASE UNCHANGED recordVars /\ UNCHANGED reader
  BY <1>3 DEF RecordInv, recordVars
<1>4. UNCHANGED allVars => UNCHANGED programVars /\ UNCHANGED reader
  BY DEF allVars, vars
<1>5. (\E f \in Sendable[reader] : Send(f)) /\ UNCHANGED <<pc, programVars>> => UNCHANGED programVars /\ UNCHANGED reader
  BY DEF Send
<1>6. (\E r \in Reads : ClientRead(r)) /\ UNCHANGED <<pc, programVars>> => UNCHANGED programVars /\ UNCHANGED reader
  BY DEF ClientRead
<1>7. (\E r \in Reads : Batch(r)) \/ Timeout \/ ReadError => UNCHANGED programVars /\ UNCHANGED reader
  BY DEF Batch, Timeout, ReadError, BatchRead, BatchEnd, BatchError
<1>8. CompareOn \/ CompareWindow \/ ViewUpdate \/ ViewQuit \/ JsonCreate \/ JsonWrite \/ JsonRename \/ JsonFails
        \/ CsvHeader \/ CsvRows \/ CsvFails => UNCHANGED recordVars /\ UNCHANGED reader
  BY DEF CompareOn, CompareWindow, ViewUpdate, ViewQuit, JsonCreate, JsonWrite, JsonRename, JsonFails,
     CsvHeader, CsvRows, CsvFails, vars, programVars
<1> QED
  BY <1>1, <1>2, <1>3, <1>4, <1>5, <1>6, <1>7, <1>8, Zenon DEF ClientsNext

(* ProgramInv is kept by a batch that reaches the tracker,                 *)
LEMMA ProgramViewUpdate ==
  ASSUME ReadersInv, ProgramInv, ViewUpdate
  PROVE  ProgramInv'
<1>1. /\ reader = "viewsb" /\ UNCHANGED <<got, reader, json, csv, header_written, interactive>>
      /\ done' = Len(got) /\ pc' = "json"
      /\ final' = (~interactive /\ Count > 0 /\ done' >= Count)
  BY DEF ViewUpdate, vars
<1>2. done' \in Nat /\ done <= done'
  BY <1>1, LenProperties DEF ProgramInv, ReadersInv, ReaderTypes
<1>3. CsvInv' /\ \A v : IsVersion(v) => IsVersion(v)'
  BY <1>1, <1>2, VersionsStay
<1>4. JsonInv'
  BY <1>1, <1>3 DEF ProgramInv, JsonInv
<1>5. FinalInv'
  BY <1>1 DEF FinalInv, AtFiles, CountReached
<1> QED
  BY <1>1, <1>2, <1>3, <1>4, <1>5 DEF ProgramInv

(* by a user who quits,                                                    *)
LEMMA ProgramViewQuit ==
  ASSUME ProgramInv, ViewQuit
  PROVE  ProgramInv'
<1>1. /\ pc' = "end" /\ interactive
      /\ UNCHANGED <<got, reader, done, json, csv, header_written, interactive>>
  BY DEF ViewQuit, vars, programVars, viewVars
<1>2. CsvInv' /\ \A v : IsVersion(v) => IsVersion(v)'
  BY <1>1, VersionsStay DEF ProgramInv
<1>3. JsonInv'
  BY <1>1, <1>2 DEF ProgramInv, JsonInv
<1>4. FinalInv'
  BY <1>1 DEF FinalInv, AtFiles
<1> QED
  BY <1>1, <1>2, <1>3, <1>4 DEF ProgramInv

(* A snapshot is a version of what has been dealt with.                    *)
LEMMA SnapshotIsVersion ==
  ASSUME ProgramInv
  PROVE  IsVersion(Snapshot) /\ Snapshot[1] = done
<1>1. PICK shown : Snapshot = <<done, shown>>
  BY DEF Snapshot
<1>2. done \in 0 .. done
  BY DEF ProgramInv
<1> QED
  BY <1>1, <1>2 DEF IsVersion

(* by a temporary file that is created, written and renamed, or not,       *)
LEMMA ProgramJson ==
  ASSUME ProgramInv, JsonCreate \/ JsonWrite \/ JsonRename \/ JsonFails
  PROVE  ProgramInv'
<1>1. /\ UNCHANGED <<got, reader, done, csv, header_written, interactive, registry, final>>
      /\ AtFiles /\ pc' \in {"write", "rename", "csv"}
  BY DEF JsonCreate, JsonWrite, JsonRename, JsonFails, vars, viewVars, AtFiles
<1>2. Snapshot' = Snapshot
  BY <1>1 DEF Snapshot
<1>3. CsvInv' /\ \A v : IsVersion(v) => IsVersion(v)'
  BY <1>1, VersionsStay DEF ProgramInv
<1>4. IsVersion(Snapshot)
  BY SnapshotIsVersion
<1>5. JsonInv'
  <2>1. PICK p, t : json = [path |-> p, tmp |-> t] /\ (p = {} \/ \E v : p = {v} /\ IsVersion(v))
    BY DEF ProgramInv, JsonInv
  <2>2. CASE JsonCreate
    <3>1. json' = [path |-> p, tmp |-> {Torn}] /\ pc' = "write"
      BY <2>1, <2>2 DEF JsonCreate
    <3> QED
      BY <3>1, <2>1, <1>3 DEF JsonInv
  <2>3. CASE JsonWrite
    <3>1. json' = [path |-> p, tmp |-> {Snapshot}] /\ pc' = "rename"
      BY <2>1, <2>3 DEF JsonWrite
    <3> QED
      BY <3>1, <2>1, <1>2, <1>3 DEF JsonInv
  <2>4. CASE JsonRename
    <3>1. json' = [path |-> t, tmp |-> {}] /\ pc' = "csv" /\ pc = "rename"
      BY <2>1, <2>4 DEF JsonRename
    <3>2. t = {Snapshot}
      BY <2>1, <3>1 DEF ProgramInv, JsonInv
    <3>3. json'.path = {Snapshot} /\ json' = [path |-> json'.path, tmp |-> json'.tmp]
      BY <3>1, <3>2
    <3>4. \E v : json'.path = {v} /\ IsVersion(v)'
      BY <3>3, <1>3, <1>4
    <3> QED
      BY <3>1, <3>3, <3>4, <1>2 DEF JsonInv
  <2>5. CASE JsonFails
    <3>1. json' = json /\ pc' = "csv" /\ "json" \in failed'
      BY <2>5 DEF JsonFails, viewVars
    <3> QED
      BY <3>1, <2>1, <1>3 DEF JsonInv
  <2> QED
    BY <2>2, <2>3, <2>4, <2>5
<1>6. FinalInv'
  BY <1>1 DEF ProgramInv, FinalInv, AtFiles, CountReached
<1> QED
  BY <1>1, <1>3, <1>5, <1>6 DEF ProgramInv

(* What is appended to the CSV file follows in order.                      *)
LEMMA CsvGrows ==
  ASSUME ProgramInv, NEW v, csv' = Append(csv, v), done' = done,
         \/ v = Torn /\ header_written' = header_written
         \/ v = Header /\ ~header_written /\ header_written' = TRUE
         \/ IsVersion(v) /\ v[1] = done /\ header_written /\ header_written' = header_written
  PROVE  CsvInv' /\ csv'[Len(csv')] = v
<1>1. PICK S : csv \in Seq(S)
  BY DEF ProgramInv, CsvInv
<1> DEFINE T == S \cup {v}
<1>2. PICK c \in Seq(T), n \in Nat : c = csv /\ n = Len(c)
  BY <1>1, LenProperties
<1>3. /\ csv' \in Seq(T) /\ Len(csv') = n + 1 /\ csv'[n + 1] = v
      /\ \A i \in 1 .. n : csv'[i] = c[i]
  <2>1. v \in T
    OBVIOUS
  <2> HIDE DEF T
  <2> QED
    BY <2>1, <1>2, AppendProperties
<1>4. done \in Nat
  BY DEF ProgramInv
<1>5. \A w : IsVersion(w) => IsVersion(w)' /\ w # Torn /\ w # Header /\ w[1] \in 0 .. done
  BY <1>4 DEF IsVersion, Torn, Header
<1>6. Torn[1] = -1 /\ Header[1] = -2 /\ Torn # Header
  BY DEF Torn, Header
<1>7. ASSUME NEW i \in 1 .. n
      PROVE  /\ csv[i] = Torn \/ (header_written /\ (csv[i] = Header \/ IsVersion(csv[i])))
             /\ csv[i][1] <= done /\ csv[i][1] \in Int
  <2>1. IsRow(i)
    BY <1>2 DEF ProgramInv, CsvInv
  <2> QED
    BY <2>1, <1>4, <1>5, <1>6 DEF IsRow
<1>8. ASSUME NEW i \in 1 .. n + 1 PROVE IsRow(i)'
  <2>1. CASE i \in 1 .. n
    <3>1. csv'[i] = csv[i] /\ (header_written => header_written')
      BY <2>1, <1>2, <1>3
    <3> QED
      BY <3>1, <2>1, <1>5, <1>7 DEF IsRow
  <2>2. CASE i = n + 1
    BY <2>2, <1>3, <1>5 DEF IsRow
  <2> QED
    BY <2>1, <2>2
<1>9. ASSUME NEW j \in 1 .. n + 1
      PROVE  /\ csv'[j] = Header => \A i \in 1 .. j - 1 : csv'[i] = Torn
             /\ csv'[j][1] >= 0 => /\ \E i \in 1 .. j - 1 : csv'[i] = Header
                                   /\ \A i \in 1 .. j - 1 : csv'[i][1] <= csv'[j][1]
  <2>1. CASE j \in 1 .. n
    <3>1. j \in 1 .. Len(csv) /\ \A i \in 1 .. j - 1 : i \in 1 .. n
      BY <2>1, <1>2
    <3>2. csv'[j] = csv[j] /\ \A i \in 1 .. j - 1 : csv'[i] = csv[i]
      BY <2>1, <3>1, <1>2, <1>3
    <3>3. /\ csv[j] = Header => \A i \in 1 .. j - 1 : csv[i] = Torn
          /\ csv[j][1] >= 0 => /\ \E i \in 1 .. j - 1 : csv[i] = Header
                               /\ \A i \in 1 .. j - 1 : csv[i][1] <= csv[j][1]
      BY <3>1 DEF ProgramInv, CsvInv
    <3> QED
      BY <3>2, <3>3, Zenon
  <2>2. CASE j = n + 1
    <3>1. csv'[j] = v /\ j - 1 = n /\ \A i \in 1 .. n : csv'[i] = csv[i]
      BY <2>2, <1>2, <1>3
    <3>2. v = Header => \A i \in 1 .. n : csv[i] = Torn
      BY <1>5, <1>6, <1>7
    <3>3. v[1] >= 0 => header_written /\ v[1] = done
      BY <1>6
    <3>4. header_written => \E i \in 1 .. n : csv[i] = Header
      BY <1>2 DEF ProgramInv, CsvInv
    <3>5. csv'[j] = Header => \A i \in 1 .. j - 1 : csv'[i] = Torn
      BY <3>1, <3>2
    <3>6. csv'[j][1] >= 0 => /\ \E i \in 1 .. j - 1 : csv'[i] = Header
                             /\ \A i \in 1 .. j - 1 : csv'[i][1] <= csv'[j][1]
      <4>1. SUFFICES ASSUME v[1] >= 0
                     PROVE  /\ \E i \in 1 .. n : csv'[i] = Header
                            /\ \A i \in 1 .. n : csv'[i][1] <= v[1]
        BY <3>1
      <4>2. \E i \in 1 .. n : csv'[i] = Header
        BY <4>1, <3>1, <3>3, <3>4
      <4>3. \A i \in 1 .. n : csv'[i][1] <= v[1]
        BY <4>1, <3>1, <3>3, <1>7
      <4> QED
        BY <4>2, <4>3
    <3> QED
      BY <3>5, <3>6, Zenon
  <2>3. j \in 1 .. n \/ j = n + 1
    OBVIOUS
  <2> QED
    BY <2>1, <2>2, <2>3, Zenon
<1>10. header_written' => \E i \in 1 .. n + 1 : csv'[i] = Header
  <2>1. CASE header_written
    <3>1. PICK i \in 1 .. n : csv[i] = Header
      BY <2>1, <1>2 DEF ProgramInv, CsvInv
    <3> QED
      BY <3>1, <1>2, <1>3
  <2>2. CASE ~header_written /\ header_written'
    <3>1. v = Header
      BY <2>2, Zenon
    <3>2. n + 1 \in 1 .. n + 1 /\ csv'[n + 1] = Header
      BY <3>1, <1>2, <1>3
    <3> QED
      BY <3>2
  <2> QED
    BY <2>1, <2>2
<1>11. CsvInv'
  <2>1. \E R : csv' \in Seq(R)
    BY <1>3
  <2> QED
    BY <2>1, <1>3, <1>8, <1>9, <1>10 DEF CsvInv
<1> QED
  BY <1>3, <1>11

(* by a header,                                                            *)
LEMMA ProgramCsvHeader ==
  ASSUME ProgramInv, CsvHeader
  PROVE  ProgramInv'
<1>1. /\ UNCHANGED <<got, reader, pc, done, json, failed, interactive, registry, final>>
      /\ ~header_written /\ csv' = Append(csv, Header) /\ header_written' = TRUE /\ pc = "csv"
  BY DEF CsvHeader, vars
<1>2. CsvInv'
  BY <1>1, CsvGrows
<1>3. JsonInv'
  BY <1>1 DEF ProgramInv, JsonInv, IsVersion, Snapshot
<1>4. FinalInv'
  BY <1>1 DEF ProgramInv, FinalInv, AtFiles, CountReached
<1> QED
  BY <1>1, <1>2, <1>3, <1>4 DEF ProgramInv

(* and by rows, written or not.                                            *)
LEMMA ProgramCsvRows ==
  ASSUME ProgramInv, CsvRows \/ CsvFails
  PROVE  ProgramInv'
<1>1. /\ UNCHANGED <<got, reader, done, json, interactive, registry, final, header_written>>
      /\ pc = "csv" /\ pc' = IF CountReached THEN "end" ELSE "read"
      /\ "json" \in failed' <=> "json" \in failed
  BY DEF CsvRows, CsvFails, NextTurn, vars
<1>2. Snapshot' = Snapshot
  BY <1>1 DEF Snapshot
<1>3. CsvInv' /\ ("csv" \notin failed' => csv'[Len(csv')] = Snapshot)
  <2>1. CASE CsvRows
    <3>1. csv' = Append(csv, Snapshot) /\ header_written
      BY <2>1 DEF CsvRows
    <3> QED
      BY <3>1, <1>1, SnapshotIsVersion, CsvGrows
  <2>2. CASE CsvFails
    <3>1. csv' = csv \/ csv' = Append(csv, Torn)
      BY <2>2 DEF CsvFails
    <3>2. "csv" \in failed'
      BY <2>2 DEF CsvFails
    <3>3. csv' = csv => CsvInv'
      BY <1>1, VersionsStay DEF ProgramInv
    <3>4. csv' = Append(csv, Torn) => CsvInv'
      BY <1>1, CsvGrows
    <3> QED
      BY <3>1, <3>2, <3>3, <3>4
  <2> QED
    BY <2>1, <2>2
<1>4. JsonInv'
  <2>1. \A v : IsVersion(v) => IsVersion(v)'
    BY <1>1 DEF IsVersion
  <2> QED
    BY <2>1, <1>1 DEF ProgramInv, JsonInv
<1>5. FinalInv'
  <2>1. CountReached' = CountReached
    BY <1>1 DEF CountReached
  <2>2. /\ done = Len(got) /\ (~interactive /\ CountReached => final)
        /\ "json" \notin failed => json.path = {Snapshot}
    BY <1>1 DEF ProgramInv, FinalInv, AtFiles, JsonInv
  <2> QED
    BY <2>1, <2>2, <1>1, <1>2, <1>3 DEF FinalInv, AtFiles
<1> QED
  BY <1>1, <1>3, <1>4, <1>5 DEF ProgramInv

(* ProgramInv is kept by every step.                                       *)
LEMMA ProgramNext == ReadersInv /\ RecordInv /\ ProgramInv /\ [ClientsNext]_allVars => ProgramInv'
<1> SUFFICES ASSUME ReadersInv, RecordInv, ProgramInv, [ClientsNext]_allVars PROVE ProgramInv'
  OBVIOUS
<1>1. CASE UNCHANGED allVars
  BY <1>1, ProgramKept DEF allVars, vars
<1>2. CASE (\E f \in Sendable[reader] : Send(f)) /\ UNCHANGED <<pc, programVars>>
  BY <1>2, ProgramKept DEF Send
<1>3. ASSUME NEW r \in Reads, ClientRead(r), UNCHANGED <<pc, programVars>> PROVE ProgramInv'
  <2>1. GotGrows
    BY <1>3, TypesClientRead
  <2>2. reader = "read_loop" /\ reader' = reader
    BY <1>3 DEF ClientRead
  <2> QED
    BY <2>1, <2>2, <1>3, GrownLength, ProgramReads
<1>4. ASSUME NEW r \in Reads, Batch(r) PROVE ProgramInv'
  <2>1. GotGrows
    BY <1>4, TypesBatchRead DEF Batch
  <2>2. reader' = reader /\ pc' \in {"read", "work"} /\ UNCHANGED programVars
    BY <1>4 DEF Batch, BatchRead, AtWork
  <2> QED
    BY <2>1, <2>2, GrownLength, ProgramReads
<1>5. CASE Timeout
  <2>1. GotGrows
    BY <1>5, TypesBatchEnd DEF Timeout
  <2>2. reader' = reader /\ pc' \in {"read", "work"} /\ UNCHANGED programVars
    BY <1>5 DEF Timeout, BatchEnd, AtWork
  <2> QED
    BY <2>1, <2>2, GrownLength, ProgramReads
<1>6. CASE ReadError
  <2>1. got' = got
    BY <1>6, TypesBatchError DEF ReadError
  <2>2. reader' = reader /\ pc' \in {"read", "work", "over"} /\ UNCHANGED programVars
    BY <1>6 DEF ReadError, BatchError, AtWork
  <2>3. Len(got) \in Nat
    BY LenProperties DEF ReadersInv, ReaderTypes
  <2>4. Len(got') \in Nat /\ Len(got) <= Len(got')
    BY <2>1, <2>3
  <2> QED
    BY <2>2, <2>3, <2>4, ProgramReads
<1>7. CASE RecordNext \/ RecordWrite \/ RecordFails \/ RecordDone \/ CompareOn \/ CompareWindow
  <2>1. reader = "record" \/ reader = "compare"
    BY <1>7 DEF RecordInv, RecordNext, RecordWrite, RecordFails, RecordDone, CompareOn, CompareWindow
  <2> QED
    BY <1>7, <2>1, ProgramOther
<1> QED
  BY <1>1, <1>2, <1>3, <1>4, <1>5, <1>6, <1>7, ProgramViewUpdate, ProgramViewQuit,
     ProgramJson, ProgramCsvHeader, ProgramCsvRows, Zenon DEF ClientsNext

(* RecordInv and ProgramInv always hold.                                   *)
LEMMA ProgramsInvariant == ClientsSpec => [](RecordInv /\ ProgramInv)
<1>1. ClientsInit => RecordInv
  BY DEF ClientsInit, RecordInv
<1> QED
  BY <1>1, ProgramInit, RecordInvNext, ProgramNext, ReadersTyped, PTL DEF ClientsSpec

(* Snapshots are whole, whenever they are read.                            *)
THEOREM SnapshotsWhole == ClientsSpec => []SnapshotsAreWhole
<1>1. ProgramInv => SnapshotsAreWhole
  <2> SUFFICES ASSUME ProgramInv PROVE SnapshotsAreWhole
    OBVIOUS
  <2>1. Torn \notin json.path
    <3>1. ASSUME NEW v, IsVersion(v) PROVE v # Torn
      BY <3>1 DEF IsVersion, Torn
    <3> QED
      BY <3>1 DEF ProgramInv, JsonInv
  <2>2. DOMAIN csv = 1 .. Len(csv)
    BY LenProperties DEF ProgramInv, CsvInv
  <2>3. \A j \in DOMAIN csv :
          /\ csv[j] = Header => \A i \in 1 .. j - 1 : csv[i] = Torn
          /\ csv[j][1] >= 0 => /\ \E i \in 1 .. j - 1 : csv[i] = Header
                               /\ \A i \in 1 .. j - 1 : csv[i][1] <= csv[j][1]
    BY <2>2 DEF ProgramInv, CsvInv
  <2>4. reader = "viewsb" /\ pc = "end" /\ CountReached /\ ~interactive =>
          /\ "json" \notin failed => json.path = {<<Len(got), registry>>}
          /\ "csv" \notin failed => csv[Len(csv)] = <<Len(got), registry>>
    BY DEF ProgramInv, FinalInv, Snapshot
  <2> QED
    BY <2>1, <2>3, <2>4 DEF SnapshotsAreWhole
<1> QED
  BY <1>1, ProgramsInvariant, PTL

-----------------------------------------------------------------------------
(* Bounds of what is sent.                                                 *)

(* What bounds what is sent.                                               *)
SentBound == Len(sent) <= MaxSent[reader]

(* Nothing has been sent.                                                  *)
LEMMA SentInit == ClientsInit => SentBound
<1> SUFFICES ASSUME ClientsInit PROVE SentBound
  OBVIOUS
<1>1. reader \in Readers /\ sent = <<>>
  BY DEF ClientsInit, Init
<1>2. MaxSent[reader] \in Nat
  BY <1>1, ReadersAssumption
<1> QED
  BY <1>1, <1>2 DEF SentBound

(* SentBound is kept by every step.                                        *)
LEMMA SentNext ==
  ASSUME ReadersInv, SentBound, [ClientsNext]_allVars
  PROVE  SentBound'
<1>1. ASSUME UNCHANGED <<sent, reader>> PROVE SentBound'
  BY <1>1 DEF SentBound
<1>2. CASE UNCHANGED allVars
  BY <1>1, <1>2 DEF allVars, vars
<1>3. ASSUME NEW f \in Sendable[reader], Send(f) PROVE SentBound'
  <2>1. PICK s \in Seq(BeastFrame), n \in Nat, m \in Nat : s = sent /\ n = Len(s) /\ m = MaxSent[reader]
    <3>1. MaxSent[reader] \in Nat
      BY ReadersAssumption DEF ReadersInv, ReaderTypes
    <3>2. sent \in Seq(BeastFrame) /\ Len(sent) \in Nat
      BY LenProperties DEF ReadersInv, OnWire
    <3> QED
      BY <3>1, <3>2
  <2>2. PICK g \in BeastFrame : g = Frame(f)
    BY <1>3, SendableFrames DEF ReadersInv, ReaderTypes
  <2>3. n < m /\ sent' = Append(s, g) /\ reader' = reader
    BY <1>3, <2>1, <2>2 DEF Send
  <2>4. Len(sent') = n + 1
    BY <2>1, <2>3, AppendProperties
  <2> QED
    BY <2>1, <2>3, <2>4 DEF SentBound
<1>4. CASE \E r \in Reads : ClientRead(r)
  BY <1>1, <1>4 DEF ClientRead
<1>5. CASE \E r \in Reads : Batch(r)
  BY <1>1, <1>5 DEF Batch, BatchRead
<1>6. CASE Timeout \/ ReadError
  BY <1>1, <1>6 DEF Timeout, BatchEnd, ReadError, BatchError
<1>7. CASE CompareWindow
  <2>1. PICK m \in Nat, n \in Nat : m = Len(sent) /\ n = Len(wire) /\ n <= m /\ sent \in Seq(BeastFrame)
    BY LenProperties DEF ReadersInv, OnWire
  <2>2. PICK t \in 0 .. Len(sent) : t = Taken
    <3>1. m - n \in 0 .. m
      BY <2>1
    <3> QED
      BY <2>1, <3>1 DEF Taken
  <2>3. sent' = SubSeq(sent, 1, t) /\ reader' = reader
    BY <1>7, <2>2 DEF CompareWindow
  <2>4. Len(sent') = t
    BY <2>1, <2>3, PrefixType
  <2>5. MaxSent[reader] \in Nat
    BY ReadersAssumption DEF ReadersInv, ReaderTypes
  <2>6. t <= MaxSent[reader]
    BY <2>1, <2>2, <2>5 DEF SentBound
  <2> QED
    BY <2>3, <2>4, <2>6 DEF SentBound
<1>8. CASE Works
  BY <1>1, <1>8, WorksKeep DEF vars
<1> QED
  BY <1>2, <1>3, <1>4, <1>5, <1>6, <1>7, <1>8, Zenon DEF ClientsNext, Works

(* The readers' state is well typed, and what is sent is bounded, also     *)
(* after a window of compare.                                              *)
THEOREM ReadersTypeOK == ClientsSpec => []TypeOK
<1>1. ReadersInv /\ SentBound /\ [ClientsNext]_allVars => SentBound'
  BY SentNext
<1>2. ReadersInv /\ SentBound => TypeOK
  <2> SUFFICES ASSUME ReadersInv, SentBound PROVE TypeOK
    OBVIOUS
  <2>1. Len(frames) \in Nat /\ MaxFrames[reader] \in Nat /\ Len(frames) < MaxFrames[reader]
    BY LenProperties, Constants DEF ReadersInv, ReaderTypes
  <2>2. Len(frames) <= MaxFrames[reader]
    BY <2>1
  <2> QED
    BY <2>2 DEF ReadersInv, ReaderTypes, OnWire, SentBound, TypeOK
<1> QED
  BY <1>1, <1>2, SentInit, ReadersTyped, PTL DEF ClientsSpec

-----------------------------------------------------------------------------
(* Replay by its steps, and of a file of records.                          *)

(* A record of a file, and where the one behind it begins.                 *)
RecordAt(b, i) == [type |-> b[i], payload |-> SubSeq(b, i + 2, Min({i + 1 + b[i + 1], Len(b)}))]

(* Where the next one begins.                                              *)
RecordEnd(b, i) == Min({i + 2 + b[i + 1], Len(b) + 1})

(* What a file may hold.                                                   *)
Recorded == [type : Nat, payload : Seq(Nat)]

(* The equations of Replay, at every place of a file.                      *)
IsReplay(r, b) ==
  \A i \in 1 .. Len(b) + 1 :
    /\ r[i] \in Seq(Recorded)
    /\ IF Complete(b, i) THEN IsPreceded(r[i], RecordAt(b, i), r[RecordEnd(b, i)]) ELSE r[i] = <<>>

(* A complete record is a frame, and ends before the file does.            *)
LEMMA RecordParts ==
  ASSUME NEW b \in Seq(Nat), NEW i \in 1 .. Len(b) + 1, Complete(b, i)
  PROVE  /\ RecordAt(b, i) \in Recorded
         /\ RecordAt(b, i) = [type |-> b[i], payload |-> SubSeq(b, i + 2, i + 1 + b[i + 1])]
         /\ RecordEnd(b, i) = i + 2 + b[i + 1] /\ RecordEnd(b, i) \in i + 1 .. Len(b) + 1
<1>1. PICK n \in Nat : n = Len(b)
  BY LenProperties
<1>2. i + 1 <= n /\ i \in 1 .. n /\ i + 1 \in 1 .. n
  BY <1>1 DEF Complete
<1>3. PICK t \in Nat, l \in Nat : t = b[i] /\ l = b[i + 1]
  BY <1>1, <1>2, ElementOfSeq
<1>4. i + 1 + l <= n
  BY <1>1, <1>3 DEF Complete
<1>5. Min({i + 1 + l, n}) = i + 1 + l
  <2>1. i + 1 + l \in Int /\ n \in Int
    OBVIOUS
  <2> QED
    BY <2>1, <1>4, MinOfTwo
<1>6. Min({i + 2 + l, n + 1}) = i + 2 + l
  <2>1. i + 2 + l \in Int /\ n + 1 \in Int /\ i + 2 + l <= n + 1
    BY <1>4
  <2> QED
    BY <2>1, MinOfTwo
<1>7. SubSeq(b, i + 2, i + 1 + l) \in Seq(Nat)
  <2>1. i + 2 \in Nat \ {0} /\ i + 1 + l \in 0 .. Len(b)
    BY <1>1, <1>4
  <2> QED
    BY <2>1, SubSeqType
<1>8. RecordAt(b, i) = [type |-> t, payload |-> SubSeq(b, i + 2, i + 1 + l)]
  BY <1>1, <1>3, <1>5, Zenon DEF RecordAt
<1>9. RecordEnd(b, i) = i + 2 + l
  BY <1>1, <1>3, <1>6, Zenon DEF RecordEnd
<1>10. i + 2 + l \in i + 1 .. n + 1
  BY <1>4
<1>11. RecordAt(b, i) \in Recorded
  BY <1>7, <1>8 DEF Recorded
<1> QED
  BY <1>1, <1>3, <1>8, <1>9, <1>10, <1>11

(* Replay has its equations.                                               *)
LEMMA ReplayBySteps ==
  ASSUME NEW b \in Seq(Nat)
  PROVE  \E r : IsReplay(r, b) /\ Replay(b) = r[1]
<1> DEFINE D == 1 .. Len(b) + 1
           A == Seq(Recorded)
           from[i \in 1 .. Len(b) + 1] ==
             IF Complete(b, i)
             THEN <<[type |-> b[i], payload |-> SubSeq(b, i + 2, Min({i + 1 + b[i + 1], Len(b)}))]>>
                    \o from[Min({i + 2 + b[i + 1], Len(b) + 1})]
             ELSE <<>>
           mu == [i \in D |-> Len(b) + 1 - i]
           step(g, i) == IF Complete(b, i) THEN <<RecordAt(b, i)>> \o g[RecordEnd(b, i)] ELSE <<>>
           body(g) == [i \in D |-> step(g, i)]
           F == [g \in [D -> A] |-> body(g)]
<1>0. Len(b) \in Nat
  BY LenProperties
<1>a. mu \in [D -> Nat]
  BY <1>0
<1>b. ASSUME NEW i \in D, Complete(b, i)
      PROVE  \E j \in D : j = RecordEnd(b, i) /\ mu[j] < mu[i]
  <2>1. RecordEnd(b, i) \in i + 1 .. Len(b) + 1
    BY <1>b, RecordParts
  <2>2. PICK j \in i + 1 .. Len(b) + 1 : j = RecordEnd(b, i)
    BY <2>1
  <2>3. j \in D /\ mu[j] < mu[i]
    BY <1>0
  <2> QED
    BY <2>2, <2>3
<1>1. F \in [[D -> A] -> [D -> A]]
  <2>1. ASSUME NEW g \in [D -> A], NEW i \in D
        PROVE  step(g, i) \in A
    <3>1. CASE ~Complete(b, i)
      BY <3>1
    <3>2. CASE Complete(b, i)
      <4>1. PICK j \in D : j = RecordEnd(b, i)
        BY <3>2, <1>b
      <4>2. PICK x \in Recorded : x = RecordAt(b, i)
        BY <3>2, RecordParts
      <4>3. <<x>> \in A
        OBVIOUS
      <4>4. g[j] \in A
        <5> HIDE DEF A, D
        <5> QED
          OBVIOUS
      <4>5. <<x>> \o g[j] \in A
        BY <4>3, <4>4, Concat, Zenon
      <4> QED
        BY <4>1, <4>2, <4>5, <3>2, Zenon
    <3> QED
      BY <3>1, <3>2
  <2> HIDE DEF A, D, step
  <2>2. \A g \in [D -> A] : body(g) \in [D -> A]
    BY <2>1
  <2> HIDE DEF body
  <2> QED
    BY <2>2
<1>2. IsRecursion(D, A, mu, F)
  <2>1. ASSUME NEW g \in [D -> A], NEW h \in [D -> A], NEW d \in D, \A e \in D : mu[e] < mu[d] => g[e] = h[e]
        PROVE  F[g][d] = F[h][d]
    <3>0. step(g, d) = step(h, d)
      <4>1. CASE ~Complete(b, d)
        BY <4>1
      <4>2. CASE Complete(b, d)
        <5>1. PICK j \in D : j = RecordEnd(b, d) /\ mu[j] < mu[d]
          BY <4>2, <1>b
        <5>2. g[j] = h[j]
          BY <2>1, <5>1
        <5> QED
          BY <5>1, <5>2, Zenon
      <4> QED
        BY <4>1, <4>2
    <3> HIDE DEF A, D, mu, step
    <3> QED
      BY <3>0
  <2> HIDE DEF A, D, mu, F
  <2> QED
    BY <1>1, <1>a, <2>1 DEF IsRecursion
<1>3. PICK f \in [D -> A] : f = F[f]
  <2>1. A # {}
    <3>1. <<>> \in A
      OBVIOUS
    <3> QED
      BY <3>1
  <2> HIDE DEF A, D, mu, F
  <2> QED
    BY <1>2, <2>1, RecursionHasSolution
<1>4. f = body(f)
  <2> HIDE DEF body, A, D
  <2> QED
    BY <1>3
<1>5. from = body(from)
  <2>1. f = [i \in 1 .. Len(b) + 1 |->
              IF Complete(b, i)
              THEN <<[type |-> b[i], payload |-> SubSeq(b, i + 2, Min({i + 1 + b[i + 1], Len(b)}))]>>
                     \o f[Min({i + 2 + b[i + 1], Len(b) + 1})]
              ELSE <<>>]
    BY <1>4, Zenon DEF RecordAt, RecordEnd
  <2>2. from = [i \in 1 .. Len(b) + 1 |->
              IF Complete(b, i)
              THEN <<[type |-> b[i], payload |-> SubSeq(b, i + 2, Min({i + 1 + b[i + 1], Len(b)}))]>>
                     \o from[Min({i + 2 + b[i + 1], Len(b) + 1})]
              ELSE <<>>]
    <3> HIDE DEF F, A
    <3> QED
      BY <2>1, Zenon
  <2> HIDE DEF from
  <2> QED
    BY <2>2, Zenon DEF RecordAt, RecordEnd
<1>6. Replay(b) = from[1]
  BY Zenon DEF Replay
<1> HIDE DEF F, from
<1>7. from = f
  <2> DEFINE Same == {d \in D : from[d] = f[d]}
  <2>1. ASSUME NEW d \in D, \A e \in D : mu[e] < mu[d] => e \in Same PROVE d \in Same
    <3>0. step(from, d) = step(f, d)
      <4>1. CASE ~Complete(b, d)
        BY <4>1
      <4>2. CASE Complete(b, d)
        <5>1. PICK j \in D : j = RecordEnd(b, d) /\ mu[j] < mu[d]
          BY <4>2, <1>b
        <5>2. from[j] = f[j]
          BY <2>1, <5>1
        <5> QED
          BY <5>1, <5>2, Zenon
      <4> QED
        BY <4>1, <4>2
    <3> HIDE DEF A, D, mu, step
    <3> QED
      BY <3>0, <1>4, <1>5
  <2>2. D \subseteq Same
    <3> HIDE DEF D, mu, Same
    <3> QED
      BY <1>a, <2>1, MeasureInduction
  <2> HIDE DEF D, A, step
  <2> QED
    BY <2>2, <1>4, <1>5
<1>8. ASSUME NEW i \in D PROVE f[i] \in Seq(Recorded) /\ f[i] = step(f, i)
  <2>1. f[i] \in A
    <3> HIDE DEF A, D
    <3> QED
      OBVIOUS
  <2> HIDE DEF D, step
  <2> QED
    BY <2>1, <1>4
<1>9. IsReplay(f, b)
  BY <1>8, Zenon DEF IsReplay, IsPreceded
<1> QED
  BY <1>6, <1>7, <1>9

(* The records of some frames, one behind the other.                       *)
Records(s) == [i \in 1 .. Len(s) |-> Record(s[i])]

(* The bytes of the first n of them.                                       *)
RecordBytes(s, n) == Bytes(Records(s), n)

(* Bytes are numbers.                                                      *)
LEMMA ByteIsNumber == Byte \subseteq Nat
BY DEF Byte

(* Sequences of bytes are sequences of numbers.                            *)
LEMMA BytesAreNumbers == \A s \in Seq(Byte) : s \in Seq(Nat)
<1> SUFFICES ASSUME NEW s \in Seq(Byte) PROVE s \in Seq(Nat)
  OBVIOUS
<1>1. PICK n \in Nat : n = Len(s) /\ DOMAIN s = 1 .. n
  BY LenProperties
<1>2. ASSUME NEW i \in 1 .. n PROVE s[i] \in Nat
  <2>1. s[i] \in Byte
    BY <1>1, ElementOfSeq
  <2> QED
    BY <2>1, ByteIsNumber
<1>3. s \in [1 .. n -> Nat]
  BY <1>1, <1>2
<1> QED
  BY <1>3, FunctionIsSequence

(* A record is its type, its length and its payload.                       *)
LEMMA RecordType ==
  ASSUME NEW f \in BeastFrame
  PROVE  /\ Record(f) \in Seq(Nat) /\ Len(f.payload) \in Nat /\ Len(Record(f)) = 2 + Len(f.payload)
         /\ Record(f)[1] = f.type /\ Record(f)[2] = Len(f.payload)
         /\ \A i \in 1 .. Len(f.payload) : Record(f)[2 + i] = f.payload[i]
         /\ f = [type |-> f.type, payload |-> f.payload]
<1>1. PICK t \in Nat, p \in Seq(Nat) : t = f.type /\ p = f.payload
  <2>1. f.type \in Nat
    <3>1. f.type \in DOMAIN PayloadLen
      BY DEF BeastFrame
    <3>2. f.type \in Byte
      BY <3>1, CodecAssumption
    <3> QED
      BY <3>2 DEF Byte
  <2>2. f.payload \in Seq(Byte)
    BY DEF BeastFrame
  <2>4. f.payload \in Seq(Nat)
    BY <2>2, BytesAreNumbers
  <2> QED
    BY <2>1, <2>4
<1>2. PICK l \in Nat : l = Len(p)
  BY LenProperties
<1>3. PICK h \in Seq(Nat) : h = <<t, l>> /\ Len(h) = 2 /\ h[1] = t /\ h[2] = l
  <2>1. <<t, l>> \in Seq(Nat)
    OBVIOUS
  <2>2. Len(<<t, l>>) = 2 /\ <<t, l>>[1] = t /\ <<t, l>>[2] = l
    OBVIOUS
  <2> QED
    BY <2>1, <2>2, Zenon
<1>4. PICK r \in Seq(Nat) : r = h \o p
  BY Concat
<1>5. Len(r) = 2 + l /\ (\A i \in 1 .. 2 : r[i] = h[i]) /\ \A i \in 1 .. l : r[2 + i] = p[i]
  BY <1>2, <1>3, <1>4, Concat
<1>6. r[1] = t /\ r[2] = l
  BY <1>3, <1>5
<1>7. Record(f) = r
  BY <1>1, <1>2, <1>3, <1>4, Zenon DEF Record
<1>8. f = [type |-> f.type, payload |-> f.payload]
  BY DEF BeastFrame
<1> QED
  BY <1>1, <1>2, <1>5, <1>6, <1>7, <1>8

(* The records of frames, one by one.                                      *)
LEMMA RecordsType ==
  ASSUME NEW s \in Seq(BeastFrame)
  PROVE  /\ Records(s) \in Seq(Seq(Nat)) /\ Len(Records(s)) = Len(s) /\ Len(s) \in Nat
         /\ \A i \in 1 .. Len(s) : Records(s)[i] = Record(s[i]) /\ s[i] \in BeastFrame
<1>1. PICK n \in Nat : n = Len(s)
  BY LenProperties
<1>2. ASSUME NEW i \in 1 .. n PROVE s[i] \in BeastFrame /\ Record(s[i]) \in Seq(Nat)
  <2>1. s[i] \in BeastFrame
    BY <1>1, ElementOfSeq
  <2> QED
    BY <2>1, RecordType
<1>3. Records(s) \in [1 .. n -> Seq(Nat)] /\ \A i \in 1 .. n : Records(s)[i] = Record(s[i])
  BY <1>1, <1>2 DEF Records
<1> QED
  BY <1>1, <1>2, <1>3, FunctionIsSequence

(* In a file b of l bytes are the records of n frames, each as far as it   *)
(* goes.                                                                   *)
IsFile(b, l, pos, fs, n) ==
  /\ b \in Seq(Nat) /\ l = Len(b)
  /\ \A m \in 1 .. n + 1 : pos[m] \in Nat \ {0}
  /\ \A m \in 1 .. n : fs[m] \in BeastFrame /\ pos[m + 1] = pos[m] + 2 + Len(fs[m].payload)
  /\ \A m \in 1 .. n : \A i \in 1 .. 2 + Len(fs[m].payload) :
       pos[m] + i - 1 <= l => b[pos[m] + i - 1] = Record(fs[m])[i]

(* Where the m-th record begins and ends.                                  *)
Bounds(pos, m, p, q) == p = pos[m] /\ q = pos[m + 1]

(* What is at p in a file of l bytes is the record of f, which ends at q.  *)
IsRecord(b, p, f, q, l) ==
  /\ Complete(b, p) <=> q <= l + 1
  /\ Complete(b, p) => RecordAt(b, p) = f /\ RecordEnd(b, p) = q

(* A record that is complete is a frame, and the next record follows.      *)
LEMMA CompleteRecord ==
  ASSUME NEW b, NEW l \in Nat, NEW pos, NEW fs, NEW n \in Nat, IsFile(b, l, pos, fs, n),
         NEW m \in 1 .. n, NEW p \in Nat \ {0}, NEW q \in Nat,
         Bounds(pos, m, p, q), p <= l + 1
  PROVE  IsRecord(b, p, fs[m], q, l)
<1>0. /\ pos[m] \in Nat \ {0} /\ pos[m + 1] \in Nat /\ Len(fs[m].payload) \in Nat
      /\ pos[m + 1] = pos[m] + 2 + Len(fs[m].payload) /\ fs[m].payload \in Seq(Byte)
  <2>1. m \in 1 .. n + 1 /\ m + 1 \in 1 .. n + 1
    OBVIOUS
  <2>2. fs[m].payload \in Seq(Byte)
    BY DEF IsFile, BeastFrame
  <2>3. Len(fs[m].payload) \in Nat
    BY <2>2, LenProperties
  <2> QED
    BY <2>1, <2>2, <2>3 DEF IsFile
<1>1. PICK k \in Nat :
        p = pos[m] /\ q = pos[m + 1] /\ k = Len(fs[m].payload) /\ q = p + 2 + k
  BY <1>0 DEF Bounds
<1>z. q = p + 2 + k
  BY <1>1
<1>y. PICK t, y : t = fs[m].type /\ y = fs[m].payload
  OBVIOUS
<1>2. \A i \in 1 .. 2 + k : p + i - 1 <= l => b[p + i - 1] = Record(fs[m])[i]
  BY <1>1 DEF IsFile
<1>3. /\ Record(fs[m])[1] = t /\ Record(fs[m])[2] = k
      /\ \A i \in 1 .. k : Record(fs[m])[2 + i] = y[i]
      /\ fs[m] = [type |-> t, payload |-> y]
  BY <1>1, <1>y, RecordType DEF IsFile
<1>4. l = Len(b) /\ p <= l + 1
  BY <1>1 DEF IsFile
<1>5. p + 1 <= l => b[p] = t /\ b[p + 1] = k
  <2> SUFFICES ASSUME p + 1 <= l PROVE b[p] = t /\ b[p + 1] = k
    OBVIOUS
  <2>1. 1 \in 1 .. 2 + k /\ 2 \in 1 .. 2 + k /\ p + 1 - 1 = p /\ p + 2 - 1 = p + 1 /\ p <= l
    OBVIOUS
  <2>2. b[p + 1 - 1] = Record(fs[m])[1] /\ b[p + 2 - 1] = Record(fs[m])[2]
    BY <2>1, <1>2
  <2> QED
    BY <2>1, <2>2, <1>3
<1>6. Complete(b, p) <=> q <= l + 1
  <2>1. CASE p + 1 <= l
    <3>1. Complete(b, p) <=> p + 1 + k <= l
      BY <2>1, <1>4, <1>5 DEF Complete
    <3>2. p + 1 + k <= l <=> q <= l + 1
      BY <1>z
    <3> QED
      BY <3>1, <3>2, Zenon
  <2>2. CASE ~(p + 1 <= l)
    <3>1. ~(q <= l + 1)
      BY <2>2, <1>z
    <3>2. ~Complete(b, p)
      BY <2>2, <1>4 DEF Complete
    <3> QED
      BY <3>1, <3>2, Zenon
  <2> QED
    BY <2>1, <2>2
<1>7. ASSUME Complete(b, p) PROVE RecordAt(b, p) = fs[m] /\ RecordEnd(b, p) = q
  <2>1. p + 1 <= l /\ q <= l + 1
    BY <1>4, <1>6, <1>7 DEF Complete
  <2>2. p \in 1 .. Len(b) + 1 /\ b \in Seq(Nat)
    BY <1>4 DEF IsFile
  <2>3. /\ RecordAt(b, p) = [type |-> b[p], payload |-> SubSeq(b, p + 2, p + 1 + b[p + 1])]
        /\ RecordEnd(b, p) = p + 2 + b[p + 1]
    BY <2>2, <1>7, RecordParts
  <2>4. RecordAt(b, p) = [type |-> t, payload |-> SubSeq(b, p + 2, p + 1 + k)] /\ RecordEnd(b, p) = q
    BY <2>1, <2>3, <1>1, <1>5
  <2>5. PICK z \in Seq(Nat) : z = SubSeq(b, p + 2, p + 1 + k) /\ Len(z) = k /\ \A i \in 1 .. k : z[i] = b[p + 1 + i]
    <3>1. p + 2 \in Nat \ {0} /\ p + 1 + k \in 0 .. Len(b) /\ b \in Seq(Nat)
      <4>1. p + 2 \in Nat \ {0} /\ p + 1 + k \in 0 .. l
        BY <2>1, <1>z
      <4>2. b \in Seq(Nat) /\ l = Len(b)
        BY DEF IsFile
      <4> QED
        BY <4>1, <4>2
    <3>2. PICK u \in Nat \ {0}, v \in 0 .. Len(b) : u = p + 2 /\ v = p + 1 + k
      BY <3>1
    <3>3. /\ SubSeq(b, u, v) \in Seq(Nat)
          /\ Len(SubSeq(b, u, v)) = IF u <= v THEN v - u + 1 ELSE 0
          /\ \A i \in 1 .. v - u + 1 : SubSeq(b, u, v)[i] = b[u + i - 1]
      BY <3>1, SubSeqType, ZenonT(30)
    <3>4. PICK z \in Seq(Nat) : z = SubSeq(b, u, v) /\ Len(z) = IF u <= v THEN v - u + 1 ELSE 0
      BY <3>3
    <3>8. \A i \in 1 .. v - u + 1 : z[i] = b[u + i - 1]
      BY <3>3, <3>4
    <3>9. z = SubSeq(b, p + 2, p + 1 + k)
      BY <3>2, <3>4
    <3>5. v - u + 1 = k /\ (IF u <= v THEN v - u + 1 ELSE 0) = k /\ \A i \in 1 .. k : u + i - 1 = p + 1 + i
      BY <3>2
    <3>6. Len(z) = k
      BY <3>4, <3>5
    <3>7. \A i \in 1 .. k : z[i] = b[p + 1 + i]
      BY <3>8, <3>5
    <3> QED
      BY <3>9, <3>6, <3>7
  <2>6. ASSUME NEW i \in 1 .. k PROVE z[i] = y[i]
    <3>1. 2 + i \in 1 .. 2 + k /\ p + (2 + i) - 1 = p + 1 + i /\ p + (2 + i) - 1 <= l
      BY <2>1, <1>z
    <3>2. b[p + (2 + i) - 1] = Record(fs[m])[2 + i]
      BY <3>1, <1>2
    <3> QED
      BY <3>1, <3>2, <2>5, <1>3
  <2>7. z = y
    <3>1. y \in Seq(Nat)
      BY <1>0, <1>y, BytesAreNumbers
    <3>2. Len(z) = Len(y) /\ \A i \in 1 .. Len(z) : z[i] = y[i]
      BY <2>5, <2>6, <1>1, <1>y
    <3> QED
      BY <3>1, <3>2, SeqEqual
  <2> QED
    BY <2>4, <2>5, <2>7, <1>3
<1> QED
  BY <1>6, <1>7 DEF IsRecord

(* s is what replaying gives from the m-th of n frames on, e what it gives *)
(* behind them.                                                            *)
IsRun(s, m, fs, n, e) ==
  /\ s \in Seq(Recorded) /\ Len(s) = n + 1 - m + Len(e)
  /\ \A i \in 1 .. n + 1 - m : s[i] = fs[m + i - 1]

(* Replaying gives the frames whose records are all there, and then what   *)
(* there is behind them.                                                   *)
LEMMA ReplayRuns ==
  ASSUME NEW b, NEW l \in Nat, NEW pos, NEW fs, NEW n \in Nat, IsFile(b, l, pos, fs, n),
         \A m \in 1 .. n + 1 : pos[m] <= l + 1,
         NEW r, IsReplay(r, b)
  PROVE  /\ r[pos[n + 1]] \in Seq(Recorded)
         /\ \A m \in 1 .. n + 1 : IsRun(r[pos[m]], m, fs, n, r[pos[n + 1]])
<1>1. b \in Seq(Nat) /\ l = Len(b)
  BY DEF IsFile
<1>2. ASSUME NEW m \in 1 .. n + 1 PROVE r[pos[m]] \in Seq(Recorded)
  <2>1. pos[m] \in 1 .. Len(b) + 1
    <3>1. pos[m] \in Nat \ {0} /\ pos[m] <= l + 1
      BY DEF IsFile
    <3> QED
      BY <3>1, <1>1
  <2> QED
    BY <2>1 DEF IsReplay
<1>3. PICK e \in Seq(Recorded) : e = r[pos[n + 1]]
  <2>1. n + 1 \in 1 .. n + 1
    OBVIOUS
  <2> QED
    BY <2>1, <1>2
<1>4. PICK x \in Nat : x = Len(e)
  BY LenProperties
<1> DEFINE D == 1 .. n + 1
           mu == [m \in D |-> n + 1 - m]
           P == {m \in D : IsRun(r[pos[m]], m, fs, n, e)}
<1>5. mu \in [D -> Nat]
  OBVIOUS
<1>6. ASSUME NEW m \in D, \A j \in D : mu[j] < mu[m] => j \in P
      PROVE  m \in P
  <2>1. ASSUME m + 1 \in D PROVE m + 1 \in P
    BY <1>6, <2>1
  <2> HIDE DEF P
  <2>2. PICK s \in Seq(Recorded) : s = r[pos[m]]
    BY <1>2
  <2>3. SUFFICES IsRun(s, m, fs, n, e)
    BY <2>2 DEF P
  <2>4. CASE m = n + 1
    <3>1. s = e /\ n + 1 - m + x = x
      BY <2>4, <2>2, <1>3
    <3>2. 1 .. n + 1 - m = {}
      BY <2>4
    <3> QED
      BY <3>1, <3>2, <1>4 DEF IsRun
  <2>5. CASE m # n + 1
    <3>1. m \in 1 .. n /\ m + 1 \in D
      BY <2>5
    <3>2. PICK p \in Nat \ {0}, q \in Nat : p = pos[m] /\ q = pos[m + 1] /\ p <= l + 1 /\ q <= l + 1
      <4>1. m + 1 \in 1 .. n + 1
        BY <3>1
      <4> QED
        BY <4>1 DEF IsFile
    <3>3. IsRecord(b, p, fs[m], q, l)
      <4>1. Bounds(pos, m, p, q)
        BY <3>2 DEF Bounds
      <4> HIDE DEF D, mu
      <4> QED
        BY <4>1, <3>1, <3>2, CompleteRecord
    <3>4. Complete(b, p) /\ RecordAt(b, p) = fs[m] /\ RecordEnd(b, p) = q
      BY <3>2, <3>3, Zenon DEF IsRecord
    <3>5. PICK t \in Seq(Recorded) : t = r[q] /\ IsRun(t, m + 1, fs, n, e)
      <4>1. m + 1 \in P
        BY <3>1, <2>1
      <4>2. r[q] \in Seq(Recorded)
        BY <3>1, <3>2, <1>2
      <4> QED
        BY <4>1, <4>2, <3>2 DEF P
    <3>6. p \in 1 .. Len(b) + 1
      BY <3>2, <1>1
    <3>7. PICK y \in Recorded : y = fs[m]
      <4>1. RecordAt(b, p) \in Recorded
        BY <3>4, <3>6, <1>1, RecordParts
      <4> QED
        BY <4>1, <3>4
    <3>8. IsPreceded(s, y, t)
      BY <3>2, <3>4, <3>5, <3>6, <3>7, <2>2 DEF IsReplay
    <3>9. Len(s) = Len(t) + 1 /\ s[1] = y /\ \A i \in 1 .. Len(t) : s[i + 1] = t[i]
      BY <3>8, Preceded
    <3>10. Len(t) = n - m + x /\ \A i \in 1 .. n - m : t[i] = fs[m + i]
      <4>1. Len(t) = n + 1 - (m + 1) + x /\ \A i \in 1 .. n + 1 - (m + 1) : t[i] = fs[m + 1 + i - 1]
        BY <3>5, <1>4 DEF IsRun
      <4>2. n + 1 - (m + 1) = n - m /\ \A i \in 1 .. n - m : m + 1 + i - 1 = m + i
        OBVIOUS
      <4> QED
        BY <4>1, <4>2
    <3>11. Len(s) = n + 1 - m + x
      BY <3>9, <3>10
    <3>12. ASSUME NEW i \in 1 .. n + 1 - m PROVE s[i] = fs[m + i - 1]
      <4>1. CASE i = 1
        <5>1. m + i - 1 = m
          BY <4>1
        <5> QED
          BY <5>1, <4>1, <3>7, <3>9
      <4>2. CASE i # 1
        <5>1. PICK j \in 1 .. n - m : i = j + 1
          <6>1. i - 1 \in 1 .. n - m /\ i = (i - 1) + 1
            BY <4>2
          <6> QED
            BY <6>1
        <5>2. m + j = m + i - 1 /\ j \in 1 .. Len(t)
          BY <5>1, <3>10
        <5>3. s[j + 1] = t[j] /\ t[j] = fs[m + j]
          BY <5>2, <3>9, <3>10
        <5> QED
          BY <5>1, <5>2, <5>3
      <4> QED
        BY <4>1, <4>2
    <3> QED
      BY <3>11, <3>12, <1>4 DEF IsRun
  <2> QED
    BY <2>4, <2>5
<1>7. D \subseteq P
  <2> HIDE DEF D, mu, P
  <2> QED
    BY <1>5, <1>6, MeasureInduction
<1> QED
  BY <1>3, <1>7

-----------------------------------------------------------------------------
(* record: its file is the records of the frames kept, and then what there *)
(* is of the next one, or anything once a record was torn.                 *)

(* The bytes of records are numbers.                                       *)
LEMMA RecordBytesType ==
  ASSUME NEW s \in Seq(BeastFrame), NEW n \in 0 .. Len(s)
  PROVE  RecordBytes(s, n) \in Seq(Nat)
<1>1. Records(s) \in Seq(Seq(Nat)) /\ n \in 0 .. Len(Records(s))
  BY RecordsType
<1> QED
  BY <1>1, BytesType DEF RecordBytes

(* Those of one more frame are those of the frames and its record.         *)
LEMMA RecordBytesNext ==
  ASSUME NEW s \in Seq(BeastFrame), NEW n \in 0 .. Len(s), n < Len(s)
  PROVE  IsSplit(RecordBytes(s, n + 1), RecordBytes(s, n), Record(s[n + 1]))
<1>1. PICK k \in Nat : k = Len(s) /\ n + 1 \in 1 .. k /\ n + 1 - 1 = n
  BY LenProperties
<1>2. PICK w \in Seq(Seq(Nat)) : w = Records(s) /\ Len(w) = k /\ w[n + 1] = Record(s[n + 1])
  BY <1>1, RecordsType
<1>3. PICK m \in 1 .. Len(w) : m = n + 1 /\ m - 1 = n
  BY <1>1, <1>2
<1>4. IsSplit(Bytes(w, m), Bytes(w, m - 1), w[m])
  BY BytesNext
<1> QED
  BY <1>2, <1>3, <1>4, Zenon DEF RecordBytes

(* Frames that are received later change nothing.                          *)
LEMMA RecordBytesKept ==
  ASSUME NEW s \in Seq(BeastFrame), NEW x \in Seq(BeastFrame), NEW t, IsSplit(t, s, x), NEW n \in 0 .. Len(s)
  PROVE  /\ RecordBytes(t, n) = RecordBytes(s, n)
         /\ \A i \in 1 .. Len(s) : t[i] = s[i]
<1>1. PICK z \in Seq(BeastFrame) : z = t /\ z = s \o x
  BY Concat, Zenon DEF IsSplit
<1>2. PICK k \in Nat, l \in Nat : k = Len(s) /\ l = Len(x)
  BY LenProperties
<1>3. Len(z) = k + l /\ \A i \in 1 .. k : z[i] = s[i]
  BY <1>1, <1>2, Concat
<1>4. PICK v \in Seq(Seq(Nat)), w \in Seq(Seq(Nat)) :
        /\ v = Records(s) /\ Len(v) = k /\ w = Records(z) /\ Len(w) = k + l
        /\ \A i \in 1 .. k : v[i] = Record(s[i]) /\ w[i] = Record(z[i])
  <2>1. Records(s) \in Seq(Seq(Nat)) /\ Len(Records(s)) = k /\ \A i \in 1 .. k : Records(s)[i] = Record(s[i])
    BY <1>2, RecordsType
  <2>2. Records(z) \in Seq(Seq(Nat)) /\ Len(Records(z)) = k + l /\ \A i \in 1 .. k + l : Records(z)[i] = Record(z[i])
    BY <1>3, RecordsType
  <2>3. \A i \in 1 .. k : i \in 1 .. k + l
    OBVIOUS
  <2> QED
    BY <2>1, <2>2, <2>3
<1>5. PICK a \in Seq(Seq(Nat)), b \in Seq(Seq(Nat)) :
        /\ a = SubSeq(v, 1, n) /\ Len(a) = n /\ (\A i \in 1 .. n : a[i] = v[i])
        /\ b = SubSeq(w, 1, n) /\ Len(b) = n /\ (\A i \in 1 .. n : b[i] = w[i])
  <2>1. n \in 0 .. Len(v) /\ n \in 0 .. Len(w)
    BY <1>2, <1>4
  <2>2. SubSeq(v, 1, n) \in Seq(Seq(Nat)) /\ Len(SubSeq(v, 1, n)) = n /\ \A i \in 1 .. n : SubSeq(v, 1, n)[i] = v[i]
    BY <2>1, PrefixType
  <2>3. SubSeq(w, 1, n) \in Seq(Seq(Nat)) /\ Len(SubSeq(w, 1, n)) = n /\ \A i \in 1 .. n : SubSeq(w, 1, n)[i] = w[i]
    BY <2>1, PrefixType
  <2> QED
    BY <2>2, <2>3
<1>6. a = b
  <2>1. \A i \in 1 .. n : i \in 1 .. k
    BY <1>2
  <2>2. ASSUME NEW i \in 1 .. n PROVE a[i] = b[i]
    <3>1. i \in 1 .. k /\ z[i] = s[i]
      BY <2>1, <1>3
    <3>2. v[i] = Record(s[i]) /\ w[i] = Record(z[i])
      BY <3>1, <1>4
    <3>3. a[i] = v[i] /\ b[i] = w[i]
      BY <1>5
    <3> QED
      BY <3>1, <3>2, <3>3, Zenon
  <2>3. Len(a) = n /\ Len(b) = n
    BY <1>5
  <2>4. Len(a) = Len(b) /\ \A i \in 1 .. Len(a) : a[i] = b[i]
    BY <2>2, <2>3
  <2> QED
    BY <2>4, SeqEqual
<1>7. RecordBytes(t, n) = RecordBytes(s, n)
  BY <1>1, <1>4, <1>5, <1>6, Zenon DEF RecordBytes, Bytes
<1> QED
  BY <1>1, <1>3, <1>7

(* Those of all.                                                           *)
AllRecords(s) == RecordBytes(s, Len(s))

(* Those of a frame more are those of the frames before and its record.    *)
LEMMA RecordAppended ==
  ASSUME NEW s \in Seq(BeastFrame), NEW f \in BeastFrame
  PROVE  Append(s, f) \in Seq(BeastFrame) /\ IsSplit(AllRecords(Append(s, f)), AllRecords(s), Record(f))
<1>1. PICK n \in Nat : n = Len(s)
  BY LenProperties
<1>2. PICK t \in Seq(BeastFrame) : t = Append(s, f) /\ Len(t) = n + 1 /\ t[n + 1] = f /\ t = s \o <<f>>
  BY <1>1, AppendProperties, AppendIsConcat
<1>3. IsSplit(RecordBytes(t, n + 1), RecordBytes(t, n), Record(t[n + 1]))
  <2>1. n \in 0 .. Len(t) /\ n < Len(t)
    BY <1>2
  <2> QED
    BY <2>1, RecordBytesNext
<1>4. RecordBytes(t, n) = RecordBytes(s, n)
  <2>1. IsSplit(t, s, <<f>>) /\ <<f>> \in Seq(BeastFrame) /\ n \in 0 .. Len(s)
    BY <1>1, <1>2 DEF IsSplit
  <2> QED
    BY <2>1, RecordBytesKept
<1> QED
  BY <1>1, <1>2, <1>3, <1>4, Zenon DEF AllRecords

(* The record at work is what is in the file of it and what is left of it. *)
AtWorkOn(part) ==
  IF writing = <<>> THEN part = <<>> ELSE IsSplit(Record(got[done]), part, writing)

(* What is in the file behind the records kept.                            *)
Behind(part) == IsSplit(file, AllRecords(kept), part) /\ (~torn => AtWorkOn(part))

(* How many frames have been recorded if no write has failed.              *)
RecordedSoFar == IF writing = <<>> THEN done ELSE done - 1

(* The invariant of record.                                                *)
FileInv ==
  /\ file \in Seq(Nat) /\ writing \in Seq(Nat) /\ kept \in Seq(BeastFrame)
  /\ writing # <<>> => done > 0
  /\ \E part \in Seq(Nat) : Behind(part)
  /\ reader = "record" /\ failed = {} =>
       ~torn /\ Len(kept) = RecordedSoFar /\ \A i \in 1 .. Len(kept) : kept[i] = got[i]

(* FileInv holds at first.                                                 *)
LEMMA FileInit == ClientsInit => FileInv
<1> SUFFICES ASSUME ClientsInit PROVE FileInv
  OBVIOUS
<1>1. done = 0 /\ file = <<>> /\ writing = <<>> /\ kept = <<>> /\ ~torn
  BY DEF ClientsInit
<1>2. PICK e \in Seq(Nat) : e = <<>>
  <2>1. <<>> \in Seq(Nat)
    OBVIOUS
  <2> QED
    BY <2>1, Zenon
<1>3. PICK g \in Seq(BeastFrame) : g = <<>> /\ Len(g) = 0
  <2>1. <<>> \in Seq(BeastFrame) /\ Len(<<>>) = 0
    OBVIOUS
  <2> QED
    BY <2>1, Zenon
<1>4. e \o e = e
  BY <1>2
<1>5. AllRecords(g) = e
  <2>1. Records(g) \in Seq(Seq(Nat))
    BY RecordsType
  <2> QED
    BY <2>1, <1>2, <1>3, BytesNone DEF AllRecords, RecordBytes
<1>6. Behind(e)
  BY <1>1, <1>2, <1>3, <1>4, <1>5, Zenon DEF Behind, AtWorkOn, IsSplit
<1>7. Len(kept) = RecordedSoFar /\ 1 .. Len(kept) = {}
  BY <1>1 DEF RecordedSoFar
<1> QED
  BY <1>1, <1>2, <1>3, <1>6, <1>7 DEF FileInv

(* It is kept when frames are received,                                    *)
LEMMA FileGrows ==
  ASSUME ReadersInv, RecordInv, ProgramInv, FileInv, GotGrows,
         UNCHANGED <<reader, done, file, writing, kept, torn, failed>>
  PROVE  FileInv'
<1>1. PICK s \in Seq(BeastFrame), x \in Seq(BeastFrame) : s = got /\ got' = s \o x
  BY DEF GotGrows, ReadersInv, ReaderTypes, IsSplit
<1>2. PICK k \in Nat : k = Len(s)
  BY LenProperties
<1>3. \A i \in 1 .. k : got'[i] = got[i]
  BY <1>1, <1>2, Concat
<1>4. done \in Nat /\ done <= k
  BY <1>1, <1>2 DEF ProgramInv
<1>5. writing # <<>> => got'[done] = got[done]
  <2> SUFFICES ASSUME writing # <<>> PROVE got'[done] = got[done]
    OBVIOUS
  <2>1. done \in 1 .. k
    BY <1>4 DEF FileInv
  <2> QED
    BY <2>1, <1>3
<1>6. \A part : Behind(part) => Behind(part)'
  BY <1>5 DEF Behind, AtWorkOn
<1>7. ASSUME reader = "record", failed = {}
      PROVE  Len(kept) \in Nat /\ Len(kept) <= k
  <2>1. Len(kept) = RecordedSoFar /\ Len(kept) \in Nat
    BY <1>7, LenProperties DEF FileInv
  <2> QED
    BY <2>1, <1>4 DEF RecordedSoFar
<1>8. reader' = "record" /\ failed' = {} =>
        ~torn' /\ Len(kept') = RecordedSoFar' /\ \A i \in 1 .. Len(kept') : kept'[i] = got'[i]
  <2> SUFFICES ASSUME reader = "record", failed = {}
               PROVE  ~torn /\ Len(kept) = RecordedSoFar' /\ \A i \in 1 .. Len(kept) : kept[i] = got'[i]
    OBVIOUS
  <2>1. RecordedSoFar' = RecordedSoFar
    BY DEF RecordedSoFar
  <2>2. ~torn /\ Len(kept) = RecordedSoFar /\ \A i \in 1 .. Len(kept) : kept[i] = got[i]
    BY DEF FileInv
  <2>3. \A i \in 1 .. Len(kept) : i \in 1 .. k
    BY <1>7
  <2> QED
    BY <2>1, <2>2, <2>3, <1>3
<1>9. file' \in Seq(Nat) /\ writing' \in Seq(Nat) /\ kept' \in Seq(BeastFrame) /\ (writing' # <<>> => done' > 0)
  BY DEF FileInv
<1>10. \E part \in Seq(Nat) : Behind(part)'
  BY <1>6 DEF FileInv
<1> QED
  BY <1>8, <1>9, <1>10 DEF FileInv

(* by steps that have nothing to do with the file,                         *)
LEMMA FileKept ==
  ASSUME FileInv, RecordInv, UNCHANGED <<reader, got, file, writing, kept, torn>>,
         reader = "record" => UNCHANGED <<done, failed>>
  PROVE  FileInv'
<1>1. CASE reader = "record"
  <2>1. \A part : Behind(part)' <=> Behind(part)
    BY <1>1 DEF Behind, AtWorkOn
  <2>2. RecordedSoFar' = RecordedSoFar
    BY <1>1 DEF RecordedSoFar
  <2> QED
    BY <2>1, <2>2, <1>1 DEF FileInv
<1>2. CASE reader # "record"
  <2>1. writing = <<>>
    BY <1>2 DEF RecordInv
  <2>2. \A part : Behind(part)' <=> Behind(part)
    BY <2>1 DEF Behind, AtWorkOn
  <2> QED
    BY <2>1, <2>2, <1>2 DEF FileInv
<1> QED
  BY <1>1, <1>2

(* Associative, for numbers.                                               *)
LEMMA NumbersRegroup == \A a, b, c \in Seq(Nat) : Regroups(a, b, c)
BY Associative DEF Regroups

(* by a record that is begun,                                              *)
LEMMA FileNext ==
  ASSUME ReadersInv, ProgramInv, FileInv, RecordNext
  PROVE  FileInv'
<1>1. /\ writing = <<>> /\ done < Len(got)
      /\ writing' = Record(got[done + 1]) /\ done' = done + 1
      /\ UNCHANGED <<reader, got, file, kept, torn, failed>>
  BY DEF RecordNext, vars
<1>2. PICK n \in Nat : n = done /\ n + 1 \in 1 .. Len(got)
  <2>1. PICK k \in Nat : k = Len(got)
    BY LenProperties DEF ReadersInv, ReaderTypes
  <2> QED
    BY <2>1, <1>1 DEF ProgramInv
<1>3. PICK f \in BeastFrame : f = got[n + 1]
  BY <1>2, ElementOfSeq DEF ReadersInv, ReaderTypes
<1>4. PICK r \in Seq(Nat) : r = Record(f) /\ r # <<>> /\ r = <<>> \o r
  <2>1. PICK r \in Seq(Nat), l \in Nat : r = Record(f) /\ Len(r) = 2 + l
    BY RecordType
  <2>2. r # <<>>
    BY <2>1
  <2>3. r = <<>> \o r
    OBVIOUS
  <2> QED
    BY <2>1, <2>2, <2>3
<1>5. PICK part \in Seq(Nat) : Behind(part)
  BY DEF FileInv
<1>6. Behind(part)'
  <2>1. ~torn => part = <<>>
    BY <1>1, <1>5 DEF Behind, AtWorkOn
  <2>2. writing' = r /\ Record(got'[done']) = r
    BY <1>1, <1>2, <1>3, <1>4
  <2>3. ~torn' => AtWorkOn(part)'
    BY <2>1, <2>2, <1>1, <1>4, Zenon DEF AtWorkOn, IsSplit
  <2> QED
    BY <2>3, <1>1, <1>5 DEF Behind
<1>7. reader' = "record" /\ failed' = {} =>
        ~torn' /\ Len(kept') = RecordedSoFar' /\ \A i \in 1 .. Len(kept') : kept'[i] = got'[i]
  <2>1. RecordedSoFar = n /\ RecordedSoFar' = n
    <3>1. RecordedSoFar' = n + 1 - 1
      BY <1>1, <1>2, <1>3, <1>4 DEF RecordedSoFar
    <3> QED
      BY <3>1, <1>1, <1>2 DEF RecordedSoFar
  <2> QED
    BY <2>1, <1>1 DEF FileInv
<1>8. writing' = r /\ done' > 0
  BY <1>1, <1>2, <1>3, <1>4
<1> QED
  BY <1>1, <1>6, <1>7, <1>8 DEF FileInv

(* Some bytes of a record, and the others.                                 *)
LEMMA CutAt ==
  ASSUME NEW w \in Seq(Nat), NEW n \in 1 .. Len(w)
  PROVE  \E x \in Seq(Nat), y \in Seq(Nat) : x = SubSeq(w, 1, n) /\ y = From(w, n + 1) /\ w = x \o y
<1>1. PICK l \in Nat : l = Len(w) /\ n \in 1 .. l
  BY LenProperties
<1>2. n \in 0 .. Len(w) /\ n + 1 \in Nat \ {0} /\ 1 \in 1 .. Len(w) + 1 /\ n \in 1 - 1 .. Len(w) /\ Len(w) \in n .. Len(w)
  BY <1>1
<1>3. PICK x \in Seq(Nat) : x = SubSeq(w, 1, n)
  BY <1>2, PrefixType
<1>4. PICK y \in Seq(Nat) : y = From(w, n + 1)
  BY <1>2, FromType
<1>5. x \o y = SubSeq(w, 1, Len(w))
  BY <1>2, <1>3, <1>4, ConcatAdjacentSubSeq DEF From
<1>6. w = x \o y
  BY <1>5
<1> QED
  BY <1>3, <1>4, <1>6

(* by bytes that are written,                                              *)
LEMMA FileWrites ==
  ASSUME ReadersInv, RecordInv, ProgramInv, FileInv, RecordWrite
  PROVE  FileInv'
<1>1. PICK n \in 1 .. Len(writing) : file' = file \o SubSeq(writing, 1, n) /\ writing' = From(writing, n + 1)
  BY DEF RecordWrite
<1>2. /\ writing # <<>> /\ UNCHANGED <<reader, got, done, torn, failed>>
      /\ kept' = IF writing' = <<>> /\ ~torn THEN Append(kept, got[done]) ELSE kept
  BY DEF RecordWrite, vars
<1>3. PICK part \in Seq(Nat) : Behind(part)
  BY DEF FileInv
<1>4. PICK a \in Seq(Nat), w \in Seq(Nat), c \in Seq(BeastFrame) : a = file /\ w = writing /\ c = kept
  BY DEF FileInv
<1>5. PICK x \in Seq(Nat), y \in Seq(Nat) : x = SubSeq(w, 1, n) /\ y = From(w, n + 1) /\ w = x \o y
  BY <1>1, <1>4, CutAt
<1>6. file' = a \o x /\ writing' = y
  BY <1>1, <1>4, <1>5
<1>7. PICK d \in Nat : d = done /\ d \in 1 .. Len(got)
  <2>1. PICK k \in Nat : k = Len(got)
    BY LenProperties DEF ReadersInv, ReaderTypes
  <2> QED
    BY <2>1, <1>2 DEF ProgramInv, FileInv
<1>8. PICK f \in BeastFrame, r \in Seq(Nat) : f = got[d] /\ r = Record(f)
  <2>1. got[d] \in BeastFrame
    BY <1>7, ElementOfSeq DEF ReadersInv, ReaderTypes
  <2> QED
    BY <2>1, RecordType
<1>9. PICK all \in Seq(Nat) : all = AllRecords(c) /\ a = all \o part
  <2>1. Len(c) \in Nat
    BY LenProperties
  <2>2. Len(c) \in 0 .. Len(c)
    BY <2>1
  <2> QED
    BY <2>2, <1>3, <1>4, RecordBytesType DEF Behind, IsSplit, AllRecords
<1>10. PICK more \in Seq(Nat) : more = part \o x /\ a \o x = all \o more
  <2>1. PICK more \in Seq(Nat) : more = part \o x
    BY Concat
  <2>2. Regroups(all, part, x)
    BY NumbersRegroup
  <2>3. (all \o part) \o x = all \o (part \o x)
    BY <2>2 DEF Regroups
  <2> QED
    BY <2>1, <2>3, <1>9, Zenon
<1>11. ~torn => r = more \o y
  <2> SUFFICES ASSUME ~torn PROVE r = more \o y
    OBVIOUS
  <2>1. r = part \o w
    BY <1>2, <1>3, <1>4, <1>7, <1>8 DEF Behind, AtWorkOn, IsSplit
  <2>2. Regroups(part, x, y)
    BY NumbersRegroup
  <2> QED
    BY <2>1, <2>2, <1>5, <1>10, Zenon DEF Regroups
<1>12. CASE writing' = <<>> /\ ~torn
  <2>1. kept' = Append(c, f)
    BY <1>2, <1>4, <1>7, <1>8, <1>12
  <2>2. Append(c, f) \in Seq(BeastFrame) /\ AllRecords(Append(c, f)) = all \o r
    BY <1>8, <1>9, RecordAppended, Zenon DEF IsSplit
  <2>3. y = <<>> /\ more \o <<>> = more /\ more = r
    <3>1. y = <<>>
      BY <1>6, <1>12
    <3>2. more \o <<>> = more
      OBVIOUS
    <3> QED
      BY <3>1, <3>2, <1>11, <1>12, Zenon
  <2>4. PICK e \in Seq(Nat) : e = <<>> /\ file' = AllRecords(kept') \o e
    <3>1. file' = all \o r
      BY <2>3, <1>6, <1>10
    <3>2. (all \o r) \o <<>> = all \o r /\ <<>> \in Seq(Nat)
      <4>1. PICK z \in Seq(Nat) : z = all \o r
        BY Concat
      <4>2. z \o <<>> = z
        OBVIOUS
      <4> QED
        BY <4>1, <4>2
    <3> QED
      BY <3>1, <3>2, <2>1, <2>2, Zenon
  <2>5. Behind(e)'
    BY <2>3, <2>4, <1>6, Zenon DEF Behind, AtWorkOn, IsSplit
  <2>6. reader' = "record" /\ failed' = {} =>
          ~torn' /\ Len(kept') = RecordedSoFar' /\ \A i \in 1 .. Len(kept') : kept'[i] = got'[i]
    <3> SUFFICES ASSUME reader = "record", failed = {}
                 PROVE  ~torn' /\ Len(kept') = RecordedSoFar' /\ \A i \in 1 .. Len(kept') : kept'[i] = got'[i]
      BY <1>2
    <3>1. Len(c) = d - 1 /\ \A i \in 1 .. Len(c) : c[i] = got[i]
      BY <1>2, <1>4, <1>7 DEF FileInv, RecordedSoFar
    <3>2. RecordedSoFar' = d
      BY <1>2, <1>7, <1>12 DEF RecordedSoFar
    <3>3. Len(kept') = d - 1 + 1 /\ kept'[d - 1 + 1] = f /\ \A i \in 1 .. d - 1 : kept'[i] = c[i]
      BY <2>1, <3>1, AppendProperties
    <3>4. ASSUME NEW i \in 1 .. d PROVE kept'[i] = got'[i]
      <4>1. CASE i = d
        <5>1. d - 1 + 1 = i
          BY <4>1
        <5> QED
          BY <5>1, <4>1, <3>3, <1>2, <1>8
      <4>2. CASE i # d
        <5>1. i \in 1 .. d - 1
          BY <4>2
        <5> QED
          BY <5>1, <3>1, <3>3, <1>2
      <4> QED
        BY <4>1, <4>2
    <3>5. Len(kept') = d
      BY <3>3
    <3> QED
      BY <3>2, <3>4, <3>5, <1>2, <1>12
  <2>7. file' \in Seq(Nat) /\ writing' \in Seq(Nat) /\ kept' \in Seq(BeastFrame) /\ (writing' # <<>> => done' > 0)
    <3>1. file' \in Seq(Nat)
      BY <1>6, <1>10, Concat
    <3> QED
      BY <3>1, <2>1, <2>2, <1>6, <1>12
  <2> QED
    BY <2>4, <2>5, <2>6, <2>7 DEF FileInv
<1>13. CASE ~(writing' = <<>> /\ ~torn)
  <2>1. kept' = c
    BY <1>2, <1>4, <1>13
  <2>2. Behind(more)'
    <3>1. file' = AllRecords(kept') \o more
      BY <2>1, <1>6, <1>9, <1>10
    <3>2. ~torn => Record(got[done]) = more \o y /\ writing' # <<>>
      BY <1>7, <1>8, <1>11, <1>13
    <3> QED
      BY <3>1, <3>2, <1>2, <1>6, Zenon DEF Behind, AtWorkOn, IsSplit
  <2>3. reader' = "record" /\ failed' = {} =>
          ~torn' /\ Len(kept') = RecordedSoFar' /\ \A i \in 1 .. Len(kept') : kept'[i] = got'[i]
    <3> SUFFICES ASSUME reader = "record", failed = {}
                 PROVE  ~torn' /\ Len(kept') = RecordedSoFar' /\ \A i \in 1 .. Len(kept') : kept'[i] = got'[i]
      BY <1>2
    <3>1. ~torn /\ Len(kept) = RecordedSoFar /\ \A i \in 1 .. Len(kept) : kept[i] = got[i]
      BY DEF FileInv
    <3>2. RecordedSoFar' = RecordedSoFar
      BY <3>1, <1>2, <1>13 DEF RecordedSoFar
    <3>3. kept' = kept
      BY <2>1, <1>4
    <3> QED
      BY <3>1, <3>2, <3>3, <1>2
  <2>4. file' \in Seq(Nat) /\ writing' \in Seq(Nat) /\ kept' \in Seq(BeastFrame) /\ (writing' # <<>> => done' > 0)
    <3>1. file' \in Seq(Nat)
      BY <1>6, <1>10, Concat
    <3>2. done' > 0
      BY <1>2 DEF FileInv
    <3> QED
      BY <3>1, <3>2, <2>1, <1>6
  <2> QED
    BY <2>2, <2>3, <2>4 DEF FileInv
<1> QED
  BY <1>12, <1>13

(* and by a write that fails.                                              *)
LEMMA FileFails ==
  ASSUME ReadersInv, ProgramInv, FileInv, RecordFails
  PROVE  FileInv'
<1>1. /\ writing # <<>> /\ writing' = <<>> /\ failed' # {} /\ UNCHANGED <<reader, got, done, file, kept>>
      /\ torn' = (torn \/ Len(writing) < Len(Record(got[done])))
  BY DEF RecordFails, vars
<1>2. PICK part \in Seq(Nat) : Behind(part)
  BY DEF FileInv
<1>3. ~torn' => ~torn /\ part = <<>>
  <2> SUFFICES ASSUME ~torn' PROVE ~torn /\ part = <<>>
    OBVIOUS
  <2>1. ~torn /\ ~(Len(writing) < Len(Record(got[done])))
    BY <1>1
  <2>2. PICK w \in Seq(Nat) : w = writing /\ Record(got[done]) = part \o w
    BY <2>1, <1>1, <1>2 DEF FileInv, Behind, AtWorkOn, IsSplit
  <2>3. PICK l \in Nat, m \in Nat : l = Len(part) /\ m = Len(w)
    BY LenProperties
  <2>4. Len(part \o w) = l + m
    BY <2>3, Concat
  <2>5. ~(m < l + m)
    BY <2>1, <2>2, <2>3, <2>4
  <2>6. l = 0
    BY <2>5
  <2> QED
    BY <2>1, <2>3, <2>6, EmptySeq
<1>4. Behind(part)'
  BY <1>1, <1>2, <1>3 DEF Behind, AtWorkOn
<1>5. <<>> \in Seq(Nat)
  OBVIOUS
<1>6. writing' \in Seq(Nat) /\ writing' = <<>> /\ failed' # {}
  BY <1>1, <1>5
<1> QED
  BY <1>1, <1>4, <1>6 DEF FileInv

(* FileInv is kept by every step.                                          *)
LEMMA FileInvNext ==
  ASSUME ReadersInv, ProgramInv, RecordInv, FileInv, [ClientsNext]_allVars
  PROVE  FileInv'
<1>1. CASE UNCHANGED allVars
  BY <1>1, FileKept DEF allVars, vars, programVars, recordVars
<1>2. CASE (\E f \in Sendable[reader] : Send(f)) /\ UNCHANGED <<pc, programVars>>
  BY <1>2, FileKept DEF Send, programVars, recordVars
<1>3. ASSUME NEW r \in Reads, ClientRead(r), UNCHANGED <<pc, programVars>> PROVE FileInv'
  BY <1>3, TypesClientRead, FileGrows DEF ClientRead, programVars, recordVars
<1>4. ASSUME NEW r \in Reads, Batch(r) PROVE FileInv'
  <2>1. BatchRead(r) /\ UNCHANGED <<reader, done, file, writing, kept, torn, failed>>
    BY <1>4 DEF Batch, BatchRead, programVars, recordVars
  <2> QED
    BY <2>1, TypesBatchRead, FileGrows
<1>5. CASE Timeout
  <2>1. BatchEnd /\ UNCHANGED <<reader, done, file, writing, kept, torn, failed>>
    BY <1>5 DEF Timeout, BatchEnd, programVars, recordVars
  <2> QED
    BY <2>1, TypesBatchEnd, FileGrows
<1>6. CASE ReadError
  <2>1. UNCHANGED <<reader, got, done, file, writing, kept, torn, failed>>
    BY <1>6 DEF ReadError, BatchError, programVars, recordVars
  <2> QED
    BY <2>1, FileKept
<1>7. CASE CompareWindow
  <2>1. reader = "compare" /\ UNCHANGED <<reader, got, file, writing, kept, torn>>
    BY <1>7 DEF CompareWindow, recordVars
  <2> QED
    BY <2>1, FileKept
<1>8. CASE ViewUpdate
  <2>1. reader = "viewsb" /\ UNCHANGED <<reader, got, file, writing, kept, torn>>
    BY <1>8 DEF ViewUpdate, vars, recordVars
  <2> QED
    BY <2>1, FileKept
<1>9. CASE RecordDone \/ CompareOn \/ ViewQuit
  <2>1. UNCHANGED <<reader, got, done, file, writing, kept, torn, failed>>
    BY <1>9 DEF RecordDone, CompareOn, ViewQuit, vars, programVars, recordVars
  <2> QED
    BY <2>1, FileKept
<1>10. CASE JsonCreate \/ JsonWrite \/ JsonRename \/ JsonFails \/ CsvHeader \/ CsvRows \/ CsvFails
  <2>1. UNCHANGED <<reader, got, done, file, writing, kept, torn>> /\ AtFiles
    BY <1>10 DEF JsonCreate, JsonWrite, JsonRename, JsonFails, CsvHeader, CsvRows, CsvFails, vars, recordVars, AtFiles
  <2>2. reader = "viewsb"
    BY <2>1 DEF ProgramInv, FinalInv
  <2> QED
    BY <2>1, <2>2, FileKept
<1> QED
  BY <1>1, <1>2, <1>3, <1>4, <1>5, <1>6, <1>7, <1>8, <1>9, <1>10, FileNext, FileWrites, FileFails, Zenon DEF ClientsNext

(* FileInv always holds.                                                   *)
LEMMA FileInvariant == ClientsSpec => []FileInv
BY FileInit, FileInvNext, ReadersTyped, ProgramsInvariant, PTL DEF ClientsSpec

(* Where the records lie in such a file.                                   *)
LEMMA FileOfRecords ==
  ASSUME NEW s \in Seq(BeastFrame), NEW b \in Seq(Nat), NEW part \in Seq(Nat), IsSplit(b, AllRecords(s), part)
  PROVE  \E pos : /\ IsFile(b, Len(b), pos, s, Len(s)) /\ pos[1] = 1
                  /\ \A m \in 1 .. Len(s) + 1 : pos[m] <= Len(b) + 1
                  /\ pos[Len(s) + 1] = Len(b) - Len(part) + 1
<1>1. PICK n \in Nat, l \in Nat, g \in Nat : n = Len(s) /\ l = Len(b) /\ g = Len(part) /\ n \in 0 .. Len(s)
  <2>1. Len(s) \in Nat /\ Len(b) \in Nat /\ Len(part) \in Nat
    BY LenProperties
  <2> QED
    BY <2>1
<1>2. PICK w \in Seq(Seq(Nat)) : w = Records(s) /\ Len(w) = n /\ \A m \in 1 .. n : w[m] = Record(s[m]) /\ s[m] \in BeastFrame
  BY <1>1, RecordsType
<1>3. PICK rb \in Seq(Nat) : rb = Bytes(w, n) /\ b = rb \o part
  <2>1. RecordBytes(s, n) \in Seq(Nat)
    BY <1>1, RecordBytesType
  <2> QED
    BY <2>1, <1>1, <1>2, Zenon DEF AllRecords, RecordBytes, IsSplit
<1>4. PICK h \in Nat : h = Len(rb) /\ l = h + g /\ \A i \in 1 .. h : b[i] = rb[i]
  <2>1. PICK h \in Nat : h = Len(rb)
    BY LenProperties
  <2>2. Len(rb \o part) = Len(rb) + Len(part) /\ \A i \in 1 .. Len(rb) : (rb \o part)[i] = rb[i]
    BY Concat
  <2>3. l = h + g /\ \A i \in 1 .. h : b[i] = rb[i]
    BY <2>1, <2>2, <1>1, <1>3
  <2> QED
    BY <2>1, <2>3
<1>5. HasFirst(b, 0, w, n)
  <2>1. \A i \in 1 .. h : b[0 + 1 + i - 1] = rb[i]
    <3>1. \A i \in 1 .. h : 0 + 1 + i - 1 = i
      OBVIOUS
    <3> QED
      BY <3>1, <1>4
  <2>2. Holds(b, 0 + 1, rb)
    BY <2>1, <1>4 DEF Holds
  <2> QED
    BY <2>2, <1>3, Zenon DEF HasFirst
<1>6. PICK pos : IsLayout(pos, b, 0, w, n) /\ pos[n + 1] = 0 + 1 + Len(Bytes(w, n))
  <2>1. n \in 0 .. Len(w) /\ 0 \in Nat
    BY <1>2
  <2> QED
    BY <2>1, <1>5, Layout
<1>7. pos[n + 1] = l - g + 1
  <2>1. 0 + 1 + h = l - g + 1
    BY <1>4
  <2> QED
    BY <2>1, <1>3, <1>4, <1>6
<1>8. pos[1] = 1
  <2>1. pos[1] = 0 + 1
    BY <1>6 DEF IsLayout
  <2> QED
    BY <2>1
<1>9. \A m \in 1 .. n + 1 : pos[m] \in Nat \ {0}
  BY <1>6 DEF IsLayout
<1>10. ASSUME NEW m \in 1 .. n
       PROVE  /\ s[m] \in BeastFrame
              /\ pos[m + 1] = pos[m] + 2 + Len(s[m].payload) /\ pos[m] < pos[m + 1]
              /\ \A i \in 1 .. 2 + Len(s[m].payload) :
                   pos[m] + i - 1 <= l => b[pos[m] + i - 1] = Record(s[m])[i]
  <2>1. m \in 1 .. n + 1
    OBVIOUS
  <2>2. w[m] = Record(s[m]) /\ s[m] \in BeastFrame /\ pos[m + 1] = pos[m] + Len(w[m]) /\ Holds(b, pos[m], w[m])
    BY <2>1, <1>2, <1>6 DEF IsLayout
  <2>3. PICK p \in Nat \ {0}, k \in Nat : p = pos[m] /\ k = Len(s[m].payload)
    BY <2>1, <2>2, <1>9, RecordType
  <2>4. Len(w[m]) = 2 + k
    BY <2>2, <2>3, RecordType
  <2>5. pos[m + 1] = p + 2 + k /\ p < p + 2 + k
    <3>1. p + (2 + k) = p + 2 + k /\ p < p + 2 + k
      OBVIOUS
    <3> QED
      BY <3>1, <2>2, <2>3, <2>4
  <2>6. \A i \in 1 .. 2 + k : b[p + i - 1] = Record(s[m])[i]
    BY <2>2, <2>3, <2>4 DEF Holds
  <2> QED
    BY <2>2, <2>3, <2>5, <2>6
<1>11. \A m \in 1 .. n + 1 : pos[m] <= l + 1
  <2>1. \A m \in 1 .. n + 1 : pos[m] \in Nat
    BY <1>9
  <2>2. \A i, m \in 1 .. n + 1 : i < m => pos[i] < pos[m]
    BY <2>1, <1>10, StepsAscend
  <2> SUFFICES ASSUME NEW m \in 1 .. n + 1 PROVE pos[m] <= l + 1
    OBVIOUS
  <2>3. PICK u \in Nat, v \in Nat : u = pos[m] /\ v = pos[n + 1] /\ v <= l + 1
    <3>1. n + 1 \in 1 .. n + 1 /\ l - g + 1 <= l + 1
      OBVIOUS
    <3> QED
      BY <3>1, <2>1, <1>7
  <2>4. u <= v
    <3>1. CASE m = n + 1
      BY <3>1, <2>3
    <3>2. CASE m # n + 1
      <4>1. n + 1 \in 1 .. n + 1 /\ m < n + 1
        BY <3>2
      <4>2. u < v
        BY <4>1, <2>2, <2>3
      <4> QED
        BY <4>2
    <3> QED
      BY <3>1, <3>2
  <2> QED
    BY <2>3, <2>4
<1>12. IsFile(b, l, pos, s, n)
  BY <1>1, <1>9, <1>10 DEF IsFile
<1> QED
  BY <1>1, <1>7, <1>8, <1>11, <1>12

(* A part of a record that is not all of it cannot be replayed.            *)
LEMMA PartIsNothing ==
  ASSUME NEW b \in Seq(Nat), NEW f \in BeastFrame, NEW part \in Seq(Nat), NEW w \in Seq(Nat), w # <<>>,
         IsSplit(Record(f), part, w), NEW p \in Nat \ {0}, p = Len(b) - Len(part) + 1,
         \A i \in 1 .. Len(part) : b[p + i - 1] = part[i]
  PROVE  ~Complete(b, p)
<1>1. PICK l \in Nat, g \in Nat, h \in Nat : l = Len(b) /\ g = Len(part) /\ h = Len(w) /\ h > 0
  <2>1. Len(b) \in Nat /\ Len(part) \in Nat /\ Len(w) \in Nat /\ Len(w) # 0
    BY LenProperties, EmptySeq
  <2> QED
    BY <2>1
<1>2. PICK r \in Seq(Nat), k \in Nat : r = Record(f) /\ Len(r) = 2 + k /\ r[2] = k
  BY RecordType
<1>3. r = part \o w
  BY <1>2 DEF IsSplit
<1>4. 2 + k = g + h /\ \A i \in 1 .. g : r[i] = part[i]
  BY <1>1, <1>2, <1>3, Concat
<1>5. p = l - g + 1
  BY <1>1
<1>6. CASE g < 2
  <2>1. ~(p + 1 <= l)
    BY <1>5, <1>6
  <2> QED
    BY <2>1, <1>1 DEF Complete
<1>7. CASE ~(g < 2)
  <2>1. 2 \in 1 .. g /\ p + 2 - 1 = p + 1
    BY <1>7
  <2>2. b[p + 1] = k
    BY <2>1, <1>1, <1>2, <1>4
  <2>3. ~(p + 1 + k <= l)
    BY <1>1, <1>4, <1>5
  <2> QED
    BY <2>2, <2>3, <1>1 DEF Complete
<1> QED
  BY <1>6, <1>7

(* A file as FileInv has it is usable.                                     *)
LEMMA RecordingMeans ==
  ASSUME ReadersInv, ProgramInv, FileInv
  PROVE  RecordingIsUsable
<1>1. PICK s \in Seq(BeastFrame), b \in Seq(Nat), part \in Seq(Nat) :
        s = kept /\ b = file /\ Behind(part) /\ IsSplit(b, AllRecords(s), part)
  BY DEF FileInv, Behind
<1>2. PICK n \in Nat, l \in Nat, g \in Nat : n = Len(s) /\ l = Len(b) /\ g = Len(part)
  BY LenProperties
<1>3. PICK pos : /\ IsFile(b, l, pos, s, n) /\ pos[1] = 1
                 /\ \A m \in 1 .. n + 1 : pos[m] <= l + 1
                 /\ pos[n + 1] = l - g + 1
  BY <1>1, <1>2, FileOfRecords
<1>4. PICK f : IsReplay(f, b) /\ Replay(b) = f[1]
  BY ReplayBySteps
<1>5. PICK e \in Seq(Recorded), z \in Seq(Recorded) : e = f[pos[n + 1]] /\ z = Replay(b) /\ IsRun(z, 1, s, n, e)
  <2>1. 1 \in 1 .. n + 1
    OBVIOUS
  <2>2. f[pos[n + 1]] \in Seq(Recorded) /\ IsRun(f[pos[1]], 1, s, n, f[pos[n + 1]])
    BY <2>1, <1>3, <1>4, ReplayRuns
  <2>3. IsRun(f[1], 1, s, n, f[pos[n + 1]])
    BY <2>2, <1>3
  <2> QED
    BY <2>2, <2>3, <1>4, Zenon DEF IsRun
<1>6. PICK x \in Nat : x = Len(e) /\ Len(z) = n + x /\ \A i \in 1 .. n : z[i] = s[i]
  <2>1. Len(e) \in Nat
    BY LenProperties
  <2>2. n + 1 - 1 = n /\ \A i \in 1 .. n : 1 + i - 1 = i
    OBVIOUS
  <2>3. Len(z) = n + 1 - 1 + Len(e) /\ \A i \in 1 .. n + 1 - 1 : z[i] = s[1 + i - 1]
    BY <1>5 DEF IsRun
  <2> QED
    BY <2>1, <2>2, <2>3
<1>7. ASSUME NEW c \in Seq(Recorded), Len(c) = n, \A i \in 1 .. n : c[i] = s[i] PROVE c = s
  <2>1. DOMAIN c = 1 .. n /\ DOMAIN s = 1 .. n
    BY <1>2, <1>7, LenProperties
  <2>2. c = [i \in 1 .. n |-> c[i]] /\ s = [i \in 1 .. n |-> s[i]]
    BY <2>1
  <2> QED
    BY <2>2, <1>7
<1>8. IsPrefix(s, z)
  <2>1. PICK c \in Seq(Recorded) : c = SubSeq(z, 1, n) /\ Len(c) = n /\ \A i \in 1 .. n : c[i] = z[i]
    <3>1. n \in 0 .. Len(z)
      BY <1>6
    <3> QED
      BY <3>1, PrefixType, ZenonT(60)
  <2>2. c = s
    BY <2>1, <1>6, <1>7
  <2>3. SubSeq(s, 1, n) = s /\ n <= n + x
    BY <1>2
  <2> QED
    BY <2>1, <2>2, <2>3, <1>2, <1>6, Zenon DEF IsPrefix
<1>9. ~torn => z = s
  <2> SUFFICES ASSUME ~torn PROVE z = s
    OBVIOUS
  <2>1. PICK p \in Nat \ {0} : p = pos[n + 1] /\ p = l - g + 1 /\ p <= l + 1
    <3>1. n + 1 \in 1 .. n + 1
      OBVIOUS
    <3>2. pos[n + 1] \in Nat \ {0}
      BY <3>1, <1>3 DEF IsFile
    <3> QED
      BY <3>1, <3>2, <1>3
  <2>2. ~Complete(b, p)
    <3>1. CASE writing = <<>>
      <4>1. part = <<>>
        BY <3>1, <1>1 DEF Behind, AtWorkOn
      <4>2. g = 0
        BY <4>1, <1>2
      <4>3. ~(p + 1 <= l)
        BY <4>2, <2>1
      <4> QED
        BY <4>3, <1>2 DEF Complete
    <3>2. CASE writing # <<>>
      <4>1. PICK w \in Seq(Nat) : w = writing
        BY DEF FileInv
      <4>2. PICK h \in BeastFrame : h = got[done]
        <5>1. PICK k \in Nat : k = Len(got)
          BY LenProperties DEF ReadersInv, ReaderTypes
        <5>2. done \in 1 .. Len(got)
          BY <5>1, <3>2 DEF ProgramInv, FileInv
        <5> QED
          BY <5>2, ElementOfSeq DEF ReadersInv, ReaderTypes
      <4>3. IsSplit(Record(h), part, w)
        BY <3>2, <4>1, <4>2, <1>1 DEF Behind, AtWorkOn
      <4>4. ASSUME NEW i \in 1 .. g PROVE b[p + i - 1] = part[i]
        <5>1. PICK rb \in Seq(Nat) : b = rb \o part
          <6>1. AllRecords(s) \in Seq(Nat)
            <7>1. Len(s) \in 0 .. Len(s)
              BY <1>2
            <7> QED
              BY <7>1, RecordBytesType DEF AllRecords
          <6> QED
            BY <6>1, <1>1, Zenon DEF IsSplit
        <5>2. PICK u \in Nat : u = Len(rb) /\ l = u + g /\ b[u + i] = part[i]
          <6>1. PICK u \in Nat : u = Len(rb)
            BY LenProperties
          <6>2. Len(rb \o part) = Len(rb) + Len(part) /\ \A j \in 1 .. Len(part) : (rb \o part)[Len(rb) + j] = part[j]
            BY Concat
          <6>3. l = u + g /\ b[u + i] = part[i]
            BY <6>1, <6>2, <5>1, <1>2
          <6> QED
            BY <6>1, <6>3
        <5>3. (l - g + 1) + i - 1 = u + i
          BY <5>2
        <5>4. b[(l - g + 1) + i - 1] = part[i]
          BY <5>2, <5>3
        <5> QED
          BY <5>4, <2>1, Zenon
      <4>5. p = Len(b) - Len(part) + 1 /\ \A i \in 1 .. Len(part) : b[p + i - 1] = part[i]
        BY <2>1, <4>4, <1>2
      <4>6. w # <<>>
        BY <3>2, <4>1
      <4> QED
        BY <4>3, <4>5, <4>6, PartIsNothing
    <3> QED
      BY <3>1, <3>2
  <2>3. e = <<>>
    <3>1. p \in 1 .. Len(b) + 1
      BY <2>1, <1>2
    <3>2. f[p] = <<>>
      BY <3>1, <2>2, <1>4 DEF IsReplay
    <3> QED
      BY <3>2, <2>1, <1>5
  <2>4. x = 0
    BY <2>3, <1>6
  <2> QED
    BY <2>4, <1>6, <1>7
<1>10. reader = "record" /\ failed = {} => s = SubSeq(got, 1, RecordedSoFar)
  <2> SUFFICES ASSUME reader = "record", failed = {} PROVE s = SubSeq(got, 1, RecordedSoFar)
    OBVIOUS
  <2>1. n = RecordedSoFar /\ \A i \in 1 .. n : s[i] = got[i]
    BY <1>1, <1>2 DEF FileInv
  <2>2. PICK q \in Seq(BeastFrame) : q = got
    BY DEF ReadersInv, ReaderTypes
  <2>3. n \in 0 .. Len(q)
    <3>1. PICK k \in Nat : k = Len(q)
      BY LenProperties
    <3>2. done \in Nat /\ done <= k
      BY <2>2, <3>1 DEF ProgramInv
    <3>3. n <= done
      BY <2>1, <3>2 DEF RecordedSoFar
    <3> QED
      BY <3>1, <3>2, <3>3
  <2>4. PICK c \in Seq(BeastFrame) : c = SubSeq(q, 1, n) /\ Len(c) = n /\ \A i \in 1 .. n : c[i] = q[i]
    BY <2>3, PrefixType, ZenonT(60)
  <2>5. Len(s) = Len(c) /\ \A i \in 1 .. Len(s) : s[i] = c[i]
    BY <2>1, <2>2, <2>4, <1>2
  <2>6. s = c
    BY <2>5, SeqEqual
  <2> QED
    BY <2>1, <2>2, <2>4, <2>6
<1> QED
  BY <1>1, <1>5, <1>8, <1>9, <1>10, Zenon DEF RecordingIsUsable, RecordedSoFar

(* A recording can be replayed, wherever its program was stopped and       *)
(* whichever of its writes fail.                                           *)
THEOREM RecordingUsable == ClientsSpec => []RecordingIsUsable
BY RecordingMeans, ReadersTyped, ProgramsInvariant, FileInvariant, PTL DEF ClientsSpec

-----------------------------------------------------------------------------
(* compare: its counts, of which each window is one part.                  *)
(* The greatest of some numbers up to n is one of them.                    *)
LEMMA MaxIsOne ==
  ASSUME NEW n \in Nat, NEW S, S \subseteq 1 .. n, S # {}
  PROVE  Max(S) \in S
<1> DEFINE T == {n - i : i \in S}
<1>1. T \subseteq Nat /\ T # {}
  OBVIOUS
<1>2. PICK m \in T : \A k \in T : m <= k
  BY <1>1, LeastNumber
<1>3. PICK i \in S : m = n - i
  OBVIOUS
<1>4. \A j \in S : i >= j
  <2> SUFFICES ASSUME NEW j \in S PROVE i >= j
    OBVIOUS
  <2>1. n - j \in T
    OBVIOUS
  <2> QED
    BY <2>1, <1>2, <1>3
<1>5. \E x \in S : \A y \in S : x >= y
  BY <1>4
<1> QED
  BY <1>5 DEF Max

(* Every key has the payload of a frame with that key.                     *)
LEMMA KeyMapIs ==
  ASSUME NEW seen, NEW n \in Nat, DOMAIN seen = 1 .. n
  PROVE  /\ IsFiniteSet(DOMAIN build_key_map(seen))
         /\ \A i \in Keyed(seen) : i \in 1 .. n /\ Key(seen[i]) \in DOMAIN build_key_map(seen)
         /\ \A k \in DOMAIN build_key_map(seen) :
              \E i \in Keyed(seen) : Key(seen[i]) = k /\ build_key_map(seen)[k] = seen[i].payload
<1> DEFINE K == {Key(seen[i]) : i \in Keyed(seen)}
           With(k) == {i \in Keyed(seen) : Key(seen[i]) = k}
<1>1. Keyed(seen) \subseteq 1 .. n
  BY DEF Keyed
<1>2. DOMAIN build_key_map(seen) = K
  BY DEF build_key_map
<1>3. IsFiniteSet(K)
  <2>1. IsFiniteSet(Keyed(seen))
    <3>1. IsFiniteSet(1 .. n)
      BY FS_Interval
    <3> QED
      BY <3>1, <1>1, FS_Subset
  <2> DEFINE f == [i \in Keyed(seen) |-> Key(seen[i])]
  <2>2. f \in Surjection(Keyed(seen), K)
    BY DEF Surjection
  <2> HIDE DEF f, K
  <2> QED
    BY <2>1, <2>2, FS_Surjection
<1>4. ASSUME NEW k \in K
      PROVE  \E i \in Keyed(seen) : Key(seen[i]) = k /\ build_key_map(seen)[k] = seen[i].payload
  <2>1. With(k) \subseteq 1 .. n /\ With(k) # {}
    BY <1>1
  <2>2. PICK i : i = Max(With(k))
    OBVIOUS
  <2>3. i \in With(k)
    <3> HIDE DEF With
    <3> QED
      BY <2>1, <2>2, MaxIsOne
  <2>4. build_key_map(seen)[k] = seen[Max(With(k))].payload
    BY DEF build_key_map
  <2> QED
    BY <2>2, <2>3, <2>4
<1> HIDE DEF K
<1>5. \A i \in Keyed(seen) : Key(seen[i]) \in K
  BY DEF K
<1> QED
  BY <1>1, <1>2, <1>3, <1>4, <1>5

(* The counts of a window.                                                 *)
Counts(d, l, r) ==
  /\ d.matched \in Nat /\ d.varies \in Nat /\ d.diff \in Nat /\ d.left_only \in Nat /\ d.right_only \in Nat
  /\ d.matched + d.varies + d.diff + d.left_only = l
  /\ d.matched + d.varies + d.diff + d.right_only = r

(* A set has as many elements as its two parts.                            *)
LEMMA SetsAdd ==
  ASSUME NEW S, IsFiniteSet(S), NEW T, T \subseteq S
  PROVE  /\ IsFiniteSet(T) /\ IsFiniteSet(S \ T)
         /\ Cardinality(S) \in Nat /\ Cardinality(T) \in Nat /\ Cardinality(S \ T) \in Nat
         /\ Cardinality(T) + Cardinality(S \ T) = Cardinality(S)
<1>1. IsFiniteSet(T) /\ IsFiniteSet(S \ T)
  BY FS_Subset
<1>2. T \cup (S \ T) = S /\ T \cap (S \ T) = {}
  OBVIOUS
<1>3. Cardinality(T \cup (S \ T)) = Cardinality(T) + Cardinality(S \ T) - Cardinality(T \cap (S \ T))
  BY <1>1, FS_Union
<1>4. Cardinality({}) = 0
  BY FS_EmptySet
<1>5. Cardinality(S) \in Nat /\ Cardinality(T) \in Nat /\ Cardinality(S \ T) \in Nat
  BY <1>1, FS_CardinalityType
<1>6. Cardinality(S) = Cardinality(T) + Cardinality(S \ T) - 0
  BY <1>2, <1>3, <1>4
<1>7. PICK a \in Nat, b \in Nat, c \in Nat : a = Cardinality(S) /\ b = Cardinality(T) /\ c = Cardinality(S \ T)
  BY <1>5
<1>8. b + c = a
  BY <1>6, <1>7
<1> QED
  BY <1>1, <1>5, <1>7, <1>8

(* The counts of a window are those of its keys.                           *)
LEMMA WindowCounts ==
  ASSUME NEW left, IsFiniteSet(DOMAIN left), NEW right, IsFiniteSet(DOMAIN right)
  PROVE  /\ Counts(print_window_diff(left, right), Cardinality(DOMAIN left), Cardinality(DOMAIN right))
         /\ DOMAIN right \subseteq DOMAIN left => print_window_diff(left, right).right_only = 0
         /\ (\A k \in DOMAIN left \cap DOMAIN right : k \notin Varying => left[k] = right[k])
              => print_window_diff(left, right).diff = 0
<1> DEFINE shared == DOMAIN left \cap DOMAIN right
           other == {k \in shared : left[k] # right[k]}
<1>1. PICK d : d = print_window_diff(left, right)
  OBVIOUS
<1>2. /\ d.matched = Cardinality(shared \ other)
      /\ d.varies = Cardinality(other \cap Varying)
      /\ d.diff = Cardinality(other \ Varying)
      /\ d.left_only = Cardinality(DOMAIN left \ shared)
      /\ d.right_only = Cardinality(DOMAIN right \ shared)
  BY <1>1 DEF print_window_diff
<1>3. shared \subseteq DOMAIN left /\ shared \subseteq DOMAIN right /\ other \subseteq shared
      /\ other \cap Varying \subseteq other /\ other \ (other \cap Varying) = other \ Varying
  OBVIOUS
<1>4. DOMAIN right \subseteq DOMAIN left => DOMAIN right \ shared = {}
  OBVIOUS
<1>5. (\A k \in shared : k \notin Varying => left[k] = right[k]) => other \ Varying = {}
  OBVIOUS
<1> HIDE DEF shared, other
<1>6. /\ IsFiniteSet(shared)
      /\ Cardinality(DOMAIN left) \in Nat /\ Cardinality(shared) \in Nat /\ Cardinality(DOMAIN left \ shared) \in Nat
      /\ Cardinality(shared) + Cardinality(DOMAIN left \ shared) = Cardinality(DOMAIN left)
  BY <1>3, SetsAdd
<1>7. /\ Cardinality(DOMAIN right) \in Nat /\ Cardinality(DOMAIN right \ shared) \in Nat
      /\ Cardinality(shared) + Cardinality(DOMAIN right \ shared) = Cardinality(DOMAIN right)
  BY <1>3, SetsAdd
<1>8. /\ IsFiniteSet(other) /\ Cardinality(other) \in Nat /\ Cardinality(shared \ other) \in Nat
      /\ Cardinality(other) + Cardinality(shared \ other) = Cardinality(shared)
  BY <1>3, <1>6, SetsAdd
<1>9. /\ Cardinality(other \cap Varying) \in Nat /\ Cardinality(other \ Varying) \in Nat
      /\ Cardinality(other \cap Varying) + Cardinality(other \ Varying) = Cardinality(other)
  BY <1>3, <1>8, SetsAdd
<1>10. PICK l \in Nat, r \in Nat, s \in Nat, o \in Nat :
         l = Cardinality(DOMAIN left) /\ r = Cardinality(DOMAIN right) /\ s = Cardinality(shared) /\ o = Cardinality(other)
  BY <1>6, <1>7, <1>8
<1>11. PICK m \in Nat, v \in Nat, f \in Nat, x \in Nat, y \in Nat :
         m = d.matched /\ v = d.varies /\ f = d.diff /\ x = d.left_only /\ y = d.right_only
  BY <1>2, <1>6, <1>7, <1>8, <1>9
<1>12. s + x = l /\ s + y = r /\ o + m = s /\ v + f = o
  BY <1>2, <1>6, <1>7, <1>8, <1>9, <1>10, <1>11
<1>13. m + v + f + x = l /\ m + v + f + y = r
  BY <1>12
<1>14. Counts(d, l, r)
  BY <1>11, <1>13 DEF Counts
<1>15. DOMAIN right \subseteq DOMAIN left => d.right_only = 0
  BY <1>2, <1>4, FS_EmptySet
<1>16. (\A k \in shared : k \notin Varying => left[k] = right[k]) => d.diff = 0
  BY <1>2, <1>5, FS_EmptySet
<1> QED
  BY <1>1, <1>10, <1>14, <1>15, <1>16 DEF shared

(* What the frames compared so far say of what is sent.                    *)
AllRecorded == \A i \in 1 .. done : \E j \in DOMAIN Recording : got[i] = Recording[j]

(* The invariant of compare.                                               *)
FairInv ==
  reader = "compare" =>
    /\ tally = [matched |-> tally.matched, varies |-> tally.varies, diff |-> tally.diff,
                left_only |-> tally.left_only, right_only |-> tally.right_only]
    /\ compared[1] \in Nat /\ compared[2] \in Nat
    /\ Counts(tally, compared[1], compared[2])
    /\ AllRecorded => tally.right_only = 0
    /\ AllRecorded /\ OneEach => tally.diff = 0

(* FairInv holds at first.                                                 *)
LEMMA FairInit == ClientsInit => FairInv
<1> SUFFICES ASSUME ClientsInit PROVE FairInv
  OBVIOUS
<1>1. tally = [matched |-> 0, varies |-> 0, diff |-> 0, left_only |-> 0, right_only |-> 0] /\ compared = <<0, 0>>
  BY DEF ClientsInit
<1>2. Counts(tally, 0, 0)
  BY <1>1 DEF Counts
<1> QED
  BY <1>1, <1>2 DEF FairInv

(* More frames are got, none of which has been compared.                   *)
LEMMA FairGrows ==
  ASSUME ReadersInv, ProgramInv, FairInv, GotGrows, UNCHANGED <<reader, done, tally, compared>>
  PROVE  FairInv'
<1>1. PICK s \in Seq(BeastFrame), x \in Seq(BeastFrame) : s = got /\ IsSplit(got', s, x)
  BY DEF GotGrows, ReadersInv, ReaderTypes
<1>2. PICK k, t : k \in Nat /\ k = Len(s) /\ t = got'
  BY LenProperties
<1>3. \A i \in 1 .. k : t[i] = s[i]
  BY <1>1, <1>2, Concat, ZenonT(60) DEF IsSplit
<1>4. \A i \in 1 .. done : i \in 1 .. k
  BY <1>1, <1>2 DEF ProgramInv
<1>5. \A i \in 1 .. done : got'[i] = got[i]
  BY <1>1, <1>2, <1>3, <1>4
<1>6. AllRecorded' => AllRecorded
  BY <1>5 DEF AllRecorded
<1> QED
  BY <1>6 DEF FairInv

(* It is kept by steps that have nothing to do with the counts.            *)
LEMMA FairKept ==
  ASSUME FairInv, UNCHANGED <<reader, got, tally, compared>>, reader = "compare" => done' = done
  PROVE  FairInv'
<1>1. CASE reader = "compare"
  BY <1>1 DEF FairInv, AllRecorded
<1>2. CASE reader # "compare"
  BY <1>2 DEF FairInv
<1> QED
  BY <1>1, <1>2

(* Counts add up.                                                          *)
LEMMA CountsAdd ==
  ASSUME NEW a, NEW l \in Nat, NEW r \in Nat, Counts(a, l, r),
         a = [matched |-> a.matched, varies |-> a.varies, diff |-> a.diff,
              left_only |-> a.left_only, right_only |-> a.right_only],
         NEW d, NEW x \in Nat, NEW y \in Nat, Counts(d, x, y)
  PROVE  /\ Counts(Plus(a, d), l + x, r + y)
         /\ Plus(a, d) = [matched |-> a.matched + d.matched, varies |-> a.varies + d.varies, diff |-> a.diff + d.diff,
                          left_only |-> a.left_only + d.left_only, right_only |-> a.right_only + d.right_only]
<1>1. DOMAIN a = {"matched", "varies", "diff", "left_only", "right_only"}
  OBVIOUS
<1>2. Plus(a, d) = [matched |-> a.matched + d.matched, varies |-> a.varies + d.varies, diff |-> a.diff + d.diff,
                    left_only |-> a.left_only + d.left_only, right_only |-> a.right_only + d.right_only]
  BY <1>1 DEF Plus
<1>3. PICK p : p = Plus(a, d)
  OBVIOUS
<1>4. /\ p.matched = a.matched + d.matched /\ p.varies = a.varies + d.varies /\ p.diff = a.diff + d.diff
      /\ p.left_only = a.left_only + d.left_only /\ p.right_only = a.right_only + d.right_only
  BY <1>2, <1>3
<1>5. Counts(p, l + x, r + y)
  BY <1>4 DEF Counts
<1> QED
  BY <1>2, <1>3, <1>5

(* The end of a window adds its counts, and what they say.                 *)
LEMMA FairCompareWindow ==
  ASSUME ReadersInv, ProgramInv, FairInv, CompareWindow
  PROVE  FairInv'
<1>1. /\ reader = "compare" /\ reader' = reader /\ got' = got /\ done' = Len(got)
      /\ IF NewFrames = <<>>
         THEN UNCHANGED <<tally, compared>>
         ELSE LET left == build_key_map(Recording)
                  right == build_key_map(NewFrames)
              IN  /\ tally' = Plus(tally, print_window_diff(left, right))
                  /\ compared' = <<compared[1] + Cardinality(DOMAIN left), compared[2] + Cardinality(DOMAIN right)>>
  BY DEF CompareWindow
<1>2. PICK s \in Seq(BeastFrame), k \in Nat, c \in Nat : s = got /\ k = Len(s) /\ c = done /\ c <= k
  <2>1. got \in Seq(BeastFrame)
    BY DEF ReadersInv, ReaderTypes
  <2>2. Len(got) \in Nat /\ done \in Nat /\ done <= Len(got)
    BY <2>1, LenProperties DEF ProgramInv
  <2> QED
    BY <2>1, <2>2
<1>3. \A i \in 1 .. done : i \in 1 .. done'
  BY <1>1, <1>2
<1>4. AllRecorded' => AllRecorded
  BY <1>1, <1>3 DEF AllRecorded
<1>6. CASE NewFrames = <<>>
  BY <1>1, <1>4, <1>6 DEF FairInv
<1>7. CASE NewFrames # <<>>
  <2>1. PICK n \in Nat, w \in Seq(BeastFrame) : w = NewFrames /\ n = Len(w) /\ DOMAIN w = 1 .. n
                                                /\ \A i \in 1 .. n : c + i \in 1 .. k /\ w[i] = s[c + i]
    <3>1. c + 1 \in Nat \ {0} /\ k \in 0 .. Len(s)
      BY <1>2
    <3>2. PICK w \in Seq(BeastFrame) : w = SubSeq(s, c + 1, k)
      BY <3>1, SubSeqType
    <3>3. PICK n \in Nat : n = k - c
      <4>1. k - c \in Nat
        BY <1>2, SMTT(30)
      <4> QED
        BY <4>1
    <3>4. Len(w) = n /\ \A i \in 1 .. n : w[i] = s[c + i]
      <4>1. Len(w) = IF c + 1 <= k THEN k - (c + 1) + 1 ELSE 0
        BY <3>1, <3>2, SubSeqType
      <4>2. \A i \in 1 .. k - (c + 1) + 1 : w[i] = s[c + 1 + i - 1]
        BY <3>1, <3>2, SubSeqType
      <4>3. k - (c + 1) + 1 = n /\ (IF c + 1 <= k THEN k - (c + 1) + 1 ELSE 0) = n /\ \A i \in 1 .. n : c + 1 + i - 1 = c + i
        BY <3>3
      <4> QED
        BY <4>1, <4>2, <4>3
    <3>5. DOMAIN w = 1 .. n /\ \A i \in 1 .. n : c + i \in 1 .. k
      BY <3>3, <3>4, LenProperties
    <3>6. w = NewFrames
      BY <3>2, <1>2, Zenon DEF NewFrames, From
    <3> QED
      BY <3>4, <3>5, <3>6
  <2>2. PICK m \in Nat : DOMAIN Recording = 1 .. m
    BY RecordingAssumption
  <2>3. PICK left, right : left = build_key_map(Recording) /\ right = build_key_map(w)
    OBVIOUS
  <2>4. /\ IsFiniteSet(DOMAIN left) /\ IsFiniteSet(DOMAIN right)
        /\ \A i \in Keyed(Recording) : Key(Recording[i]) \in DOMAIN left
        /\ \A j \in DOMAIN left : \E i \in Keyed(Recording) : Key(Recording[i]) = j /\ left[j] = Recording[i].payload
        /\ \A j \in DOMAIN right : \E i \in Keyed(w) : i \in 1 .. n /\ Key(w[i]) = j /\ right[j] = w[i].payload
    <3>1. /\ IsFiniteSet(DOMAIN left)
          /\ \A i \in Keyed(Recording) : Key(Recording[i]) \in DOMAIN left
          /\ \A j \in DOMAIN left : \E i \in Keyed(Recording) : Key(Recording[i]) = j /\ left[j] = Recording[i].payload
      BY <2>2, <2>3, KeyMapIs, Zenon
    <3>2. /\ IsFiniteSet(DOMAIN right)
          /\ \A i \in Keyed(w) : i \in 1 .. n
          /\ \A j \in DOMAIN right : \E i \in Keyed(w) : Key(w[i]) = j /\ right[j] = w[i].payload
      BY <2>1, <2>3, KeyMapIs, Zenon
    <3> QED
      BY <3>1, <3>2, Zenon
  <2>5. PICK d : d = print_window_diff(left, right)
    OBVIOUS
  <2>6. PICK x \in Nat, y \in Nat : x = Cardinality(DOMAIN left) /\ y = Cardinality(DOMAIN right)
    BY <2>4, FS_CardinalityType
  <2>7. /\ Counts(d, x, y)
        /\ DOMAIN right \subseteq DOMAIN left => d.right_only = 0
        /\ (\A j \in DOMAIN left \cap DOMAIN right : j \notin Varying => left[j] = right[j]) => d.diff = 0
    BY <2>4, <2>5, <2>6, WindowCounts
  <2>8. tally' = Plus(tally, d) /\ compared' = <<compared[1] + x, compared[2] + y>>
    BY <1>1, <1>7, <2>1, <2>3, <2>5, <2>6
  <2>9. PICK l \in Nat, r \in Nat : l = compared[1] /\ r = compared[2] /\ Counts(tally, l, r)
    BY <1>1 DEF FairInv
  <2>10. /\ Counts(tally', l + x, r + y)
         /\ tally' = [matched |-> tally.matched + d.matched, varies |-> tally.varies + d.varies,
                      diff |-> tally.diff + d.diff, left_only |-> tally.left_only + d.left_only,
                      right_only |-> tally.right_only + d.right_only]
    BY <1>1, <2>7, <2>8, <2>9, CountsAdd DEF FairInv
  <2>11. compared'[1] = l + x /\ compared'[2] = r + y /\ l + x \in Nat /\ r + y \in Nat
    <3>1. PICK u, v : u = l + x /\ v = r + y /\ u \in Nat /\ v \in Nat
      OBVIOUS
    <3>2. compared' = <<u, v>>
      BY <3>1, <2>8, <2>9, Zenon
    <3>3. compared'[1] = u /\ compared'[2] = v
      BY <3>2
    <3> QED
      BY <3>1, <3>3
  <2>12. ASSUME AllRecorded' PROVE tally'.right_only = 0
    <3>1. DOMAIN right \subseteq DOMAIN left
      <4> SUFFICES ASSUME NEW j \in DOMAIN right PROVE j \in DOMAIN left
        OBVIOUS
      <4>1. PICK i \in Keyed(w) : i \in 1 .. n /\ Key(w[i]) = j
        BY <2>4
      <4>2. c + i \in 1 .. done' /\ w[i] = got'[c + i]
        BY <4>1, <2>1, <1>1, <1>2
      <4>3. PICK h \in DOMAIN Recording : w[i] = Recording[h]
        BY <4>2, <2>12 DEF AllRecorded
      <4>4. h \in Keyed(Recording) /\ Key(Recording[h]) = j
        BY <4>1, <4>3 DEF Keyed
      <4> QED
        BY <4>4, <2>4
    <3>2. d.right_only = 0
      BY <3>1, <2>7
    <3>3. tally.right_only = 0
      BY <2>12, <1>1, <1>4 DEF FairInv
    <3> QED
      BY <3>2, <3>3, <2>10
  <2>13. ASSUME AllRecorded', OneEach PROVE tally'.diff = 0
    <3>1. ASSUME NEW j \in DOMAIN left \cap DOMAIN right, j \notin Varying PROVE left[j] = right[j]
      <4>1. PICK i \in Keyed(w) : i \in 1 .. n /\ Key(w[i]) = j /\ right[j] = w[i].payload
        BY <2>4
      <4>2. c + i \in 1 .. done' /\ w[i] = got'[c + i]
        BY <4>1, <2>1, <1>1, <1>2
      <4>3. PICK h \in DOMAIN Recording : w[i] = Recording[h]
        BY <4>2, <2>13 DEF AllRecorded
      <4>4. h \in Keyed(Recording) /\ Key(Recording[h]) = j /\ right[j] = Recording[h].payload
        BY <4>1, <4>3 DEF Keyed
      <4>5. PICK g \in Keyed(Recording) : Key(Recording[g]) = j /\ left[j] = Recording[g].payload
        BY <2>4
      <4>6. Recording[g].payload = Recording[h].payload
        BY <4>4, <4>5, <3>1, <2>13 DEF OneEach
      <4> QED
        BY <4>4, <4>5, <4>6
    <3>2. d.diff = 0
      BY <3>1, <2>7
    <3>3. tally.diff = 0
      BY <2>13, <1>1, <1>4 DEF FairInv
    <3> QED
      BY <3>2, <3>3, <2>10
  <2>14. tally' = [matched |-> tally'.matched, varies |-> tally'.varies, diff |-> tally'.diff,
                   left_only |-> tally'.left_only, right_only |-> tally'.right_only]
    BY <2>10
  <2> QED
    BY <2>10, <2>11, <2>12, <2>13, <2>14 DEF FairInv
<1> QED
  BY <1>6, <1>7

(* FairInv is kept by every step.                                          *)
LEMMA FairNext ==
  ASSUME ReadersInv, ProgramInv, FairInv, [ClientsNext]_allVars
  PROVE  FairInv'
<1>1. CASE UNCHANGED allVars
  BY <1>1, FairKept DEF allVars, vars, programVars, compareVars
<1>2. CASE (\E f \in Sendable[reader] : Send(f)) /\ UNCHANGED <<pc, programVars>>
  BY <1>2, FairKept DEF Send, programVars, compareVars
<1>3. ASSUME NEW r \in Reads, ClientRead(r), UNCHANGED <<pc, programVars>> PROVE FairInv'
  BY <1>3, TypesClientRead, FairGrows DEF ClientRead, programVars, compareVars
<1>4. ASSUME NEW r \in Reads, Batch(r) PROVE FairInv'
  <2>1. BatchRead(r) /\ UNCHANGED <<reader, done, tally, compared>>
    BY <1>4 DEF Batch, BatchRead, programVars, compareVars
  <2> QED
    BY <2>1, TypesBatchRead, FairGrows
<1>5. CASE Timeout
  <2>1. BatchEnd /\ UNCHANGED <<reader, done, tally, compared>>
    BY <1>5 DEF Timeout, BatchEnd, programVars, compareVars
  <2> QED
    BY <2>1, TypesBatchEnd, FairGrows
<1>6. CASE ReadError
  <2>1. UNCHANGED <<reader, got, done, tally, compared>>
    BY <1>6 DEF ReadError, BatchError, programVars, compareVars
  <2> QED
    BY <2>1, FairKept
<1>7. CASE RecordNext
  <2>1. reader = "record" /\ UNCHANGED <<reader, got, tally, compared>>
    BY <1>7 DEF RecordNext, vars, compareVars
  <2> QED
    BY <2>1, FairKept
<1>8. CASE ViewUpdate
  <2>1. reader = "viewsb" /\ UNCHANGED <<reader, got, tally, compared>>
    BY <1>8 DEF ViewUpdate, vars, compareVars
  <2> QED
    BY <2>1, FairKept
<1>9. CASE RecordDone \/ CompareOn \/ ViewQuit
  <2>1. UNCHANGED <<reader, got, done, tally, compared>>
    BY <1>9 DEF RecordDone, CompareOn, ViewQuit, vars, programVars, compareVars
  <2> QED
    BY <2>1, FairKept
<1>10. CASE RecordWrite \/ RecordFails \/ JsonCreate \/ JsonWrite \/ JsonRename
  <2>1. UNCHANGED <<reader, got, done, tally, compared>>
    BY <1>10 DEF RecordWrite, RecordFails, JsonCreate, JsonWrite, JsonRename, vars, compareVars
  <2> QED
    BY <2>1, FairKept
<1>11. CASE JsonFails \/ CsvHeader \/ CsvRows \/ CsvFails
  <2>1. UNCHANGED <<reader, got, done, tally, compared>>
    BY <1>11 DEF JsonFails, CsvHeader, CsvRows, CsvFails, vars, compareVars
  <2> QED
    BY <2>1, FairKept
<1> QED
  BY <1>1, <1>2, <1>3, <1>4, <1>5, <1>6, <1>7, <1>8, <1>9, <1>10, <1>11, FairCompareWindow, Zenon DEF ClientsNext

(* FairInv always holds.                                                   *)
LEMMA FairInvariant == ClientsSpec => []FairInv
BY FairInit, FairNext, ReadersTyped, ProgramsInvariant, PTL DEF ClientsSpec

(* What is so of all that has been received is so of what was compared.    *)
LEMMA FairMeans ==
  ASSUME ReadersInv, ProgramInv, FairInv
  PROVE  ComparisonIsFair
<1> SUFFICES ASSUME reader = "compare" PROVE ComparisonIsFair
  BY DEF ComparisonIsFair
<1>1. \A i \in 1 .. done : i \in DOMAIN got
  <2>1. PICK s \in Seq(BeastFrame), k \in Nat : s = got /\ k = Len(s) /\ DOMAIN s = 1 .. k
    BY LenProperties DEF ReadersInv, ReaderTypes
  <2>2. done \in Nat /\ done <= k
    BY <2>1 DEF ProgramInv
  <2> QED
    BY <2>1, <2>2
<1>2. (\A i \in DOMAIN got : \E j \in DOMAIN Recording : got[i] = Recording[j]) => AllRecorded
  BY <1>1 DEF AllRecorded
<1> QED
  BY <1>2 DEF FairInv, Counts, ComparisonIsFair

(* A comparison is fair.                                                   *)
THEOREM ComparisonFair == ClientsSpec => []ComparisonIsFair
BY FairMeans, FairInvariant, ReadersTyped, ProgramsInvariant, PTL

=============================================================================

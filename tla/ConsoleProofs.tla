--------------------------- MODULE ConsoleProofs ---------------------------
(***************************************************************************)
(* Proofs about Console, for any messages, window and interval: a low      *)
(* report counts the messages of its window, the medium lines carry the    *)
(* baseline, and the lines for messages follow the signals.                *)
(*                                                                         *)
(* The three parts do not touch each other and have an invariant each.     *)
(* That of the reports relates each deque to the messages fed: there is an *)
(* increasing map from its places to theirs which leaves out only what is  *)
(* older than the window of the last report, or does not go there.         *)
(***************************************************************************)
EXTENDS Console, SequenceTheorems, FiniteSetTheorems, TLAPS

(* Which messages have an entry in which deque.                            *)
Goes(q, m) == q = "signal_readings" => m.signal

Entry    == [at : Nat, df : 0 .. 31]
FedEntry == [at : Nat, msg : Message]

(* The entries of d are those of the messages g[1], g[2], ... of f, and    *)
(* none from start on is left out.                                         *)
Tracks(d, f, q, g, start) ==
  /\ g \in [1 .. Len(d) -> 1 .. Len(f)]
  /\ \A i, j \in 1 .. Len(d) : i < j => g[i] < g[j]
  /\ \A i \in 1 .. Len(d) :
       /\ Goes(q, f[g[i]].msg)
       /\ d[i].at = f[g[i]].at
       /\ d[i].df = f[g[i]].msg.df
  /\ \A n \in 1 .. Len(f) : Goes(q, f[n].msg) /\ f[n].at >= start => \E i \in 1 .. Len(d) : g[i] = n

(* What is older than start is before k.                                   *)
CutAt(d, start, k) ==
  /\ k \in 1 .. Len(d) + 1
  /\ \A i \in 1 .. k - 1 : d[i].at < start
  /\ k <= Len(d) => d[k].at >= start

CanBeCut(d) == \A start \in Int : \E k \in 1 .. Len(d) + 1 : CutAt(d, start, k)

Sorted(f) == \A i, j \in 1 .. Len(f) : i < j => f[i].at <= f[j].at

-----------------------------------------------------------------------------
(* Sequences.                                                              *)

LEMMA AppendFacts ==
  ASSUME NEW S, NEW s \in Seq(S), NEW e \in S
  PROVE  /\ Append(s, e) \in Seq(S)
         /\ Len(s) \in Nat
         /\ Len(Append(s, e)) = Len(s) + 1
         /\ \A i \in 1 .. Len(s) : Append(s, e)[i] = s[i]
         /\ Append(s, e)[Len(s) + 1] = e
BY AppendProperties

(* A deque that grows at its end, with the messages or without them.       *)
LEMMA TracksAppend ==
  ASSUME NEW d \in Seq(Entry), NEW f \in Seq(FedEntry), NEW q, NEW g, NEW start \in Int,
         Tracks(d, f, q, g, start),
         NEW e \in Entry, NEW x \in FedEntry, e.at = x.at, e.df = x.msg.df, Goes(q, x.msg)
  PROVE  \E h : Tracks(Append(d, e), Append(f, x), q, h, start)
<1> DEFINE D == Append(d, e)
           F == Append(f, x)
           n == Len(d)
           l == Len(f)
           h == [i \in 1 .. n + 1 |-> IF i = n + 1 THEN l + 1 ELSE g[i]]
<1>1. /\ n \in Nat /\ Len(D) = n + 1 /\ (\A i \in 1 .. n : D[i] = d[i]) /\ D[n + 1] = e
      /\ l \in Nat /\ Len(F) = l + 1 /\ (\A i \in 1 .. l : F[i] = f[i]) /\ F[l + 1] = x
  BY AppendFacts
<1>2. /\ g \in [1 .. n -> 1 .. l]
      /\ \A i, j \in 1 .. n : i < j => g[i] < g[j]
      /\ \A i \in 1 .. n : Goes(q, f[g[i]].msg) /\ d[i].at = f[g[i]].at /\ d[i].df = f[g[i]].msg.df
      /\ \A m \in 1 .. l : Goes(q, f[m].msg) /\ f[m].at >= start => \E i \in 1 .. n : g[i] = m
  BY DEF Tracks
<1> HIDE DEF D, F, n, l
<1>3. h \in [1 .. n + 1 -> 1 .. l + 1]
  BY <1>1, <1>2
<1>4. /\ h[n + 1] = l + 1
      /\ \A i \in 1 .. n : h[i] = g[i] /\ g[i] \in 1 .. l
  BY <1>1, <1>2
<1> HIDE DEF h
<1>5. \A i, j \in 1 .. n + 1 : i < j => h[i] < h[j]
  <2> SUFFICES ASSUME NEW i \in 1 .. n + 1, NEW j \in 1 .. n + 1, i < j PROVE h[i] < h[j]
    OBVIOUS
  <2>1. i \in 1 .. n
    BY <1>1
  <2>2. CASE j = n + 1
    BY <2>1, <2>2, <1>1, <1>4
  <2>3. CASE j \in 1 .. n
    BY <2>1, <2>3, <1>2, <1>4
  <2> QED
    BY <2>2, <2>3, <1>1
<1>6. ASSUME NEW i \in 1 .. n + 1
      PROVE  Goes(q, F[h[i]].msg) /\ D[i].at = F[h[i]].at /\ D[i].df = F[h[i]].msg.df
  <2>1. CASE i = n + 1
    BY <2>1, <1>1, <1>4
  <2>2. CASE i \in 1 .. n
    <3>1. D[i] = d[i] /\ h[i] = g[i] /\ F[g[i]] = f[g[i]]
      BY <2>2, <1>1, <1>4
    <3>2. Goes(q, f[g[i]].msg) /\ d[i].at = f[g[i]].at /\ d[i].df = f[g[i]].msg.df
      BY <2>2, <1>2
    <3> QED
      BY <3>1, <3>2, Zenon
  <2> QED
    BY <2>1, <2>2, <1>1
<1>7. ASSUME NEW m \in 1 .. l + 1, Goes(q, F[m].msg), F[m].at >= start
      PROVE  \E i \in 1 .. n + 1 : h[i] = m
  <2>1. CASE m = l + 1
    BY <2>1, <1>1, <1>4
  <2>2. CASE m \in 1 .. l
    <3>1. PICK i \in 1 .. n : g[i] = m
      BY <2>2, <1>1, <1>2, <1>7
    <3>2. i \in 1 .. n + 1 /\ h[i] = g[i]
      BY <1>1, <1>4
    <3> QED
      BY <3>1, <3>2, Zenon
  <2> QED
    BY <2>1, <2>2, <1>1
<1>8. Tracks(D, F, q, h, start)
  BY <1>1, <1>3, <1>5, <1>6, <1>7 DEF Tracks
<1> QED
  BY <1>8 DEF D, F

LEMMA TracksWithout ==
  ASSUME NEW d \in Seq(Entry), NEW f \in Seq(FedEntry), NEW q, NEW g, NEW start \in Int,
         Tracks(d, f, q, g, start),
         NEW x \in FedEntry, ~Goes(q, x.msg)
  PROVE  Tracks(d, Append(f, x), q, g, start)
<1> DEFINE F == Append(f, x)
           n == Len(d)
           l == Len(f)
<1>1. /\ n \in Nat
      /\ l \in Nat /\ Len(F) = l + 1 /\ (\A i \in 1 .. l : F[i] = f[i]) /\ F[l + 1] = x
  BY AppendFacts
<1>2. /\ g \in [1 .. n -> 1 .. l]
      /\ \A i, j \in 1 .. n : i < j => g[i] < g[j]
      /\ \A i \in 1 .. n : Goes(q, f[g[i]].msg) /\ d[i].at = f[g[i]].at /\ d[i].df = f[g[i]].msg.df
      /\ \A m \in 1 .. l : Goes(q, f[m].msg) /\ f[m].at >= start => \E i \in 1 .. n : g[i] = m
  BY DEF Tracks
<1> HIDE DEF F, n, l
<1>3. /\ g \in [1 .. n -> 1 .. l + 1]
      /\ \A i \in 1 .. n : F[g[i]] = f[g[i]]
  BY <1>1, <1>2
<1>4. ASSUME NEW m \in 1 .. l + 1, Goes(q, F[m].msg), F[m].at >= start
      PROVE  \E i \in 1 .. n : g[i] = m
  <2>1. m # l + 1
    BY <1>1, <1>4
  <2>2. m \in 1 .. l
    BY <2>1, <1>1
  <2> QED
    BY <2>2, <1>1, <1>2, <1>4
<1>5. Tracks(d, F, q, g, start)
  BY <1>1, <1>2, <1>3, <1>4 DEF Tracks, n
<1> QED
  BY <1>5 DEF F

LEMMA CutAppend ==
  ASSUME NEW d \in Seq(Entry), NEW e \in Entry, CanBeCut(d), \A i \in 1 .. Len(d) : d[i].at <= e.at
  PROVE  CanBeCut(Append(d, e))
<1> DEFINE D == Append(d, e)
           n == Len(d)
<1>1. n \in Nat /\ Len(D) = n + 1 /\ (\A i \in 1 .. n : D[i] = d[i]) /\ D[n + 1] = e
  BY AppendFacts
<1>2. e.at \in Nat /\ \A i \in 1 .. n : d[i].at \in Nat
  <2>1. \A i \in 1 .. n : d[i] \in Entry
    OBVIOUS
  <2> QED
    BY <2>1 DEF Entry
<1>3. \A start \in Int : \E k \in 1 .. n + 1 :
        (\A i \in 1 .. k - 1 : d[i].at < start) /\ (k <= n => d[k].at >= start)
  BY DEF CanBeCut, CutAt
<1> HIDE DEF D, n
<1>4. ASSUME NEW start \in Int
      PROVE  \E k \in 1 .. n + 1 + 1 : CutAt(D, start, k)
  <2>1. PICK k \in 1 .. n + 1 : (\A i \in 1 .. k - 1 : d[i].at < start) /\ (k <= n => d[k].at >= start)
    BY <1>3
  <2>2. CASE k <= n
    <3>1. k \in 1 .. n /\ D[k] = d[k] /\ \A i \in 1 .. k - 1 : D[i] = d[i]
      BY <2>2, <1>1
    <3>2. CutAt(D, start, k)
      BY <3>1, <2>1, <2>2, <1>1 DEF CutAt
    <3> QED
      BY <3>2, <1>1
  <2>3. CASE k = n + 1 /\ e.at >= start
    <3>1. \A i \in 1 .. k - 1 : D[i] = d[i]
      BY <2>3, <1>1
    <3>2. CutAt(D, start, k)
      BY <3>1, <2>1, <2>3, <1>1 DEF CutAt
    <3> QED
      BY <3>2, <1>1
  <2>4. CASE k = n + 1 /\ ~(e.at >= start)
    <3>1. \A i \in 1 .. n : D[i] = d[i] /\ d[i].at < start
      BY <2>1, <2>4, <1>1
    <3>2. e.at < start
      BY <2>4, <1>2
    <3>3. \A i \in 1 .. n + 1 : D[i].at < start
      BY <3>1, <3>2, <1>1
    <3>4. CutAt(D, start, n + 2)
      BY <3>3, <1>1 DEF CutAt
    <3> QED
      BY <3>4, <1>1
  <2> QED
    BY <2>2, <2>3, <2>4, <1>1
<1>5. CanBeCut(D)
  BY <1>4, <1>1 DEF CanBeCut
<1> QED
  BY <1>5 DEF D

(* What is left when the old entries have been popped: all the others.     *)
LEMMA DropOldFacts ==
  ASSUME NEW d \in Seq(Entry), NEW f \in Seq(FedEntry), NEW q, NEW g, NEW since \in Int, NEW start \in Int,
         since <= start, Tracks(d, f, q, g, since), CanBeCut(d), Sorted(f)
  PROVE  /\ DropOld(d, start) \in Seq(Entry)
         /\ CanBeCut(DropOld(d, start))
         /\ \A i \in 1 .. Len(DropOld(d, start)) : DropOld(d, start)[i].at >= start
         /\ \E h : Tracks(DropOld(d, start), f, q, h, start)
<1> DEFINE n == Len(d)
           k == CHOOSE k \in 1 .. n + 1 :
                  /\ \A i \in 1 .. k - 1 : d[i].at < start
                  /\ k <= n => d[k].at >= start
           D == SubSeq(d, k, n)
           m == n + 1 - k
<1>1. n \in Nat /\ \A i \in 1 .. n : d[i] \in Entry /\ d[i].at \in Nat
  <2>1. n \in Nat /\ \A i \in 1 .. n : d[i] \in Entry
    OBVIOUS
  <2> QED
    BY <2>1 DEF Entry
<1>2. \E j \in 1 .. n + 1 : (\A i \in 1 .. j - 1 : d[i].at < start) /\ (j <= n => d[j].at >= start)
  BY DEF CanBeCut, CutAt
<1>3. k \in 1 .. n + 1 /\ (\A i \in 1 .. k - 1 : d[i].at < start) /\ (k <= n => d[k].at >= start)
  BY <1>2
<1>4. DropOld(d, start) = D
  BY DEF DropOld
<1> HIDE DEF k, n
<1>5. m \in Nat /\ D \in Seq(Entry) /\ Len(D) = m /\ \A i \in 1 .. m : D[i] = d[k + i - 1]
  <2>1. k \in Int /\ n \in Int /\ \A i \in k .. n : d[i] \in Entry
    BY <1>1, <1>3
  <2>2. /\ SubSeq(d, k, n) \in Seq(Entry)
        /\ Len(SubSeq(d, k, n)) = IF k <= n THEN n - k + 1 ELSE 0
        /\ \A i \in 1 .. n - k + 1 : SubSeq(d, k, n)[i] = d[k + i - 1]
    BY <2>1, SubSeqProperties
  <2>3. m \in Nat /\ m = n - k + 1 /\ (IF k <= n THEN n - k + 1 ELSE 0) = m
    BY <1>1, <1>3
  <2> QED
    BY <2>2, <2>3
<1> HIDE DEF D
<1>6. /\ g \in [1 .. n -> 1 .. Len(f)]
      /\ \A i, j \in 1 .. n : i < j => g[i] < g[j]
      /\ \A i \in 1 .. n : Goes(q, f[g[i]].msg) /\ d[i].at = f[g[i]].at /\ d[i].df = f[g[i]].msg.df
      /\ \A l \in 1 .. Len(f) : Goes(q, f[l].msg) /\ f[l].at >= since => \E i \in 1 .. n : g[i] = l
  BY DEF Tracks, n
<1>7. \A l \in 1 .. Len(f) : f[l].at \in Nat
  <2>1. \A l \in 1 .. Len(f) : f[l] \in FedEntry
    OBVIOUS
  <2> QED
    BY <2>1 DEF FedEntry
<1>8. \A i, j \in 1 .. n : i < j => d[i].at <= d[j].at
  BY <1>6 DEF Sorted
<1>0. n \in Nat /\ k \in Int /\ 1 <= k /\ k <= n + 1
  BY <1>1, <1>3
<1>9. \A i \in 1 .. m : k + i - 1 \in 1 .. n
  BY <1>0
<1>10. ASSUME NEW i \in 1 .. m PROVE D[i].at >= start
  <2>1. /\ k <= n /\ k \in 1 .. n /\ k + i - 1 \in 1 .. n
        /\ k = k + i - 1 \/ k < k + i - 1
    BY <1>1, <1>3
  <2>2. d[k].at <= d[k + i - 1].at
    <3>1. CASE k = k + i - 1
      BY <3>1, <2>1, <1>1
    <3>2. CASE k < k + i - 1
      BY <3>2, <2>1, <1>8
    <3> QED
      BY <3>1, <3>2, <2>1
  <2>3. d[k].at \in Nat /\ d[k + i - 1].at \in Nat /\ D[i] = d[k + i - 1] /\ d[k].at >= start
    BY <2>1, <1>1, <1>3, <1>5
  <2>4. start \in Int
    OBVIOUS
  <2> HIDE DEF D, k, n
  <2>5. d[k + i - 1].at >= start
    <3>1. \A x, y, z \in Int : x >= z /\ x <= y => y >= z
      OBVIOUS
    <3>2. d[k].at \in Int /\ d[k + i - 1].at \in Int
      BY <2>3
    <3> QED
      BY <2>2, <2>3, <2>4, <3>1, <3>2, Zenon
  <2> QED
    BY <2>3, <2>5, Zenon
<1>11. CanBeCut(D)
  <2> SUFFICES ASSUME NEW t \in Int PROVE \E j \in 1 .. m + 1 : CutAt(D, t, j)
    BY <1>5 DEF CanBeCut
  <2>1. PICK j \in 1 .. n + 1 : (\A i \in 1 .. j - 1 : d[i].at < t) /\ (j <= n => d[j].at >= t)
    BY DEF CanBeCut, CutAt, n
  <2>2. CASE j <= k
    <3>1. 1 <= m => D[1] = d[k] /\ k \in 1 .. n /\ j \in 1 .. n /\ d[k].at >= t
      <4> SUFFICES ASSUME 1 <= m PROVE D[1] = d[k] /\ k \in 1 .. n /\ j \in 1 .. n /\ d[k].at >= t
        OBVIOUS
      <4>1. 1 \in 1 .. m /\ k + 1 - 1 = k
        BY <1>3, <1>5
      <4>2. D[1] = d[k] /\ k \in 1 .. n
        BY <4>1, <1>5, <1>9
      <4>3. j \in 1 .. n
        BY <4>2, <2>2, <1>1
      <4>4. d[j].at <= d[k].at
        BY <4>2, <4>3, <2>2, <1>1, <1>8
      <4>5. d[j].at >= t
        BY <4>3, <2>1, <1>1
      <4>6. d[j].at \in Int /\ d[k].at \in Int
        BY <4>2, <4>3, <1>1
      <4>7. d[k].at >= t
        BY <4>4, <4>5, <4>6
      <4> QED
        BY <4>2, <4>3, <4>7
    <3>2. CutAt(D, t, 1)
      BY <3>1, <1>5 DEF CutAt
    <3> QED
      BY <3>2, <1>5
  <2>3. CASE k < j
    <3>1. j - k + 1 \in 1 .. m + 1
      BY <2>3, <1>0
    <3>2. ASSUME NEW i \in 1 .. j - k PROVE D[i].at < t
      <4>1. i \in 1 .. m /\ k + i - 1 \in 1 .. j - 1
        BY <2>3, <1>0
      <4> QED
        BY <4>1, <2>1, <1>5
    <3>3. j - k + 1 <= m => D[j - k + 1].at >= t
      <4> SUFFICES ASSUME j - k + 1 <= m PROVE D[j - k + 1].at >= t
        OBVIOUS
      <4>1. j - k + 1 \in 1 .. m /\ k + (j - k + 1) - 1 = j /\ j <= n
        BY <3>1, <1>0
      <4>2. D[j - k + 1] = d[j]
        BY <4>1, <1>5
      <4> QED
        BY <4>1, <4>2, <2>1
    <3>4. CutAt(D, t, j - k + 1)
      <4>1. (j - k + 1) - 1 = j - k
        BY <1>3
      <4>2. \A i \in 1 .. (j - k + 1) - 1 : D[i].at < t
        BY <3>2, <4>1
      <4>3. Len(D) = m
        BY <1>5
      <4> QED
        BY <3>1, <3>3, <4>2, <4>3 DEF CutAt
    <3> QED
      BY <3>1, <3>4
  <2> QED
    BY <2>2, <2>3, <1>3
<1> DEFINE h == [i \in 1 .. m |-> g[k + i - 1]]
<1>12. Tracks(D, f, q, h, start)
  <2>1. h \in [1 .. m -> 1 .. Len(f)] /\ \A i \in 1 .. m : h[i] = g[k + i - 1]
    BY <1>6, <1>9
  <2> HIDE DEF h
  <2>2. ASSUME NEW i \in 1 .. m, NEW j \in 1 .. m, i < j PROVE h[i] < h[j]
    <3>1. k + i - 1 < k + j - 1
      BY <2>2, <1>3, <1>5
    <3> QED
      BY <3>1, <2>1, <1>6, <1>9
  <2>3. \A i \in 1 .. m : Goes(q, f[h[i]].msg) /\ D[i].at = f[h[i]].at /\ D[i].df = f[h[i]].msg.df
    <3> SUFFICES ASSUME NEW i \in 1 .. m
                 PROVE  Goes(q, f[h[i]].msg) /\ D[i].at = f[h[i]].at /\ D[i].df = f[h[i]].msg.df
      OBVIOUS
    <3>1. k + i - 1 \in 1 .. n /\ h[i] = g[k + i - 1] /\ D[i] = d[k + i - 1]
      BY <2>1, <1>5, <1>9
    <3> QED
      BY <3>1, <1>6, Zenon
  <2>4. ASSUME NEW l \in 1 .. Len(f), Goes(q, f[l].msg), f[l].at >= start
        PROVE  \E i \in 1 .. m : h[i] = l
    <3>1. f[l].at >= since
      BY <2>4, <1>7
    <3>2. PICK i \in 1 .. n : g[i] = l
      BY <3>1, <2>4, <1>6
    <3>3. d[i].at >= start
      BY <3>2, <2>4, <1>6
    <3>4. ~(i \in 1 .. k - 1)
      BY <3>3, <1>1, <1>3
    <3>5. i - k + 1 \in 1 .. m /\ k + (i - k + 1) - 1 = i
      BY <3>4, <1>1, <1>3
    <3>6. h[i - k + 1] = l
      BY <3>2, <3>5, <2>1
    <3> QED
      BY <3>5, <3>6
  <2> QED
    BY <2>1, <2>2, <2>3, <2>4, <1>5 DEF Tracks
<1> QED
  BY <1>4, <1>5, <1>10, <1>11, <1>12

-----------------------------------------------------------------------------
(* Counting.                                                               *)

(* As many places of a deque as messages, when each is the place of one.   *)
LEMMA SameCount ==
  ASSUME NEW X, NEW Y, NEW g, IsFiniteSet(X),
         \A i \in X : g[i] \in Y,
         \A i, j \in X : g[i] = g[j] => i = j,
         \A m \in Y : \E i \in X : g[i] = m
  PROVE  Cardinality(X) = Cardinality(Y)
<1> DEFINE b == [i \in X |-> g[i]]
<1>1. b \in [X -> Y] /\ \A m \in Y : \E i \in X : b[i] = m
  OBVIOUS
<1>2. b \in Bijection(X, Y)
  <2>1. DOMAIN b = X /\ \A i, j \in X : b[i] = b[j] => i = j
    OBVIOUS
  <2>2. IsInjective(b)
    BY <2>1 DEF IsInjective
  <2> QED
    BY <1>1, <2>2 DEF Bijection, Injection, Surjection
<1>3. ExistsBijection(X, Y)
  BY <1>2 DEF ExistsBijection
<1> QED
  BY <1>3, FS_Bijection

(* The messages of a window, and a deque that counts what it has of them:  *)
(* in all, and of each format.                                             *)
Seen(f, start, now) == {n \in 1 .. Len(f) : f[n].at >= start /\ f[n].at <= now}

CountsOf(d, f, q, seen) ==
  /\ Len(d) = Cardinality({n \in seen : Goes(q, f[n].msg)})
  /\ \A df \in 0 .. 31 :
       Cardinality({i \in 1 .. Len(d) : d[i].df = df})
         = Cardinality({n \in seen : Goes(q, f[n].msg) /\ f[n].msg.df = df})

NotBefore(d, start) == \A i \in 1 .. Len(d) : d[i].at >= start
NotAfter(f, now)    == \A n \in 1 .. Len(f) : f[n].at <= now

(* A pruned deque counts what the window has of it.                        *)
LEMMA CountsWindow ==
  ASSUME NEW d \in Seq(Entry), NEW f \in Seq(FedEntry), NEW q, NEW g, NEW start \in Int, NEW now \in Int,
         Tracks(d, f, q, g, start), NotBefore(d, start), NotAfter(f, now)
  PROVE  CountsOf(d, f, q, Seen(f, start, now))
<1> DEFINE seen == Seen(f, start, now)
<1>1. Len(d) \in Nat /\ Len(f) \in Nat
  OBVIOUS
<1>2. /\ g \in [1 .. Len(d) -> 1 .. Len(f)]
      /\ \A i, j \in 1 .. Len(d) : i < j => g[i] < g[j]
  BY DEF Tracks
<1>3. \A i, j \in 1 .. Len(d) : g[i] = g[j] => i = j
  <2> SUFFICES ASSUME NEW i \in 1 .. Len(d), NEW j \in 1 .. Len(d), g[i] = g[j] PROVE i = j
    OBVIOUS
  <2>1. g[i] \in Int /\ g[j] \in Int /\ i \in Int /\ j \in Int
    BY <1>1, <1>2
  <2>2. ~(i < j) /\ ~(j < i)
    BY <1>2, <2>1
  <2> QED
    BY <2>1, <2>2
<1>4. IsFiniteSet(1 .. Len(d))
  <2>1. 1 \in Int /\ Len(d) \in Int
    BY <1>1
  <2> QED
    BY <2>1, FS_Interval
<1>5. \A i \in 1 .. Len(d) : g[i] \in seen /\ Goes(q, f[g[i]].msg) /\ d[i].df = f[g[i]].msg.df
  <2>1. \A i \in 1 .. Len(d) : Goes(q, f[g[i]].msg) /\ d[i].at = f[g[i]].at /\ d[i].df = f[g[i]].msg.df
    BY DEF Tracks
  <2>2. \A i \in 1 .. Len(d) : f[g[i]].at >= start /\ f[g[i]].at <= now
    BY <1>2, <2>1 DEF NotBefore, NotAfter
  <2> QED
    BY <1>2, <2>1, <2>2 DEF Seen
<1>6. \A n \in seen : Goes(q, f[n].msg) => \E i \in 1 .. Len(d) : g[i] = n
  BY DEF Tracks, Seen
<1> HIDE DEF seen
<1>7. Len(d) = Cardinality({n \in seen : Goes(q, f[n].msg)})
  <2> DEFINE Y == {n \in seen : Goes(q, f[n].msg)}
  <2>2. (\A i \in 1 .. Len(d) : g[i] \in Y) /\ (\A n \in Y : \E i \in 1 .. Len(d) : g[i] = n)
    BY <1>5, <1>6
  <2> HIDE DEF Y
  <2>3. Cardinality(1 .. Len(d)) = Cardinality(Y)
    BY <1>3, <1>4, <2>2, SameCount, Zenon
  <2>4. Cardinality(1 .. Len(d)) = Len(d)
    <3>1. 1 \in Int /\ Len(d) \in Int
      BY <1>1
    <3>2. Cardinality(1 .. Len(d)) = IF 1 > Len(d) THEN 0 ELSE Len(d) - 1 + 1
      BY <3>1, FS_Interval
    <3> QED
      BY <3>2, <1>1
  <2> QED
    BY <2>3, <2>4 DEF Y
<1>8. ASSUME NEW df \in 0 .. 31
      PROVE  Cardinality({i \in 1 .. Len(d) : d[i].df = df})
               = Cardinality({n \in seen : Goes(q, f[n].msg) /\ f[n].msg.df = df})
  <2> DEFINE X == {i \in 1 .. Len(d) : d[i].df = df}
             Y == {n \in seen : Goes(q, f[n].msg) /\ f[n].msg.df = df}
  <2>1. X \in SUBSET (1 .. Len(d))
    OBVIOUS
  <2>2. \A i \in X : g[i] \in Y
    BY <1>5
  <2>3. \A n \in Y : \E i \in X : g[i] = n
    BY <1>5, <1>6
  <2> HIDE DEF X, Y
  <2>4. Cardinality(X) = Cardinality(Y)
    <3>1. IsFiniteSet(X)
      BY <1>4, <2>1, FS_Subset
    <3>2. \A i, j \in X : g[i] = g[j] => i = j
      BY <1>3, <2>1
    <3> QED
      BY <2>2, <2>3, <3>1, <3>2, SameCount, Zenon
  <2> QED
    BY <2>4 DEF X, Y
<1> QED
  BY <1>7, <1>8 DEF CountsOf, seen

-----------------------------------------------------------------------------
(* The reports.                                                            *)

LowInv ==
  /\ clock \in Nat /\ stamp \in Nat /\ stamp <= clock
  /\ lastLow \in Nat /\ lastLow <= clock
  /\ fed \in Seq(FedEntry) /\ Sorted(fed) /\ \A i \in 1 .. Len(fed) : fed[i].at <= stamp
  /\ deques \in [Deques -> Seq(Entry)]
  /\ \A q \in Deques : /\ CanBeCut(deques[q])
                       /\ \E g : Tracks(deques[q], fed, q, g, lastLow - Window)

Counts ==
  LET seen == InWindow(clock)
  IN  /\ report'.at = clock
      /\ report'.messages = Cardinality(seen)
      /\ report'.signals = Cardinality({i \in seen : fed[i].msg.signal})
      /\ \A f \in 0 .. 31 : report'.dfs[f] = Cardinality({i \in seen : fed[i].msg.df = f})

LEMMA LowInit == Init => LowInv
<1> SUFFICES ASSUME Init PROVE LowInv
  OBVIOUS
<1> USE DEF Init
<1>1. <<>> \in Seq(Entry) /\ <<>> \in Seq(FedEntry) /\ Len(<<>>) = 0
  BY EmptySeq
<1>2. deques \in [Deques -> Seq(Entry)] /\ \A q \in Deques : deques[q] = <<>>
  BY <1>1
<1>3. CanBeCut(<<>>)
  <2>1. \A start \in Int : CutAt(<<>>, start, 1)
    BY <1>1 DEF CutAt
  <2> QED
    BY <1>1, <2>1 DEF CanBeCut
<1>4. \A q : Tracks(<<>>, <<>>, q, [i \in 1 .. 0 |-> 0], lastLow - Window)
  BY <1>1 DEF Tracks
<1> QED
  BY <1>1, <1>2, <1>3, <1>4 DEF LowInv, Sorted

(* Every message gets its entries at the ends of the deques.               *)
LEMMA LowFeed ==
  ASSUME LowInv, NEW m \in Message, Feed(m)
  PROVE  LowInv'
<1> DEFINE x == [at |-> stamp, msg |-> m]
           e == [at |-> stamp, df |-> m.df]
<1>1. m.df \in 0 .. 31 /\ m.signal \in BOOLEAN /\ Window \in Nat
  BY ConsoleAssumption
<1>2. /\ clock' = clock /\ stamp' = stamp /\ lastLow' = lastLow
      /\ fed' = Append(fed, x)
      /\ deques' = [q \in Deques |-> IF q = "signal_readings" /\ ~m.signal THEN deques[q] ELSE Append(deques[q], e)]
  BY DEF Feed, Recorded
<1>3. x \in FedEntry /\ e \in Entry /\ x.at = stamp /\ e.at = stamp /\ e.df = m.df /\ x.msg = m
  BY <1>1 DEF FedEntry, Entry, LowInv
<1> HIDE DEF x, e
<1>4. /\ Len(fed) \in Nat /\ fed' \in Seq(FedEntry) /\ Len(fed') = Len(fed) + 1
      /\ (\A i \in 1 .. Len(fed) : fed'[i] = fed[i]) /\ fed'[Len(fed) + 1] = x
  BY <1>2, <1>3, AppendFacts DEF LowInv
<1>5. \A i \in 1 .. Len(fed) : fed[i].at <= stamp
  BY DEF LowInv
<1>6. \A i \in 1 .. Len(fed) + 1 : fed'[i].at <= stamp
  <2>1. stamp \in Nat
    BY DEF LowInv
  <2> QED
    BY <2>1, <1>3, <1>4, <1>5
<1>7. Sorted(fed')
  <2> SUFFICES ASSUME NEW i \in 1 .. Len(fed) + 1, NEW j \in 1 .. Len(fed) + 1, i < j
               PROVE  fed'[i].at <= fed'[j].at
    BY <1>4 DEF Sorted
  <2>1. i \in 1 .. Len(fed)
    BY <1>4
  <2>2. CASE j = Len(fed) + 1
    BY <2>1, <2>2, <1>3, <1>4, <1>5
  <2>3. CASE j \in 1 .. Len(fed)
    BY <2>1, <2>3, <1>4 DEF LowInv, Sorted
  <2> QED
    BY <2>2, <2>3, <1>4
<1>8. ASSUME NEW q \in Deques
      PROVE  /\ deques'[q] \in Seq(Entry)
             /\ CanBeCut(deques'[q])
             /\ \E h : Tracks(deques'[q], fed', q, h, lastLow - Window)
  <2>1. deques[q] \in Seq(Entry) /\ CanBeCut(deques[q]) /\ fed \in Seq(FedEntry) /\ lastLow - Window \in Int
    BY <1>1 DEF LowInv
  <2>2. PICK g : Tracks(deques[q], fed, q, g, lastLow - Window)
    BY DEF LowInv
  <2>3. CASE q = "signal_readings" /\ ~m.signal
    <3>1. deques'[q] = deques[q] /\ ~Goes(q, x.msg)
      BY <2>3, <1>2, <1>3 DEF Goes
    <3>2. Tracks(deques[q], Append(fed, x), q, g, lastLow - Window)
      BY <2>1, <2>2, <3>1, <1>3, TracksWithout
    <3> QED
      BY <2>1, <3>1, <3>2, <1>2
  <2>4. CASE ~(q = "signal_readings" /\ ~m.signal)
    <3>1. deques'[q] = Append(deques[q], e) /\ Goes(q, x.msg)
      BY <2>4, <1>1, <1>2, <1>3 DEF Goes
    <3>2. Append(deques[q], e) \in Seq(Entry)
      BY <2>1, <1>3, AppendFacts
    <3>3. \A i \in 1 .. Len(deques[q]) : deques[q][i].at <= e.at
      BY <2>2, <1>3, <1>5 DEF Tracks
    <3>4. CanBeCut(Append(deques[q], e))
      BY <2>1, <3>3, <1>3, CutAppend
    <3>5. \E h : Tracks(Append(deques[q], e), Append(fed, x), q, h, lastLow - Window)
      BY <2>1, <2>2, <3>1, <1>3, TracksAppend
    <3> QED
      BY <3>1, <3>2, <3>4, <3>5, <1>2
  <2> QED
    BY <2>3, <2>4
<1>9. deques' \in [Deques -> Seq(Entry)]
  BY <1>2, <1>8
<1> QED
  BY <1>2, <1>4, <1>6, <1>7, <1>8, <1>9 DEF LowInv

(* A report prunes the deques and counts what is left in them.             *)
LEMMA LowReport ==
  ASSUME LowInv, deques' = Aggregated(clock), report' = ReportOf(deques', clock),
         lastLow' = clock, clock' = clock, stamp' = stamp, fed' = fed
  PROVE  LowInv' /\ Counts
<1> DEFINE start == clock - Window
<1>1. start \in Int /\ lastLow - Window \in Int /\ lastLow - Window <= start /\ clock \in Int
  BY ConsoleAssumption DEF LowInv
<1>2. /\ fed \in Seq(FedEntry) /\ Sorted(fed)
      /\ \A i \in 1 .. Len(fed) : fed[i].at <= clock
  <2>1. \A i \in 1 .. Len(fed) : fed[i].at \in Nat
    <3>1. \A i \in 1 .. Len(fed) : fed[i] \in FedEntry
      BY DEF LowInv
    <3> QED
      BY <3>1 DEF FedEntry
  <2> QED
    BY <2>1 DEF LowInv
<1> HIDE DEF start
<1>3. ASSUME NEW q \in Deques
      PROVE  /\ deques'[q] \in Seq(Entry) /\ CanBeCut(deques'[q])
             /\ \A i \in 1 .. Len(deques'[q]) : deques'[q][i].at >= start
             /\ \E h : Tracks(deques'[q], fed, q, h, start)
  <2>1. deques'[q] = DropOld(deques[q], start)
    BY DEF Aggregated, start
  <2>2. deques[q] \in Seq(Entry) /\ CanBeCut(deques[q])
    BY DEF LowInv
  <2>3. PICK g : Tracks(deques[q], fed, q, g, lastLow - Window)
    BY DEF LowInv
  <2> QED
    BY <2>1, <2>2, <2>3, <1>1, <1>2, DropOldFacts
<1>4. LowInv'
  <2>1. deques' \in [Deques -> Seq(Entry)]
    BY <1>3 DEF Aggregated
  <2>2. clock \in Nat /\ clock' - Window = start /\ lastLow' - Window = start
    BY DEF LowInv, start
  <2> QED
    BY <2>1, <2>2, <1>3 DEF LowInv
<1>5. InWindow(clock) = Seen(fed, start, clock)
  BY <1>2 DEF InWindow, Seen, start
<1>6. ASSUME NEW q \in Deques
      PROVE  CountsOf(deques'[q], fed, q, InWindow(clock))
  <2>1. PICK h : Tracks(deques'[q], fed, q, h, start)
    BY <1>3
  <2>2. deques'[q] \in Seq(Entry) /\ NotBefore(deques'[q], start) /\ NotAfter(fed, clock)
    BY <1>2, <1>3 DEF NotBefore, NotAfter
  <2> QED
    BY <2>1, <2>2, <1>1, <1>2, <1>5, CountsWindow
<1>7. /\ report'.at = clock
      /\ report'.messages = Len(deques'["message_timestamps"])
      /\ report'.signals = Len(deques'["signal_readings"])
      /\ \A f \in 0 .. 31 :
           report'.dfs[f] = Cardinality({i \in DOMAIN deques'["df_types"] : deques'["df_types"][i].df = f})
  BY DEF ReportOf
<1>8. DOMAIN deques'["df_types"] = 1 .. Len(deques'["df_types"])
  BY <1>3 DEF Deques
<1>9. /\ {n \in InWindow(clock) : Goes("message_timestamps", fed[n].msg)} = InWindow(clock)
      /\ {n \in InWindow(clock) : Goes("signal_readings", fed[n].msg)} = {n \in InWindow(clock) : fed[n].msg.signal}
      /\ \A f : {n \in InWindow(clock) : Goes("df_types", fed[n].msg) /\ fed[n].msg.df = f}
                = {n \in InWindow(clock) : fed[n].msg.df = f}
  BY DEF Goes
<1>10. Counts
  <2>1. report'.messages = Cardinality(InWindow(clock))
    BY <1>6, <1>7, <1>9 DEF Deques, CountsOf
  <2>2. report'.signals = Cardinality({i \in InWindow(clock) : fed[i].msg.signal})
    BY <1>6, <1>7, <1>9 DEF Deques, CountsOf
  <2>3. ASSUME NEW f \in 0 .. 31
        PROVE  report'.dfs[f] = Cardinality({i \in InWindow(clock) : fed[i].msg.df = f})
    <3>1. report'.dfs[f] = Cardinality({i \in 1 .. Len(deques'["df_types"]) : deques'["df_types"][i].df = f})
      BY <1>7, <1>8
    <3>2. "df_types" \in Deques
      BY DEF Deques
    <3>3. Cardinality({i \in 1 .. Len(deques'["df_types"]) : deques'["df_types"][i].df = f})
            = Cardinality({n \in InWindow(clock) : Goes("df_types", fed[n].msg) /\ fed[n].msg.df = f})
      BY <3>2, <1>6 DEF CountsOf
    <3>4. {n \in InWindow(clock) : Goes("df_types", fed[n].msg) /\ fed[n].msg.df = f}
            = {n \in InWindow(clock) : fed[n].msg.df = f}
      BY <1>9
    <3> QED
      BY <3>1, <3>3, <3>4
  <2> QED
    BY <2>1, <2>2, <2>3, <1>7 DEF Counts
<1> QED
  BY <1>4, <1>10

LEMMA LowStep == LowInv /\ [Next]_vars => LowInv'
<1> SUFFICES ASSUME LowInv, [Next]_vars PROVE LowInv'
  OBVIOUS
<1>1. CASE Tick
  BY <1>1 DEF Tick, LowInv, lowVars
<1>2. CASE ReadBuffer
  <2>1. /\ stamp' = clock
        /\ UNCHANGED <<clock, lastLow, deques, fed>>
    BY <1>2 DEF ReadBuffer, lowVars
  <2>2. \A i \in 1 .. Len(fed) : fed[i].at \in Nat
    <3>1. \A i \in 1 .. Len(fed) : fed[i] \in FedEntry
      BY DEF LowInv
    <3> QED
      BY <3>1 DEF FedEntry
  <2>3. \A i \in 1 .. Len(fed) : fed[i].at <= clock
    BY <2>2 DEF LowInv
  <2> QED
    BY <2>1, <2>3 DEF LowInv
<1>3. ASSUME NEW m \in Message, Feed(m) PROVE LowInv'
  BY <1>3, LowFeed
<1>4. CASE Flush
  <2>1. UNCHANGED <<clock, stamp, fed>>
    BY <1>4 DEF Flush
  <2>2. CASE clock - lastLow >= Window
    BY <2>1, <2>2, <1>4, LowReport DEF Flush, FlushLow
  <2>3. CASE ~(clock - lastLow >= Window)
    <3>1. UNCHANGED <<lastLow, deques>>
      BY <2>3, <1>4 DEF Flush, FlushLow, lowVars
    <3> QED
      BY <2>1, <3>1 DEF LowInv
  <2> QED
    BY <2>2, <2>3
<1>5. CASE Stop
  <2>1. UNCHANGED <<clock, stamp, fed>> /\ lastLow' = clock
    BY <1>5 DEF Stop
  <2>2. CASE deques' = Aggregated(clock) /\ report' = ReportOf(deques', clock)
    BY <2>1, <2>2, LowReport
  <2>3. CASE UNCHANGED <<deques, report>>
    <3>1. lastLow - Window \in Int /\ clock - Window \in Int /\ lastLow - Window <= clock - Window
      BY ConsoleAssumption DEF LowInv
    <3>2. ASSUME NEW q \in Deques PROVE \E g : Tracks(deques[q], fed, q, g, clock - Window)
      <4>1. PICK g : Tracks(deques[q], fed, q, g, lastLow - Window)
        BY DEF LowInv
      <4>2. ASSUME NEW n \in 1 .. Len(fed), fed[n].at >= clock - Window PROVE fed[n].at >= lastLow - Window
        <5>1. fed[n] \in FedEntry
          BY DEF LowInv
        <5>2. fed[n].at \in Nat
          BY <5>1 DEF FedEntry
        <5> QED
          BY <5>2, <4>2, <3>1
      <4> QED
        BY <4>1, <4>2 DEF Tracks
    <3> QED
      BY <2>1, <2>3, <3>2 DEF LowInv
  <2> QED
    BY <1>5, <2>2, <2>3 DEF Stop
<1>6. CASE Signal
  BY <1>6 DEF Signal, LowInv, lowVars
<1>7. CASE UNCHANGED vars
  BY <1>7 DEF vars, LowInv, lowVars
<1> QED
  BY <1>1, <1>2, <1>3, <1>4, <1>5, <1>6, <1>7 DEF Next

(* ReportCountsLastMinute: each low report counts exactly the messages of  *)
(* the window that ends with it, whatever was pruned for earlier ones.     *)
THEOREM ReportsAreExact == Spec => ReportCountsLastMinute
<1> DEFINE Exact == report' # report =>
             LET seen == InWindow(report'.at) IN
             /\ report'.messages = Cardinality(seen)
             /\ report'.signals = Cardinality({i \in seen : fed[i].msg.signal})
             /\ \A f \in 0 .. 31 : report'.dfs[f] = Cardinality({i \in seen : fed[i].msg.df = f})
<1>1. LowInv /\ [Next]_vars => [Exact]_vars
  <2> SUFFICES ASSUME LowInv, Next, report' # report PROVE Exact
    BY DEF vars
  <2>1. \/ Flush /\ clock - lastLow >= Window
        \/ Stop /\ deques' = Aggregated(clock) /\ report' = ReportOf(deques', clock)
    BY DEF Stop, Next, Tick, ReadBuffer, Feed, Flush, FlushLow, Signal, lowVars
  <2>2. Counts
    <3>1. CASE Flush /\ clock - lastLow >= Window
      BY <3>1, LowReport DEF Flush, FlushLow
    <3>2. CASE Stop /\ deques' = Aggregated(clock) /\ report' = ReportOf(deques', clock)
      BY <3>2, LowReport DEF Stop
    <3> QED
      BY <2>1, <3>1, <3>2
  <2> QED
    BY <2>2 DEF Counts
<1>2. QED
  BY LowInit, LowStep, <1>1, PTL DEF Spec, ReportCountsLastMinute

-----------------------------------------------------------------------------
(* The medium lines.                                                       *)

MediumInv ==
  /\ current \in [Address -> Snapshot \cup {None}]
  /\ baseline \in [Address -> Snapshot \cup {None}]
  /\ BaselineIsShown

(* Adding a line to what its reader knows gives the compared fields of the *)
(* aircraft as they are.                                                   *)
LEMMA LineCompletes ==
  ASSUME MediumInv, NEW k \in Address, current[k] # None, NEW f \in Compared
  PROVE  Overlay(k)[f] = current[k][f]
<1> DEFINE old  == IF baseline[k] = None THEN NoneShown ELSE shown[k]
           prev == IF baseline[k] = None THEN NoneShown ELSE baseline[k]
           c    == current[k]
<1>1. f \in Fields
  BY DEF Compared
<1>2. old[f] = prev[f]
  BY DEF MediumInv, BaselineIsShown
<1>3. prev.pos \in {0, None} /\ c.pos \in {0, None}
  BY DEF MediumInv, NoneShown, Fields, Snapshot
<1>4. Line(k) = Diff(prev, c)
  BY DEF Line
<1>5. Overlay(k)[f] = IF f \in DOMAIN Line(k) THEN Line(k)[f] ELSE old[f]
  BY <1>1 DEF Overlay, old
<1> HIDE DEF old, prev, c
<1>6. ASSUME ~Differs(f, prev[f], c[f]) PROVE prev[f] = c[f]
  <2>1. CASE f = "pos"
    <3>1. prev[f] \in {0, None} /\ c[f] \in {0, None}
      BY <2>1, <1>3
    <3>2. prev[f] = None \/ c[f] = None => prev[f] = c[f]
      BY <1>6 DEF Differs
    <3> QED
      BY <3>1, <3>2
  <2>2. CASE f # "pos"
    BY <2>2, <1>6 DEF Differs
  <2> QED
    BY <2>1, <2>2
<1>7. Overlay(k)[f] = c[f]
  BY <1>2, <1>4, <1>5, <1>6 DEF Diff
<1> QED
  BY <1>7 DEF c

LEMMA MediumStep == MediumInv /\ [Next]_vars => MediumInv'
<1> SUFFICES ASSUME MediumInv, [Next]_vars PROVE MediumInv'
  OBVIOUS
<1>1. ASSUME UNCHANGED mediumVars PROVE MediumInv'
  BY <1>1 DEF mediumVars, MediumInv, BaselineIsShown
<1>2. CASE Tick \/ ReadBuffer \/ Stop \/ Signal \/ UNCHANGED vars
  BY <1>1, <1>2 DEF Tick, ReadBuffer, Stop, Signal, vars
<1>3. ASSUME NEW m \in Message, Feed(m) PROVE MediumInv'
  <2>1. m.snapshot \in Snapshot
    BY ConsoleAssumption
  <2>2. current' = [current EXCEPT ![m.addr] = m.snapshot] /\ UNCHANGED <<baseline, shown>>
    BY <1>3 DEF Feed
  <2>3. current' \in [Address -> Snapshot \cup {None}]
    BY <2>1, <2>2 DEF MediumInv
  <2> QED
    BY <2>2, <2>3 DEF MediumInv, BaselineIsShown
<1>4. CASE Flush
  <2>1. CASE ~(clock - lastMedium >= MediumInterval)
    BY <2>1, <1>1, <1>4 DEF Flush, FlushMedium
  <2>2. CASE clock - lastMedium >= MediumInterval
    <3>1. /\ shown' = [k \in Address |-> IF current[k] = None THEN shown[k] ELSE Overlay(k)]
          /\ baseline' = current
          /\ current' = [k \in Address |-> None]
      BY <2>2, <1>4 DEF Flush, FlushMedium
    <3>2. ASSUME NEW k \in Address, NEW f \in Compared, baseline'[k] # None
          PROVE  shown'[k][f] = baseline'[k][f]
      BY <3>1, <3>2, LineCompletes
    <3>3. current' \in [Address -> Snapshot \cup {None}] /\ baseline' \in [Address -> Snapshot \cup {None}]
      BY <3>1 DEF MediumInv
    <3> QED
      BY <3>2, <3>3 DEF MediumInv, BaselineIsShown
  <2> QED
    BY <2>1, <2>2
<1> QED
  BY <1>2, <1>3, <1>4 DEF Next

(* BaselineIsShown: whoever reads the lines of consecutive intervals knows *)
(* the compared fields of each aircraft of the baseline exactly.           *)
THEOREM LinesCarryBaseline == Spec => []BaselineIsShown
<1>1. Init => MediumInv
  BY DEF Init, MediumInv, BaselineIsShown
<1>2. MediumInv => BaselineIsShown
  BY DEF MediumInv
<1>3. QED
  BY <1>1, <1>2, MediumStep, PTL DEF Spec

-----------------------------------------------------------------------------
(* The level.                                                              *)

(* As long as no two signals were in work together, the task that has one  *)
(* has loaded the level that is still there, and will store what has been  *)
(* asked for.                                                              *)
InStep ==
  /\ \A s, t \in Signals : task[s] = "store" /\ task[t] = "store" => s = t
  /\ \A s \in Signals : task[s] = "store" => cycle_level(cur[s], Forward(s)) = asked % 4
  /\ (\A s \in Signals : task[s] = "recv") => level = asked % 4
  /\ level \in 0 .. 3

LevelInv ==
  /\ asked \in Int
  /\ level \in 0 .. 3
  /\ task \in [Signals -> {"recv", "store"}]
  /\ cur \in [Signals -> 0 .. 3]
  /\ overlapped \in BOOLEAN
  /\ ~overlapped => InStep

LEMMA LevelStep == LevelInv /\ [Next]_vars => LevelInv'
<1> SUFFICES ASSUME LevelInv, [Next]_vars PROVE LevelInv'
  OBVIOUS
<1>1. ASSUME UNCHANGED levelVars PROVE LevelInv'
  BY <1>1 DEF levelVars, LevelInv, InStep
<1>2. CASE Tick \/ ReadBuffer \/ Flush \/ Stop \/ UNCHANGED vars \/ \E m \in Message : Feed(m)
  BY <1>1, <1>2 DEF Tick, ReadBuffer, Flush, Stop, Feed, vars
<1>3. ASSUME NEW s \in Signals, Raise(s) PROVE LevelInv'
  BY <1>3 DEF Raise, LevelInv, InStep
<1>4. \A n \in 0 .. 3, b \in BOOLEAN : cycle_level(n, b) \in 0 .. 3
  BY DEF cycle_level
<1>5. \A s \in Signals : Forward(s) \in BOOLEAN
  BY DEF Forward
<1>6. ASSUME NEW s \in Signals, Load(s) PROVE LevelInv'
  <2>1. /\ task[s] = "recv"
        /\ task' = [task EXCEPT ![s] = "store"]
        /\ cur' = [cur EXCEPT ![s] = level]
        /\ asked' = IF Forward(s) THEN asked + 1 ELSE asked - 1
        /\ overlapped' = (overlapped \/ \E t \in Signals : task[t] = "store")
        /\ level' = level
    BY <1>6 DEF Load
  <2>2. /\ asked' \in Int
        /\ task' \in [Signals -> {"recv", "store"}]
        /\ cur' \in [Signals -> 0 .. 3]
        /\ overlapped' \in BOOLEAN
    BY <2>1 DEF LevelInv
  <2>3. ASSUME ~overlapped' PROVE InStep'
    <3>1. ~overlapped /\ \A t \in Signals : task[t] = "recv"
      BY <2>1, <2>3 DEF LevelInv
    <3>2. level = asked % 4
      BY <3>1 DEF LevelInv, InStep
    <3>3. cycle_level(level, Forward(s)) = asked' % 4
      <4>1. asked \in Int
        BY DEF LevelInv
      <4> QED
        BY <4>1, <3>2, <2>1 DEF cycle_level
    <3>4. task'[s] = "store" /\ cur'[s] = level /\ \A t \in Signals : t # s => task'[t] = "recv"
      BY <2>1, <3>1 DEF LevelInv
    <3> QED
      BY <2>1, <3>3, <3>4 DEF InStep, LevelInv, Forward
  <2> QED
    BY <2>1, <2>2, <2>3 DEF LevelInv
<1>7. ASSUME NEW s \in Signals, Store(s) PROVE LevelInv'
  <2>1. /\ task[s] = "store"
        /\ level' = cycle_level(cur[s], Forward(s))
        /\ task' = [task EXCEPT ![s] = "recv"]
        /\ UNCHANGED <<cur, asked, overlapped>>
    BY <1>7 DEF Store
  <2>2. level' \in 0 .. 3 /\ task' \in [Signals -> {"recv", "store"}]
    BY <2>1, <1>4, <1>5 DEF LevelInv
  <2>3. ASSUME ~overlapped PROVE InStep'
    <3>1. level' = asked % 4
      BY <2>1, <2>3 DEF LevelInv, InStep
    <3>2. \A t \in Signals : task'[t] = "recv"
      BY <2>1, <2>3 DEF LevelInv, InStep
    <3> QED
      BY <2>1, <2>2, <3>1, <3>2 DEF InStep
  <2> QED
    BY <2>1, <2>2, <2>3 DEF LevelInv
<1> QED
  BY <1>2, <1>3, <1>6, <1>7 DEF Next, Signal, LevelNext

(* LinesFollowSignals: from the first message after a signal on, lines are *)
(* printed at the level the signals ask for, unless two of them met.       *)
THEOREM LinesAreTimely == Spec => LinesFollowSignals
<1>1. Init => LevelInv
  <2> SUFFICES ASSUME Init PROVE LevelInv
    OBVIOUS
  <2>1. LevelInit
    BY DEF Init
  <2>2. level \in 0 .. 3 /\ asked = level /\ asked % 4 = level /\ cur \in [Signals -> 0 .. 3]
    BY <2>1 DEF LevelInit
  <2>3. task = [s \in Signals |-> "recv"] /\ overlapped = FALSE
    BY <2>1 DEF LevelInit
  <2>4. \A s \in Signals : task[s] = "recv"
    BY <2>3
  <2>5. InStep
    BY <2>2, <2>4 DEF InStep
  <2>6. task \in [Signals -> {"recv", "store"}]
    BY <2>3
  <2>7. asked \in Int
    BY <2>2
  <2>8. overlapped \in BOOLEAN
    BY <2>3
  <2> QED
    BY <2>2, <2>5, <2>6, <2>7, <2>8 DEF LevelInv
<1> DEFINE Timely == fed' # fed /\ ~overlapped /\ (\A s \in Signals : task[s] = "recv")
             => Printed(fed'[Len(fed')].msg, outLevel') = Printed(fed'[Len(fed')].msg, asked % 4)
<1>2. LevelInv /\ [Next]_vars => [Timely]_vars
  <2> SUFFICES ASSUME LevelInv, Next, fed' # fed, ~overlapped, \A s \in Signals : task[s] = "recv"
               PROVE  Printed(fed'[Len(fed')].msg, outLevel') = Printed(fed'[Len(fed')].msg, asked % 4)
    BY DEF vars
  <2>1. \E m \in Message : Feed(m)
    BY DEF Next, Tick, ReadBuffer, Flush, Stop, Signal
  <2>2. outLevel' = level
    BY <2>1 DEF Feed
  <2>3. level = asked % 4
    BY DEF LevelInv, InStep
  <2> QED
    BY <2>2, <2>3
<1>3. QED
  BY <1>1, <1>2, LevelStep, PTL DEF Spec, LinesFollowSignals

=============================================================================

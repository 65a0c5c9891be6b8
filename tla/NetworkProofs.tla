---------------------------- MODULE NetworkProofs ----------------------------
(***************************************************************************)
(* Proofs about Network, for any number of clients and any capacities: the *)
(* state is well typed, and what a client is written is complete and in    *)
(* order as long as the channel has not overtaken it, and never out of     *)
(* order when it has.                                                      *)
(*                                                                         *)
(* The invariant is one about each client.  A client that keeps up has its *)
(* receiver within the values the channel still holds, and what it has     *)
(* been written, with the value being written, is everything from its      *)
(* first value up to its receiver; of any client, all of that is behind    *)
(* its receiver and increasing.                                            *)
(*                                                                         *)
(* The incoming side: what the consumer has fed to the tracker is exactly  *)
(* the good ones of the messages it is done with, in their order.          *)
(***************************************************************************)
EXTENDS Network, SequenceTheorems, TLAPS

(* n values from first on.                                                 *)
Run(first, n) == [i \in 1 .. n |-> first + i - 1]

LEMMA RunAppend ==
  ASSUME NEW f \in Int, NEW n \in Nat
  PROVE  Append(Run(f, n), f + n) = Run(f, n + 1)
<1> DEFINE a == Run(f, n)
           s == Append(a, f + n)
           t == Run(f, n + 1)
<1>1. a \in Seq(Int) /\ Len(a) = n /\ \A i \in 1 .. n : a[i] = f + i - 1
  BY DEF Run
<1>2. t \in Seq(Int) /\ Len(t) = n + 1 /\ \A i \in 1 .. (n + 1) : t[i] = f + i - 1
  BY DEF Run
<1> HIDE DEF a, t
<1>3. s \in Seq(Int) /\ Len(s) = n + 1
  BY <1>1
<1>4. /\ \A i \in 1 .. n : s[i] = a[i]
      /\ s[n + 1] = f + n
  BY <1>1, AppendProperties
<1> HIDE DEF s
<1>5. ASSUME NEW i \in Int, 1 <= i, i <= n + 1
      PROVE  s[i] = t[i]
  <2>1. t[i] = f + i - 1
    BY <1>2, <1>5
  <2>2. CASE i <= n
    <3>1. i \in 1 .. n
      BY <1>5, <2>2
    <3> QED
      BY <1>1, <1>4, <2>1, <3>1
  <2>3. CASE ~(i <= n)
    <3>1. i = n + 1 /\ f + i - 1 = f + n
      BY <1>5, <2>3
    <3> QED
      BY <1>4, <2>1, <3>1
  <2> QED
    BY <2>2, <2>3
<1>6. s = t
  BY <1>2, <1>3, <1>5, SeqEqual
<1> QED
  BY <1>6 DEF s, a, t

(* What the client has been written, and what it is being written.         *)
Taken(c) == IF writing[c] = 0 THEN got[c] ELSE Append(got[c], writing[c])

(* A client that is not connected has nothing.                             *)
ClosedInv(c) == ~Open(c) => got[c] = <<>> /\ writing[c] = 0 /\ ~overrun[c] /\ pending[c] = <<>>

(* The receiver is between the first value and the next to be published,   *)
(* and ahead of the value being written.                                   *)
ReceiverInv(c) ==
  Open(c) =>
    /\ since[c] <= next[c] /\ next[c] <= out[conn[c]] + 1
    /\ writing[c] < next[c]
    /\ ~overrun[c] => next[c] > out[conn[c]] - OutCapacity

OrderInv(c) ==
  /\ \A i \in 1 .. Len(got[c]) : /\ Open(c) /\ got[c][i] < next[c]
                                 /\ writing[c] # 0 => got[c][i] < writing[c]
  /\ \A i \in 1 .. Len(got[c]) - 1 : got[c][i] < got[c][i + 1]

CompleteInv(c) == Open(c) /\ ~overrun[c] => Taken(c) = Run(since[c], next[c] - since[c])

ClientInv(c) == ClosedInv(c) /\ ReceiverInv(c) /\ OrderInv(c) /\ CompleteInv(c)

(* The consumer is not ahead of the channel.                               *)
ConsumerInv == cnext <= Len(incoming) + 1 /\ (cpc = "work" => cnext > 1)

IInv == TypeOK /\ ConsumerInv /\ \A c \in Client : ClientInv(c)

LEMMA ParseType ==
  ASSUME NEW p \in Port, NEW l \in Lines
  PROVE  Parse(p, l) \in Data
BY DEF Parse, Lines, Data

LEMMA InitInvariant == Init => IInv
<1> SUFFICES ASSUME Init PROVE IInv
  OBVIOUS
<1>1. /\ <<>> \in Seq(Data) /\ <<>> \in Seq(1 .. MaxOut) /\ <<>> \in Seq(1 .. MaxIn) /\ Len(<<>>) = 0
  BY EmptySeq
<1>2. TypeOK
  BY <1>1, NetworkAssumption DEF Init, TypeOK
<1>3. \A c \in Client : ~Open(c) /\ got[c] = <<>> /\ writing[c] = 0 /\ ~overrun[c] /\ pending[c] = <<>>
  BY DEF Init, Open
<1>4. ASSUME NEW c \in Client
      PROVE  ClientInv(c)
  <2>1. ~Open(c) /\ got[c] = <<>> /\ writing[c] = 0 /\ ~overrun[c] /\ pending[c] = <<>>
    BY <1>3
  <2>2. OrderInv(c)
    BY <1>1, <2>1 DEF OrderInv
  <2> QED
    BY <2>1, <2>2 DEF ClientInv, ClosedInv, ReceiverInv, CompleteInv
<1>5. ConsumerInv
  BY <1>1 DEF Init, ConsumerInv
<1> QED
  BY <1>2, <1>4, <1>5 DEF IInv

-----------------------------------------------------------------------------
(* One lemma for each action.                                              *)

(* A client whose part of the state does not change, nor its port's.       *)
LEMMA OtherClient ==
  ASSUME NEW d \in Client, ClientInv(d),
         conn'[d] = conn[d], next'[d] = next[d], writing'[d] = writing[d], pending'[d] = pending[d],
         since'[d] = since[d], got'[d] = got[d], overrun'[d] = overrun[d],
         Open(d) => out'[conn[d]] = out[conn[d]]
  PROVE  ClientInv(d)'
<1>1. Open(d)' = Open(d)
  BY DEF Open
<1>2. ClosedInv(d)'
  BY <1>1 DEF ClientInv, ClosedInv
<1>3. ReceiverInv(d)'
  BY <1>1 DEF ClientInv, ReceiverInv
<1>4. OrderInv(d)'
  BY <1>1 DEF ClientInv, OrderInv
<1>5. CompleteInv(d)'
  BY <1>1 DEF ClientInv, CompleteInv, Taken
<1> QED
  BY <1>2, <1>3, <1>4, <1>5 DEF ClientInv

LEMMA AcceptKeeps ==
  ASSUME IInv, NEW c \in Client, NEW p \in Port, Accept(c, p)
  PROVE  IInv'
<1>0. TypeOK /\ ConsumerInv /\ \A d \in Client : ClientInv(d)
  BY DEF IInv
<1>1. TypeOK'
  <2>1. out[p] \in 0 .. MaxOut /\ MaxOut \in Nat
    BY <1>0, NetworkAssumption DEF TypeOK
  <2>2. /\ conn' \in [Client -> Port \cup {NoPort}]
        /\ next' \in [Client -> 1 .. MaxOut + 1] /\ since' \in [Client -> 1 .. MaxOut + 1]
    BY <1>0, <2>1 DEF Accept, TypeOK
  <2>3. ASSUME NEW d \in Client, NEW q \in Port, conn'[d] = q
        PROVE  next'[d] <= out'[q] + 1
    <3>1. CASE d = c
      <4>1. q = p /\ next'[d] = out[p] + 1 /\ out'[q] = out[p]
        BY <1>0, <2>3, <3>1 DEF Accept, TypeOK
      <4> QED
        BY <2>1, <4>1
    <3>2. CASE d # c
      BY <1>0, <2>3, <3>2 DEF Accept, TypeOK
    <3> QED
      BY <3>1, <3>2
  <2> QED
    BY <1>0, <2>2, <2>3 DEF Accept, TypeOK, consumerVars
<1>2. ASSUME NEW d \in Client
      PROVE  ClientInv(d)'
  <2>1. CASE d = c
    <3>1. /\ conn'[c] = p /\ p # NoPort /\ next'[c] = out[p] + 1 /\ since'[c] = out[p] + 1 /\ out' = out
          /\ out[p] \in Nat /\ got'[c] = <<>> /\ writing'[c] = 0 /\ ~overrun'[c] /\ Len(<<>>) = 0
      BY <1>0, NetworkAssumption DEF Accept, TypeOK, ClientInv, ClosedInv
    <3>2. Run(out[p] + 1, 0) = <<>> /\ (out[p] + 1) - (out[p] + 1) = 0
      BY <3>1 DEF Run
    <3> QED
      BY <2>1, <3>1, <3>2, NetworkAssumption
         DEF ClientInv, ClosedInv, ReceiverInv, OrderInv, CompleteInv, Taken, Open
  <2>2. CASE d # c
    BY <1>0, <2>2, OtherClient DEF Accept, TypeOK
  <2> QED
    BY <2>1, <2>2
<1>3. ConsumerInv'
  BY <1>0 DEF Accept, consumerVars, ConsumerInv
<1> QED
  BY <1>1, <1>2, <1>3 DEF IInv

LEMMA TakeKeeps ==
  ASSUME IInv, NEW c \in Client, Take(c)
  PROVE  IInv'
<1> DEFINE oldest == out[conn[c]] - OutCapacity + 1
<1>0. TypeOK /\ ConsumerInv /\ \A d \in Client : ClientInv(d)
  BY DEF IInv
<1>1. /\ conn[c] \in Port /\ out[conn[c]] \in 0 .. MaxOut /\ next[c] \in 1 .. MaxOut + 1
      /\ writing[c] = 0 /\ next[c] <= out[conn[c]] /\ Open(c)
      /\ since[c] \in 1 .. MaxOut + 1 /\ since[c] <= next[c] /\ got[c] \in Seq(1 .. MaxOut)
      /\ OutCapacity \in Nat \ {0} /\ MaxOut \in Nat
  BY <1>0, NetworkAssumption DEF Take, TypeOK, Open, ClientInv, ReceiverInv
<1>2. /\ conn' = conn /\ out' = out /\ since' = since /\ got' = got /\ overrun' = overrun /\ pending' = pending
      /\ \A d \in Client : d # c => next'[d] = next[d] /\ writing'[d] = writing[d]
  BY <1>0 DEF Take, TypeOK
<1>3. CASE next[c] < oldest
  <2>1. next'[c] = oldest /\ writing'[c] = 0 /\ oldest \in 1 .. MaxOut
    BY <1>0, <1>1, <1>3 DEF Take, TypeOK
  <2>2. TypeOK'
    <3>1. next' \in [Client -> 1 .. MaxOut + 1] /\ writing' = writing
      <4>1. next' = [next EXCEPT ![c] = oldest] /\ writing' = writing
        BY <1>3 DEF Take
      <4>2. oldest \in 1 .. MaxOut + 1
        BY <1>1, <2>1
      <4> HIDE DEF oldest
      <4> QED
        BY <1>0, <4>1, <4>2 DEF TypeOK
    <3>2. ASSUME NEW d \in Client, NEW p \in Port, conn'[d] = p
          PROVE  next'[d] <= out'[p] + 1
      <4>1. CASE d = c
        BY <1>1, <1>2, <2>1, <3>2, <4>1
      <4>2. CASE d # c
        BY <1>0, <1>2, <3>2, <4>2 DEF TypeOK
      <4> QED
        BY <4>1, <4>2
    <3> QED
      BY <1>0, <1>2, <3>1, <3>2 DEF Take, TypeOK, consumerVars
  <2>3. overrun[c]
    BY <1>0, <1>1, <1>3 DEF ClientInv, ReceiverInv, TypeOK
  <2>4. ClientInv(c)'
    <3>1. ASSUME NEW i \in 1 .. Len(got[c])
          PROVE  got[c][i] < oldest
      <4>1. got[c][i] < next[c]
        BY <1>0 DEF ClientInv, OrderInv
      <4>2. oldest \in Int /\ got[c] \in Seq(1 .. MaxOut) /\ next[c] \in Int /\ MaxOut \in Int
        BY <1>1
      <4> HIDE DEF oldest
      <4>3. got[c][i] \in Int
        BY <4>2
      <4> QED
        BY <1>3, <4>1, <4>2, <4>3
    <3>2. Open(c)' /\ got'[c] = got[c] /\ overrun'[c]
      BY <1>1, <1>2, <2>3 DEF Open
    <3>3. since[c] <= oldest /\ oldest <= out[conn[c]] + 1 /\ 0 < oldest
      BY <1>1, <1>3
    <3>4. \A i \in 1 .. Len(got[c]) - 1 : got[c][i] < got[c][i + 1]
      BY <1>0 DEF ClientInv, OrderInv
    <3> HIDE DEF oldest
    <3>5. ClosedInv(c)' /\ CompleteInv(c)'
      BY <3>2 DEF ClosedInv, CompleteInv
    <3>6. ReceiverInv(c)'
      BY <1>2, <2>1, <3>2, <3>3 DEF ReceiverInv
    <3>7. OrderInv(c)'
      BY <2>1, <3>1, <3>2, <3>4 DEF OrderInv
    <3> QED
      BY <3>5, <3>6, <3>7 DEF ClientInv
  <2>5. \A d \in Client : d # c => ClientInv(d)'
    BY <1>0, <1>2, OtherClient
  <2>6. ConsumerInv'
    BY <1>0 DEF Take, consumerVars, ConsumerInv
  <2> QED
    BY <2>2, <2>4, <2>5, <2>6 DEF IInv
<1>4. CASE ~(next[c] < oldest)
  <2>1. next'[c] = next[c] + 1 /\ writing'[c] = next[c]
    BY <1>0, <1>1, <1>4 DEF Take, TypeOK
  <2>2. TypeOK'
    <3>1. next' \in [Client -> 1 .. MaxOut + 1] /\ writing' \in [Client -> 0 .. MaxOut]
      <4>1. /\ next' = [next EXCEPT ![c] = next[c] + 1]
            /\ writing' = [writing EXCEPT ![c] = next[c]]
        BY <1>4 DEF Take
      <4>2. next[c] + 1 \in 1 .. MaxOut + 1 /\ next[c] \in 0 .. MaxOut
        BY <1>1
      <4> QED
        BY <1>0, <4>1, <4>2 DEF TypeOK
    <3>2. ASSUME NEW d \in Client, NEW p \in Port, conn'[d] = p
          PROVE  next'[d] <= out'[p] + 1
      <4>1. CASE d = c
        BY <1>1, <1>2, <2>1, <3>2, <4>1
      <4>2. CASE d # c
        BY <1>0, <1>2, <3>2, <4>2 DEF TypeOK
      <4> QED
        BY <4>1, <4>2
    <3> QED
      BY <1>0, <1>2, <3>1, <3>2 DEF Take, TypeOK, consumerVars
  <2>3. ClosedInv(c)' /\ ReceiverInv(c)'
    <3>1. Open(c)'
      BY <1>1, <1>2 DEF Open
    <3>2. ClosedInv(c)'
      BY <3>1 DEF ClosedInv
    <3>3. ~overrun[c] => next[c] > out[conn[c]] - OutCapacity
      BY <1>0, <1>1 DEF ClientInv, ReceiverInv
    <3>4. /\ since[c] <= next[c] + 1 /\ next[c] + 1 <= out[conn[c]] + 1 /\ next[c] < next[c] + 1
          /\ ~overrun[c] => next[c] + 1 > out[conn[c]] - OutCapacity
      BY <1>1, <3>3
    <3>5. ReceiverInv(c)'
      BY <1>2, <2>1, <3>4 DEF ReceiverInv
    <3> QED
      BY <3>2, <3>5
  <2>4. OrderInv(c)'
    <3>1. \A i \in 1 .. Len(got[c]) : got[c][i] < next[c] /\ got[c][i] \in Int
      BY <1>0, <1>1 DEF ClientInv, OrderInv
    <3>2. \A i \in 1 .. Len(got[c]) : got[c][i] < next[c] + 1
      BY <1>1, <3>1
    <3>3. Open(c)' /\ got'[c] = got[c]
      BY <1>1, <1>2 DEF Open
    <3>4. \A i \in 1 .. Len(got[c]) - 1 : got[c][i] < got[c][i + 1]
      BY <1>0 DEF ClientInv, OrderInv
    <3> QED
      BY <2>1, <3>1, <3>2, <3>3, <3>4 DEF OrderInv
  <2>5. CompleteInv(c)'
    <3> SUFFICES ASSUME ~overrun[c]
                 PROVE  Taken(c)' = Run(since[c], (next[c] + 1) - since[c])
      BY <1>1, <1>2, <2>1 DEF CompleteInv
    <3>1. got[c] = Run(since[c], next[c] - since[c])
      BY <1>0, <1>1 DEF ClientInv, CompleteInv, Taken
    <3>2. Taken(c)' = Append(got[c], next[c])
      BY <1>1, <1>2, <2>1 DEF Taken
    <3> DEFINE n == next[c] - since[c]
    <3>3. n \in Nat /\ since[c] \in Int /\ since[c] + n = next[c] /\ (next[c] + 1) - since[c] = n + 1
      BY <1>1
    <3>4. Append(Run(since[c], n), since[c] + n) = Run(since[c], n + 1)
      BY <3>3, RunAppend
    <3> QED
      BY <3>1, <3>2, <3>3, <3>4
  <2>6. \A d \in Client : d # c => ClientInv(d)'
    BY <1>0, <1>2, OtherClient
  <2>7. ConsumerInv'
    BY <1>0 DEF Take, consumerVars, ConsumerInv
  <2> QED
    BY <2>2, <2>3, <2>4, <2>5, <2>6, <2>7 DEF IInv, ClientInv
<1> QED
  BY <1>3, <1>4

LEMMA WrittenKeeps ==
  ASSUME IInv, NEW c \in Client, Written(c)
  PROVE  IInv'
<1>0. TypeOK /\ ConsumerInv /\ \A d \in Client : ClientInv(d)
  BY DEF IInv
<1>1. /\ Open(c) /\ writing[c] \in 1 .. MaxOut /\ got[c] \in Seq(1 .. MaxOut)
      /\ got'[c] = Append(got[c], writing[c]) /\ writing'[c] = 0
      /\ writing[c] < next[c]
  BY <1>0, NetworkAssumption DEF Written, TypeOK, ClientInv, ReceiverInv
<1>2. /\ conn' = conn /\ out' = out /\ next' = next /\ since' = since /\ overrun' = overrun /\ pending' = pending
      /\ \A d \in Client : d # c => got'[d] = got[d] /\ writing'[d] = writing[d]
  BY <1>0 DEF Written, TypeOK
<1>3. TypeOK'
  <2>1. Append(got[c], writing[c]) \in Seq(1 .. MaxOut)
    BY <1>1
  <2>2. got' \in [Client -> Seq(1 .. MaxOut)] /\ writing' \in [Client -> 0 .. MaxOut]
    BY <1>0, <2>1, NetworkAssumption DEF Written, TypeOK
  <2> QED
    BY <1>0, <1>2, <2>2 DEF Written, TypeOK, consumerVars
<1>4. ClosedInv(c)' /\ ReceiverInv(c)'
  BY <1>0, <1>1, <1>2, NetworkAssumption DEF ClientInv, ClosedInv, ReceiverInv, Open, TypeOK
<1>5. OrderInv(c)'
  <2> DEFINE g == got[c]
             n == Len(g)
  <2>1. /\ n \in Nat /\ Len(got'[c]) = n + 1 /\ got'[c][n + 1] = writing[c]
        /\ \A i \in 1 .. n : got'[c][i] = g[i]
    BY <1>1
  <2>2. \A i \in 1 .. n : g[i] < next[c] /\ g[i] < writing[c]
    BY <1>0, <1>1 DEF ClientInv, OrderInv
  <2>3. \A i \in 1 .. n - 1 : g[i] < g[i + 1]
    BY <1>0 DEF ClientInv, OrderInv
  <2>4. \A i \in 1 .. n + 1 : Open(c)' /\ got'[c][i] < next'[c]
    BY <1>1, <1>2, <2>1, <2>2 DEF Open
  <2>5. \A i \in 1 .. (n + 1) - 1 : got'[c][i] < got'[c][i + 1]
    BY <2>1, <2>2, <2>3
  <2> QED
    BY <1>1, <2>1, <2>4, <2>5 DEF OrderInv
<1>6. CompleteInv(c)'
  <2>1. Taken(c)' = got'[c] /\ Taken(c) = Append(got[c], writing[c])
    BY <1>1 DEF Taken
  <2>2. Taken(c)' = Taken(c)
    BY <1>1, <2>1
  <2>3. CompleteInv(c)
    BY <1>0 DEF ClientInv
  <2> QED
    BY <1>1, <1>2, <2>2, <2>3 DEF CompleteInv, Open
<1>7. \A d \in Client : d # c => ClientInv(d)'
  BY <1>0, <1>2, OtherClient
<1>8. ConsumerInv'
  BY <1>0 DEF Written, consumerVars, ConsumerInv
<1> QED
  BY <1>3, <1>4, <1>5, <1>6, <1>7, <1>8 DEF IInv, ClientInv

LEMMA ReadLinesKeeps ==
  ASSUME IInv, NEW c \in Client, NEW n \in Nat, NEW lines \in [1 .. n -> Lines], ReadLines(c, lines)
  PROVE  IInv'
<1>0. TypeOK /\ ConsumerInv /\ \A d \in Client : ClientInv(d)
  BY DEF IInv
<1>1. conn[c] \in Port /\ Open(c)
  BY <1>0 DEF ReadLines, Open, TypeOK
<1>2. [i \in DOMAIN lines |-> Parse(conn[c], lines[i])] \in Seq(Data)
  <2>1. \A i \in 1 .. n : Parse(conn[c], lines[i]) \in Data
    BY <1>1, ParseType
  <2>2. DOMAIN lines = 1 .. n
    OBVIOUS
  <2> QED
    BY <2>1, <2>2
<1>3. TypeOK'
  BY <1>0, <1>2 DEF ReadLines, TypeOK, consumerVars
<1>4. ASSUME NEW d \in Client
      PROVE  ClientInv(d)'
  <2>1. CASE d = c
    BY <1>0, <1>1, <2>1 DEF ReadLines, ClientInv, ClosedInv, ReceiverInv, OrderInv, CompleteInv, Taken, Open
  <2>2. CASE d # c
    BY <1>0, <2>2, OtherClient DEF ReadLines, TypeOK
  <2> QED
    BY <2>1, <2>2
<1>5. ConsumerInv'
  BY <1>0 DEF ReadLines, consumerVars, ConsumerInv
<1> QED
  BY <1>3, <1>4, <1>5 DEF IInv

LEMMA SendOnKeeps ==
  ASSUME IInv, NEW c \in Client, SendOn(c)
  PROVE  IInv'
<1>0. TypeOK /\ ConsumerInv /\ \A d \in Client : ClientInv(d)
  BY DEF IInv
<1>1. /\ Open(c) /\ pending[c] \in Seq(Data) /\ pending[c] # <<>>
      /\ Head(pending[c]) \in Data /\ Tail(pending[c]) \in Seq(Data)
  BY <1>0 DEF SendOn, TypeOK, ClientInv, ClosedInv
<1>2. /\ incoming' \in Seq(Data) /\ Len(incoming') = Len(incoming) + 1 /\ Len(incoming') <= MaxIn
  BY <1>0, <1>1, NetworkAssumption DEF SendOn, TypeOK
<1>3. TypeOK'
  BY <1>0, <1>1, <1>2 DEF SendOn, TypeOK, consumerVars
<1>4. ASSUME NEW d \in Client
      PROVE  ClientInv(d)'
  <2>1. CASE d = c
    BY <1>0, <1>1, <2>1 DEF SendOn, ClientInv, ClosedInv, ReceiverInv, OrderInv, CompleteInv, Taken, Open
  <2>2. CASE d # c
    BY <1>0, <2>2, OtherClient DEF SendOn, TypeOK
  <2> QED
    BY <2>1, <2>2
<1>5. ConsumerInv'
  BY <1>0, <1>2 DEF SendOn, consumerVars, ConsumerInv, TypeOK
<1> QED
  BY <1>3, <1>4, <1>5 DEF IInv

LEMMA DisconnectKeeps ==
  ASSUME IInv, NEW c \in Client, Disconnect(c)
  PROVE  IInv'
<1>0. TypeOK /\ ConsumerInv /\ \A d \in Client : ClientInv(d)
  BY DEF IInv
<1>1. <<>> \in Seq(1 .. MaxOut) /\ Len(<<>>) = 0
  BY EmptySeq
<1>2. TypeOK'
  <2>1. /\ conn' \in [Client -> Port \cup {NoPort}] /\ next' \in [Client -> 1 .. MaxOut + 1]
        /\ writing' \in [Client -> 0 .. MaxOut] /\ since' \in [Client -> 1 .. MaxOut + 1]
        /\ got' \in [Client -> Seq(1 .. MaxOut)] /\ overrun' \in [Client -> BOOLEAN]
    BY <1>0, <1>1, NetworkAssumption DEF Disconnect, TypeOK
  <2>2. ASSUME NEW d \in Client, NEW q \in Port, conn'[d] = q
        PROVE  next'[d] <= out'[q] + 1
    <3>1. d # c
      BY <1>0, <2>2, NetworkAssumption DEF Disconnect, TypeOK
    <3> QED
      BY <1>0, <2>2, <3>1 DEF Disconnect, TypeOK
  <2> QED
    BY <1>0, <2>1, <2>2 DEF Disconnect, TypeOK, consumerVars
<1>3. ASSUME NEW d \in Client
      PROVE  ClientInv(d)'
  <2>1. CASE d = c
    <3>1. /\ ~Open(c)' /\ got'[c] = <<>> /\ writing'[c] = 0 /\ ~overrun'[c] /\ pending'[c] = <<>>
      BY <1>0 DEF Disconnect, TypeOK, Open
    <3> QED
      BY <1>1, <2>1, <3>1 DEF ClientInv, ClosedInv, ReceiverInv, OrderInv, CompleteInv
  <2>2. CASE d # c
    BY <1>0, <2>2, OtherClient DEF Disconnect, TypeOK
  <2> QED
    BY <2>1, <2>2
<1>4. ConsumerInv'
  BY <1>0 DEF Disconnect, consumerVars, ConsumerInv
<1> QED
  BY <1>2, <1>3, <1>4 DEF IInv

(* Publishing is where a client is overrun, and only where.                *)
LEMMA PublishKeeps ==
  ASSUME IInv, NEW p \in Port, Publish(p)
  PROVE  IInv'
<1>0. TypeOK /\ ConsumerInv /\ \A d \in Client : ClientInv(d)
  BY DEF IInv
<1>1. /\ out[p] \in Nat /\ out'[p] = out[p] + 1 /\ out[p] < MaxOut
      /\ \A q \in Port : q # p => out'[q] = out[q]
      /\ out' \in [Port -> 0 .. MaxOut]
  BY <1>0, NetworkAssumption DEF Publish, TypeOK
<1>2. TypeOK'
  <2>1. ASSUME NEW d \in Client, NEW q \in Port, conn[d] = q
        PROVE  next[d] <= out'[q] + 1
    <3>1. /\ next[d] <= out[q] + 1 /\ next[d] \in Int
          /\ out[q] \in Int /\ (out'[q] = out[q] \/ out'[q] = out[q] + 1)
      BY <1>0, <1>1, <2>1 DEF TypeOK
    <3> QED
      BY <3>1
  <2> QED
    BY <1>0, <1>1, <2>1 DEF Publish, TypeOK, consumerVars
<1>3. ASSUME NEW d \in Client
      PROVE  ClientInv(d)'
  <2>1. /\ conn' = conn /\ next' = next /\ writing' = writing /\ since' = since /\ got' = got /\ pending' = pending
        /\ overrun'[d] = (overrun[d] \/ (conn[d] = p /\ next[d] <= out'[p] - OutCapacity))
    BY DEF Publish
  <2>2. CASE conn[d] = p
    <3>1. Open(d) /\ p # NoPort
      BY <2>2, NetworkAssumption DEF Open
    <3>2. ClosedInv(d)' /\ OrderInv(d)'
      BY <1>0, <2>1, <3>1 DEF ClientInv, ClosedInv, OrderInv, Open
    <3>3. ReceiverInv(d)'
      <4>1. /\ since[d] <= next[d] /\ next[d] <= out[p] + 1 /\ writing[d] < next[d] /\ next[d] \in Int
        BY <1>0, <2>2, <3>1 DEF ClientInv, ReceiverInv, TypeOK
      <4>2. ~overrun'[d] => ~(next[d] <= out'[p] - OutCapacity)
        BY <2>1, <2>2, Zenon
      <4>3. ~overrun'[d] => next[d] > out'[p] - OutCapacity
        BY <1>1, <4>1, <4>2, NetworkAssumption
      <4> QED
        BY <1>1, <2>1, <2>2, <4>1, <4>3 DEF ReceiverInv
    <3>4. CompleteInv(d)'
      <4>1. ~overrun'[d] => ~overrun[d]
        BY <2>1, Zenon
      <4> QED
        BY <1>0, <2>1, <3>1, <4>1 DEF ClientInv, CompleteInv, Taken, Open
    <3> QED
      BY <3>2, <3>3, <3>4 DEF ClientInv
  <2>3. CASE conn[d] # p
    <3>1. overrun'[d] = overrun[d]
      <4>1. overrun[d] \in BOOLEAN
        BY <1>0 DEF TypeOK
      <4> QED
        BY <2>1, <2>3, <4>1
    <3>2. Open(d) => out'[conn[d]] = out[conn[d]]
      BY <1>0, <1>1, <2>3 DEF Open, TypeOK
    <3> QED
      BY <1>0, <2>1, <3>1, <3>2, OtherClient
  <2> QED
    BY <2>2, <2>3
<1>4. ConsumerInv'
  BY <1>0 DEF Publish, consumerVars, ConsumerInv
<1> QED
  BY <1>2, <1>3, <1>4 DEF IInv

LEMMA ConsumerKeeps ==
  ASSUME IInv, ConsumerRecv \/ ConsumerFeed
  PROVE  IInv'
<1>0. TypeOK /\ ConsumerInv /\ \A d \in Client : ClientInv(d)
  BY DEF IInv
<1>1. /\ cnext \in 1 .. MaxIn + 1 /\ Len(incoming) \in Nat /\ Len(incoming) <= MaxIn /\ MaxIn \in Nat
      /\ fed \in Seq(1 .. MaxIn)
  BY <1>0, NetworkAssumption DEF TypeOK
<1>2. TypeOK' /\ ConsumerInv'
  <2>1. CASE ConsumerRecv
    <3>1. cnext' \in 1 .. MaxIn + 1 /\ cpc' \in {"work", "ended"} /\ cnext' <= Len(incoming) + 1
          /\ (cpc' = "work" => cnext' > 1)
      BY <1>0, <1>1, <2>1 DEF ConsumerRecv, ConsumerInv
    <3> QED
      BY <1>0, <2>1, <3>1 DEF ConsumerRecv, ConsumerInv, TypeOK, clientVars
  <2>2. CASE ConsumerFeed
    <3>1. cnext - 1 \in 1 .. MaxIn
      BY <1>0, <1>1, <2>2 DEF ConsumerFeed, ConsumerInv
    <3>2. fed' \in Seq(1 .. MaxIn)
      <4>1. fed' = fed \/ fed' = Append(fed, cnext - 1)
        BY <2>2 DEF ConsumerFeed
      <4> DEFINE e == cnext - 1
      <4>2. e \in 1 .. MaxIn /\ (fed' = fed \/ fed' = Append(fed, e))
        BY <3>1, <4>1
      <4> HIDE DEF e
      <4> QED
        BY <1>1, <4>2
    <3> QED
      BY <1>0, <2>2, <3>2 DEF ConsumerFeed, ConsumerInv, TypeOK, clientVars
  <2> QED
    BY <2>1, <2>2
<1>3. ASSUME NEW d \in Client
      PROVE  ClientInv(d)'
  BY <1>0, OtherClient DEF ConsumerRecv, ConsumerFeed, clientVars
<1> QED
  BY <1>2, <1>3 DEF IInv

LEMMA NextInvariant == IInv /\ [Next]_vars => IInv'
<1> SUFFICES ASSUME IInv, [Next]_vars PROVE IInv'
  OBVIOUS
<1>1. ASSUME NEW c \in Client, NEW n \in 1 .. MaxPerRead, NEW lines \in [1 .. n -> Lines], ReadLines(c, lines)
      PROVE  IInv'
  <2>1. n \in Nat
    BY NetworkAssumption
  <2> QED
    BY <1>1, <2>1, ReadLinesKeeps
<1>2. CASE AcceptFails \/ UNCHANGED vars
  <2>1. TypeOK' /\ ConsumerInv'
    BY <1>2 DEF AcceptFails, vars, clientVars, consumerVars, IInv, TypeOK, ConsumerInv
  <2>2. ASSUME NEW d \in Client
        PROVE  ClientInv(d)'
    BY <1>2, OtherClient DEF AcceptFails, vars, clientVars, IInv
  <2> QED
    BY <2>1, <2>2 DEF IInv
<1> QED
  BY <1>1, <1>2, AcceptKeeps, TakeKeeps, WrittenKeeps, SendOnKeeps, DisconnectKeeps, PublishKeeps, ConsumerKeeps
     DEF Next

LEMMA Invariant == Spec => []IInv
BY InitInvariant, NextInvariant, PTL DEF Spec

(* No receiver is ahead of what was published, and no position, value or   *)
(* message is out of its range.                                            *)
THEOREM TypeCorrect == Spec => []TypeOK
<1>1. IInv => TypeOK
  BY DEF IInv
<1> QED
  BY <1>1, Invariant, PTL

(* However many clients there are and whatever they do, a client that the  *)
(* channel has not overtaken has got everything published on its port      *)
(* since it connected, in order and nothing else.                          *)
THEOREM NothingLost == Spec => []CompleteUnlessOverrun
<1>1. ASSUME IInv
      PROVE  CompleteUnlessOverrun
  BY <1>1 DEF IInv, ClientInv, CompleteInv, CompleteUnlessOverrun, Taken, Run
<1> QED
  BY <1>1, Invariant, PTL

(* And one that it has overtaken gets nothing twice or out of order.       *)
THEOREM AlwaysInOrder == Spec => []NothingTwice
<1>1. ASSUME IInv
      PROVE  NothingTwice
  BY <1>1 DEF IInv, ClientInv, OrderInv, NothingTwice
<1> QED
  BY <1>1, Invariant, PTL

-----------------------------------------------------------------------------
(* The incoming side.                                                      *)

(* How many messages the consumer is done with.                            *)
Consumed == IF cpc = "work" THEN cnext - 2 ELSE cnext - 1

(* It fed good ones only, in order, and left none out.                     *)
FedInv ==
  /\ \A i \in 1 .. Len(fed) : fed[i] \in 1 .. Consumed /\ incoming[fed[i]] = "good"
  /\ \A i, j \in 1 .. Len(fed) : i < j => fed[i] < fed[j]
  /\ \A k \in 1 .. Consumed : incoming[k] = "good" => \E i \in 1 .. Len(fed) : fed[i] = k

LEMMA InitFed == Init => FedInv
<1>1. Len(<<>>) = 0 /\ 1 .. 0 = {}
  OBVIOUS
<1> QED
  BY <1>1 DEF Init, FedInv, Consumed

(* New messages arrive behind the ones the consumer has passed.            *)
LEMMA ArrivalKeepsFed ==
  ASSUME IInv, FedInv, NEW m, incoming' = Append(incoming, m), UNCHANGED consumerVars
  PROVE  FedInv'
<1>1. /\ incoming \in Seq(Data) /\ cnext \in Nat /\ cnext <= Len(incoming) + 1
      /\ cpc' = cpc /\ cnext' = cnext /\ fed' = fed
  BY NetworkAssumption DEF IInv, TypeOK, ConsumerInv, consumerVars
<1>2. Consumed' = Consumed /\ Consumed <= Len(incoming) /\ Consumed \in Int
  BY <1>1 DEF Consumed
<1>3. \A k \in 1 .. Consumed : incoming'[k] = incoming[k]
  BY <1>1, <1>2
<1> HIDE DEF Consumed
<1> QED
  BY <1>1, <1>2, <1>3 DEF FedInv

LEMMA ConsumerKeepsFed ==
  ASSUME IInv, FedInv, ConsumerRecv \/ ConsumerFeed
  PROVE  FedInv'
<1>1. /\ incoming' = incoming /\ cnext \in Nat /\ cpc \in {"recv", "work", "ended"}
      /\ cpc = "work" => cnext > 1
      /\ fed \in Seq(Int)
  <2>1. fed \in Seq(1 .. MaxIn) /\ 1 .. MaxIn \subseteq Int
    BY NetworkAssumption DEF IInv, TypeOK
  <2> QED
    BY <2>1, NetworkAssumption DEF IInv, TypeOK, ConsumerInv, ConsumerRecv, ConsumerFeed
<1>2. CASE ConsumerRecv
  <2>1. Consumed' = Consumed /\ fed' = fed
    BY <1>1, <1>2 DEF ConsumerRecv, Consumed
  <2> QED
    BY <1>1, <2>1 DEF FedInv
<1>3. CASE ConsumerFeed
  <2> DEFINE e == cnext - 1
             n == Len(fed)
  <2>1. /\ e \in Nat /\ e > 0 /\ Consumed = e - 1 /\ Consumed' = e
        /\ fed' = IF incoming[e] = "good" THEN Append(fed, e) ELSE fed
    BY <1>1, <1>3 DEF ConsumerFeed, Consumed, Feedable
  <2> HIDE DEF e
  <2>2. /\ \A i \in 1 .. n : fed[i] \in 1 .. e - 1 /\ incoming[fed[i]] = "good"
        /\ \A i, j \in 1 .. n : i < j => fed[i] < fed[j]
        /\ \A k \in 1 .. e - 1 : incoming[k] = "good" => \E i \in 1 .. n : fed[i] = k
    BY <2>1 DEF FedInv
  <2>3. CASE incoming[e] # "good"
    <3>1. fed' = fed
      BY <2>1, <2>3
    <3>2. \A k \in 1 .. e : incoming[k] = "good" => k \in 1 .. e - 1
      BY <2>1, <2>3
    <3> QED
      BY <1>1, <2>1, <2>2, <3>1, <3>2 DEF FedInv
  <2>4. CASE incoming[e] = "good"
    <3>1. /\ n \in Nat /\ Len(fed') = n + 1 /\ fed'[n + 1] = e
          /\ \A i \in 1 .. n : fed'[i] = fed[i]
      BY <1>1, <2>1, <2>4
    <3> HIDE DEF n
    <3>2. \A i \in 1 .. n + 1 : fed'[i] \in 1 .. e /\ incoming[fed'[i]] = "good"
      BY <2>1, <2>2, <2>4, <3>1
    <3>3. ASSUME NEW i \in 1 .. n + 1, NEW j \in 1 .. n + 1, i < j
          PROVE  fed'[i] < fed'[j]
      <4>1. i \in 1 .. n /\ fed'[i] = fed[i] /\ fed[i] \in 1 .. e - 1
        BY <2>2, <3>1, <3>3
      <4>2. CASE j = n + 1
        BY <2>1, <3>1, <4>1, <4>2
      <4>3. CASE j \in 1 .. n
        BY <2>2, <3>1, <3>3, <4>1, <4>3
      <4> QED
        BY <3>1, <4>2, <4>3
    <3>4. ASSUME NEW k \in 1 .. e, incoming[k] = "good"
          PROVE  \E i \in 1 .. n + 1 : fed'[i] = k
      <4>1. CASE k = e
        BY <3>1, <4>1
      <4>2. CASE k \in 1 .. e - 1
        <5>1. PICK i \in 1 .. n : fed[i] = k
          BY <2>2, <3>4, <4>2
        <5> QED
          BY <3>1, <5>1
      <4>3. k = e \/ k \in 1 .. e - 1
        BY <2>1
      <4> QED
        BY <4>1, <4>2, <4>3
    <3> QED
      BY <1>1, <2>1, <3>1, <3>2, <3>3, <3>4 DEF FedInv
  <2> QED
    BY <2>3, <2>4
<1> QED
  BY <1>2, <1>3

(* However long the bursts are, whatever the consumer is done with has     *)
(* been fed if it is a good frame, once and in the order of arrival.       *)
THEOREM InputIsFed == Spec => []FramesAreFed
<1>1. ASSUME IInv, FedInv, [Next]_vars
      PROVE  FedInv'
  <2>1. CASE \E c \in Client : SendOn(c)
    BY <1>1, <2>1, ArrivalKeepsFed DEF SendOn
  <2>2. CASE UNCHANGED <<incoming, consumerVars>>
    BY <1>1, <2>2 DEF FedInv, Consumed, consumerVars
  <2>3. CASE ConsumerRecv \/ ConsumerFeed
    BY <1>1, <2>3, ConsumerKeepsFed
  <2>4. \/ \E c \in Client : SendOn(c)
        \/ ConsumerRecv \/ ConsumerFeed
        \/ UNCHANGED <<incoming, consumerVars>>
    BY <1>1 DEF Next, vars, Accept, Take, Written, ReadLines, Disconnect, AcceptFails, Publish
  <2> QED
    BY <2>1, <2>2, <2>3, <2>4
<1>2. ASSUME IInv, FedInv
      PROVE  FramesAreFed
  <2>1. fed \in Seq(1 .. MaxIn) /\ DOMAIN fed = 1 .. Len(fed)
    BY <1>2 DEF IInv, TypeOK
  <2> QED
    BY <1>2, <2>1 DEF FedInv, Consumed, FramesAreFed
<1> QED
  BY <1>1, <1>2, InitFed, Invariant, PTL DEF Spec

=============================================================================

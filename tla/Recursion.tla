------------------------------ MODULE Recursion -----------------------------
(***************************************************************************)
(* Induction over the natural numbers and recursive functions, in a form   *)
(* in which the other proofs can cite them: over sets and functions, since *)
(* the theorems of the library take operators, which the provers cannot    *)
(* instantiate.  The number the induction goes over is the measure of the  *)
(* recursions of Crc, BeastCodec and BeastClients.                         *)
(***************************************************************************)
EXTENDS WellFoundedInduction, TLAPS

(* What holds of 0 and of the next number whenever it holds of a number    *)
(* holds of all of them; a property is the set of what has it.             *)
LEMMA Induction ==
  ASSUME NEW S, 0 \in S, \A n \in Nat : n \in S => n + 1 \in S
  PROVE  Nat \subseteq S
<1> DEFINE T == Nat \ S
           R == OpToRel(<, Nat)
<1>1. SUFFICES ASSUME T # {} PROVE FALSE
  OBVIOUS
<1>2. \E x \in T : \A y \in T : <<y, x>> \notin R
  <2>1. IsWellFoundedOn(R, Nat) /\ T \subseteq Nat
    BY NatLessThanWellFounded
  <2> HIDE DEF R, T
  <2> QED
    BY <2>1, <1>1, WFMin
<1>3. PICK x \in T : \A y \in T : <<y, x>> \notin R
  BY <1>2
<1>4. x # 0 /\ x \in Nat
  BY <1>3
<1>5. x - 1 \in Nat /\ x = (x - 1) + 1
  BY <1>4
<1>6. x - 1 \notin S
  BY <1>5, <1>3
<1>7. <<x - 1, x>> \in R
  BY <1>4, <1>5 DEF OpToRel
<1> QED
  BY <1>3, <1>5, <1>6, <1>7

(* A set of natural numbers has a least member.                            *)
LEMMA LeastNumber ==
  ASSUME NEW S, S \subseteq Nat, S # {}
  PROVE  \E m \in S : \A k \in S : m <= k
<1> DEFINE R == OpToRel(<, Nat)
<1>1. \E x \in S : \A y \in S : <<y, x>> \notin R
  <2>1. IsWellFoundedOn(R, Nat)
    BY NatLessThanWellFounded
  <2> HIDE DEF R
  <2> QED
    BY <2>1, WFMin
<1>2. PICK x \in S : \A y \in S : <<y, x>> \notin R
  BY <1>1
<1>3. ASSUME NEW y \in S PROVE x <= y
  <2>1. x \in Nat /\ y \in Nat
    OBVIOUS
  <2>2. y < x => <<y, x>> \in R
    BY <2>1 DEF OpToRel
  <2>3. ~(y < x)
    BY <2>2, <1>2
  <2> QED
    BY <2>1, <2>3
<1> QED
  BY <1>3

(* What holds of an argument whenever it holds of those of smaller number  *)
(* holds of all of them.                                                   *)
LEMMA MeasureInduction ==
  ASSUME NEW D, NEW mu \in [D -> Nat], NEW S,
         \A d \in D : (\A e \in D : mu[e] < mu[d] => e \in S) => d \in S
  PROVE  D \subseteq S
<1> DEFINE N == {mu[d] : d \in D \ S}
<1>1. SUFFICES ASSUME D \ S # {} PROVE FALSE
  OBVIOUS
<1>2. N \subseteq Nat /\ N # {}
  BY <1>1
<1>3. PICK m \in N : \A k \in N : m <= k
  <2> HIDE DEF N
  <2> QED
    BY <1>2, LeastNumber
<1>4. PICK d \in D \ S : m = mu[d]
  BY <1>3
<1>5. ASSUME NEW e \in D, mu[e] < mu[d] PROVE e \in S
  <2>1. mu[e] \in Nat /\ mu[d] \in Nat
    OBVIOUS
  <2>2. e \notin S => mu[d] <= mu[e]
    BY <1>3, <1>4
  <2> QED
    BY <2>1, <2>2, <1>5
<1> QED
  BY <1>4, <1>5

(* x0, F[x0], F[F[x0]] and so on.                                          *)
IsIteration(it, X, F, x0) ==
  it \in [Nat -> X] /\ it[0] = x0 /\ \A n \in Nat : it[n + 1] = F[it[n]]

(* A function can be applied again and again.                              *)
LEMMA Iterates ==
  ASSUME NEW X, NEW x0 \in X, NEW F \in [X -> X]
  PROVE  \E it : IsIteration(it, X, F, x0)
<1> DEFINE IsRun(n, s) == s \in [0 .. n -> X] /\ s[0] = x0 /\ \A i \in 0 .. n - 1 : s[i + 1] = F[s[i]]
           Some == {n \in Nat : \E s : IsRun(n, s)}
           run(n) == CHOOSE s : IsRun(n, s)
           it == [n \in Nat |-> run(n)[n]]
<1>1. Nat \subseteq Some
  <2>1. 0 \in Some
    <3>1. IsRun(0, [i \in 0 .. 0 |-> x0])
      OBVIOUS
    <3> QED
      BY <3>1
  <2>2. ASSUME NEW n \in Nat, n \in Some PROVE n + 1 \in Some
    <3>1. PICK s : IsRun(n, s)
      BY <2>2
    <3> DEFINE t == [i \in 0 .. n + 1 |-> IF i = n + 1 THEN F[s[n]] ELSE s[i]]
    <3>2. s[n] \in X /\ F[s[n]] \in X
      BY <3>1
    <3>3. t \in [0 .. n + 1 -> X] /\ t[0] = x0
      BY <3>1, <3>2
    <3>4. ASSUME NEW i \in 0 .. n PROVE t[i + 1] = F[t[i]]
      BY <3>1
    <3>5. IsRun(n + 1, t)
      <4> HIDE DEF t
      <4> QED
        BY <3>3, <3>4
    <3> HIDE DEF IsRun
    <3> QED
      BY <3>5
  <2> HIDE DEF Some
  <2> QED
    BY <2>1, <2>2, Induction
<1>2. ASSUME NEW n \in Nat PROVE IsRun(n, run(n))
  <2> HIDE DEF IsRun
  <2> QED
    BY <1>1
<1>3. ASSUME NEW m \in Nat, NEW n \in Nat, NEW s, NEW t, IsRun(m, s), IsRun(n, t),
             NEW i \in Nat, i <= m, i <= n
      PROVE  s[i] = t[i]
  <2> DEFINE Same == {j \in Nat : j <= m /\ j <= n => s[j] = t[j]}
  <2>1. 0 \in Same
    BY <1>3
  <2>2. \A j \in Nat : j \in Same => j + 1 \in Same
    BY <1>3
  <2>3. Nat \subseteq Same
    <3> HIDE DEF Same
    <3> QED
      BY <2>1, <2>2, Induction
  <2> QED
    BY <2>3, <1>3
<1> HIDE DEF run
<1>4. it \in [Nat -> X] /\ it[0] = x0
  BY <1>2
<1>5. ASSUME NEW n \in Nat PROVE it[n + 1] = F[it[n]]
  <2>1. IsRun(n, run(n)) /\ IsRun(n + 1, run(n + 1))
    BY <1>2
  <2>2. run(n + 1)[n + 1] = F[run(n + 1)[n]]
    BY <2>1
  <2>3. run(n + 1)[n] = run(n)[n]
    <3> HIDE DEF IsRun
    <3> QED
      BY <2>1, <1>3
  <2> QED
    BY <2>2, <2>3
<1> HIDE DEF it
<1> QED
  BY <1>4, <1>5 DEF IsIteration

(* There is a number for every argument, and the value at an argument      *)
(* depends on those at arguments of smaller number only.                   *)
IsRecursion(D, A, mu, F) ==
  /\ mu \in [D -> Nat]
  /\ F \in [[D -> A] -> [D -> A]]
  /\ \A g, h \in [D -> A], d \in D :
       (\A e \in D : mu[e] < mu[d] => g[e] = h[e]) => F[g][d] = F[h][d]

(* Such a recursive definition has a solution.                             *)
LEMMA RecursionHasSolution ==
  ASSUME NEW D, NEW A, NEW mu, NEW F, A # {}, IsRecursion(D, A, mu, F)
  PROVE  \E f \in [D -> A] : f = F[f]
<1> DEFINE X == [D -> A]
<1> USE DEF IsRecursion
<1>1. PICK a \in A : TRUE
  OBVIOUS
<1>2. PICK it \in [Nat -> X] : \A n \in Nat : it[n + 1] = F[it[n]]
  <2> DEFINE x0 == [d \in D |-> a]
  <2>1. x0 \in X /\ F \in [X -> X]
    BY <1>1
  <2> HIDE DEF X, x0
  <2>2. \E it : IsIteration(it, X, F, x0)
    BY <2>1, Iterates
  <2> QED
    BY <2>2 DEF IsIteration
<1>3. \A n \in Nat : it[n] \in X /\ it[n + 1] = F[it[n]]
  BY <1>2
<1> DEFINE Settled == {n \in Nat : \A d \in D : mu[d] < n => it[n][d] = it[n + 1][d]}
<1>4. Nat \subseteq Settled
  <2>1. 0 \in Settled
    OBVIOUS
  <2>2. ASSUME NEW n \in Nat, n \in Settled PROVE n + 1 \in Settled
    <3>1. ASSUME NEW d \in D, mu[d] < n + 1 PROVE it[n + 1][d] = it[n + 1 + 1][d]
      <4>1. \A e \in D : mu[e] < mu[d] => it[n][e] = it[n + 1][e]
        BY <2>2, <3>1
      <4>2. it[n] \in X /\ it[n + 1] \in X /\ it[n + 1] = F[it[n]] /\ it[n + 1 + 1] = F[it[n + 1]]
        BY <1>3
      <4>3. F[it[n]][d] = F[it[n + 1]][d]
        BY <4>1, <4>2
      <4> QED
        BY <4>2, <4>3
    <3> QED
      BY <3>1
  <2> HIDE DEF Settled
  <2> QED
    BY <2>1, <2>2, Induction
<1>5. ASSUME NEW d \in D PROVE \A k \in Nat : it[mu[d] + 1 + k][d] = it[mu[d] + 1][d]
  <2> DEFINE Same == {k \in Nat : it[mu[d] + 1 + k][d] = it[mu[d] + 1][d]}
  <2>1. 0 \in Same
    OBVIOUS
  <2>2. ASSUME NEW k \in Nat, k \in Same PROVE k + 1 \in Same
    <3>1. mu[d] + 1 + k \in Settled /\ mu[d] < mu[d] + 1 + k
      BY <1>4
    <3>2. it[mu[d] + 1 + k][d] = it[mu[d] + 1 + k + 1][d]
      BY <3>1
    <3>3. mu[d] \in Nat /\ mu[d] + 1 + (k + 1) = mu[d] + 1 + k + 1
      <4>1. mu[d] \in Nat
        OBVIOUS
      <4> QED
        BY <4>1
    <3> QED
      BY <2>2, <3>2, <3>3
  <2>3. Nat \subseteq Same
    <3> HIDE DEF Same
    <3> QED
      BY <2>1, <2>2, Induction
  <2> QED
    BY <2>3
<1> DEFINE f == [d \in D |-> it[mu[d] + 1][d]]
<1>6. f \in [D -> A]
  BY <1>3
<1>7. ASSUME NEW d \in D PROVE F[f][d] = f[d]
  <2>1. ASSUME NEW e \in D, mu[e] < mu[d] PROVE f[e] = it[mu[d]][e]
    <3>1. mu[d] - (mu[e] + 1) \in Nat /\ mu[d] = mu[e] + 1 + (mu[d] - (mu[e] + 1))
      BY <2>1
    <3> QED
      BY <3>1, <1>5
  <2>2. mu[d] \in Nat /\ it[mu[d]] \in [D -> A] /\ it[mu[d] + 1] = F[it[mu[d]]]
    BY <1>3
  <2>3. F[f][d] = F[it[mu[d]]][d]
    <3> HIDE DEF f
    <3> QED
      BY <1>6, <2>1, <2>2
  <2> QED
    BY <2>2, <2>3
<1>8. f = F[f]
  <2> HIDE DEF f
  <2>1. F[f] \in [D -> A]
    BY <1>6
  <2> QED
    BY <1>6, <1>7, <2>1
<1> HIDE DEF f
<1> QED
  BY <1>6, <1>8

=============================================================================

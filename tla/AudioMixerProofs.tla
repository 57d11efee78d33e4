--------------------------- MODULE AudioMixerProofs ---------------------------
(***************************************************************************)
(* Proofs about the audio mixer, for any participants, energies, limits    *)
(* and length of the tail.                                                 *)
(*                                                                         *)
(* A call of GetMixerAudio is followed in the order of its loops: what     *)
(* asking does to a participant (AskedTyped) and to the pool               *)
(* (FramesAskedCount), what sorting does to the list (ByEnergySorts), and  *)
(* what the loop over the sorted list does to a participant                *)
(* (WeightedTyped, LouderIsPicked).  From call to call the list remembers  *)
(* who was heard and how loud (Remembered), and no weight is full when its *)
(* tail is over (Fades).                                                   *)
(*                                                                         *)
(* Where the code counts, sorts or loops the proofs use induction over an  *)
(* interval; it is stated with a set in the place of the predicate, which  *)
(* the provers can instantiate.                                            *)
(***************************************************************************)
EXTENDS AudioMixer, FiniteSetTheorems, WellFoundedInduction, TLAPS

\* A weight is halved once for every frame of the tail that is over, so that the
\* weight of somebody who has been mixed is full only while there is a tail to come.
Fades(v) ==
    /\ v.needMixCount + v.halved <= TailFrames
    /\ v.isMixed /\ v.halved = 0 => v.needMixCount > 0

LEMMA LeastNatural ==
  ASSUME NEW T, T \subseteq Nat, T # {}
  PROVE  \E m \in T : \A n \in T : m <= n
<1> DEFINE R == OpToRel(<, Nat)
<1>1. IsWellFoundedOn(R, Nat) BY NatLessThanWellFounded
<1>2. \A m, n \in Nat : n < m => <<n, m>> \in R BY DEF OpToRel
<1> HIDE DEF R
<1>3. PICK m \in T : \A n \in T : ~(<<n, m>> \in R) BY <1>1, WFMin
<1>4. \A n \in T : ~(n < m) BY <1>2, <1>3
<1> QED BY <1>4

\* Induction over an interval, with a set in the place of the predicate.
LEMMA IntervalInduction ==
  ASSUME NEW N \in Nat, NEW P, 0 \in P, \A i \in 1 .. N : i - 1 \in P => i \in P
  PROVE  \A i \in 0 .. N : i \in P
<1> DEFINE T == (0 .. N) \ P
<1> SUFFICES ASSUME T # {} PROVE FALSE
  OBVIOUS
<1>1. T \subseteq Nat OBVIOUS
<1>2. PICK m \in T : \A n \in T : m <= n
  <2> HIDE DEF T
  <2> QED BY <1>1, LeastNatural
<1>3. m \in 1 .. N /\ m - 1 \in P BY <1>2
<1> QED BY <1>3

\* f goes from base by the steps: step[i] gives the value at i from the one before.
GoesBy(f, base, step, N) == f[0] = base /\ \A i \in 1 .. N : f[i] = step[i][f[i - 1]]

\* A function that is defined by recursion over an interval exists.
LEMMA RecursionExists ==
  ASSUME NEW N \in Nat, NEW S, NEW base \in S, NEW step \in [1 .. N -> [S -> S]]
  PROVE  \E f \in [0 .. N -> S] : GoesBy(f, base, step, N)
<1> DEFINE Upto(n) == \E f \in [0 .. n -> S] :
                         f[0] = base /\ \A i \in 1 .. n : f[i] = step[i][f[i - 1]]
           P == {n \in 0 .. N : Upto(n)}
<1>1. 0 \in P
  <2> DEFINE f == [i \in 0 .. 0 |-> base]
  <2>1. f \in [0 .. 0 -> S] /\ f[0] = base /\ 1 .. 0 = {} OBVIOUS
  <2> HIDE DEF f
  <2>2. Upto(0) BY <2>1
  <2> QED BY <2>2
<1>2. ASSUME NEW n \in 1 .. N, n - 1 \in P PROVE n \in P
  <2>1. PICK f \in [0 .. n - 1 -> S] :
           f[0] = base /\ \A i \in 1 .. n - 1 : f[i] = step[i][f[i - 1]]
    BY <1>2
  <2> DEFINE g == [i \in 0 .. n |-> IF i = n THEN step[n][f[n - 1]] ELSE f[i]]
  <2>2. step[n][f[n - 1]] \in S BY <2>1
  <2>3. g \in [0 .. n -> S] BY <2>1, <2>2
  <2>4. g[0] = base BY <2>1
  <2>5. ASSUME NEW i \in 1 .. n PROVE g[i] = step[i][g[i - 1]]
    <3>1. CASE i = n BY <2>1, <3>1
    <3>2. CASE i # n BY <2>1, <3>2
    <3> QED BY <3>1, <3>2
  <2> HIDE DEF g
  <2>6. Upto(n) BY <2>3, <2>4, <2>5
  <2> QED BY <2>6
<1>3. N \in P
  <2>1. N \in 0 .. N OBVIOUS
  <2> HIDE DEF P
  <2> QED BY <1>1, <1>2, <2>1, IntervalInduction
<1> QED BY <1>3 DEF GoesBy

-----------------------------------------------------------------------------
(* Sorting *)

\* s is t in another order, pi[n] being the place in t of what is at n.
IsReordering(pi, s, t) ==
    /\ pi \in [DOMAIN t -> DOMAIN t]
    /\ \A m, n \in DOMAIN t : pi[m] = pi[n] => m = n
    /\ \A i \in DOMAIN t : \E n \in DOMAIN t : pi[n] = i
    /\ s = [n \in DOMAIN t |-> t[pi[n]]]

Falling(s) == \A m, n \in DOMAIN s : m < n => s[m].energy >= s[n].energy

\* Counting who comes before it gives every participant a place of its own, so that
\* the sorted list is a reordering in which the energy falls.
LEMMA ByEnergySorts ==
  ASSUME NEW s \in Seq(Infos)
  PROVE  Falling(ByEnergy(s)) /\ \E pi : IsReordering(pi, ByEnergy(s), s)
<1> DEFINE N == Len(s)
           D == 1 .. N
           e(i) == s[i].energy
           Before(i, j) == e(i) > e(j) \/ (e(i) = e(j) /\ i < j)
           Ahead(j) == {i \in D : Before(i, j)}
           Place(j) == Cardinality(Ahead(j)) + 1
           place == [j \in D |-> Place(j)]
           pi == [n \in D |-> CHOOSE j \in D : Place(j) = n]
<1>1. N \in Nat /\ DOMAIN s = D OBVIOUS
<1>2. \A i \in D : e(i) \in Nat
  <2>1. \A i \in D : s[i] \in Infos OBVIOUS
  <2>2. \A v \in Infos : v.energy \in Energies BY DEF Infos
  <2> QED BY <2>1, <2>2, MixerAssumption
<1>3. IsFiniteSet(D) /\ Cardinality(D) = N BY <1>1, FS_Interval
<1>4. ByEnergy(s) = [n \in D |-> s[pi[n]]] BY <1>1 DEF ByEnergy
<1> HIDE DEF N
<1>5. ASSUME NEW j \in D
      PROVE  IsFiniteSet(Ahead(j)) /\ Cardinality(Ahead(j)) \in 0 .. N - 1
  <2> DEFINE A == Ahead(j)
             B == D \ {j}
  <2>1. ~Before(j, j) BY <1>2
  <2>2. A \in SUBSET B BY <2>1
  <2> HIDE DEF A
  <2>3. IsFiniteSet(B) /\ Cardinality(B) = N - 1 BY <1>1, <1>3, FS_RemoveElement
  <2> HIDE DEF B
  <2>4. IsFiniteSet(A) /\ Cardinality(A) <= N - 1 BY <2>2, <2>3, FS_Subset
  <2>5. Cardinality(A) \in Nat BY <2>4, FS_CardinalityType
  <2>6. Cardinality(A) \in 0 .. N - 1 BY <1>1, <2>4, <2>5
  <2> QED BY <2>4, <2>6 DEF A
<1>6. ASSUME NEW i \in D, NEW j \in D, Before(i, j)
      PROVE  Place(i) < Place(j)
  <2> DEFINE A == Ahead(i)
             B == Ahead(j)
  <2>1. A \subseteq B
    <3> SUFFICES ASSUME NEW h \in D, Before(h, i) PROVE Before(h, j)
      OBVIOUS
    <3>1. e(h) \in Nat /\ e(i) \in Nat /\ e(j) \in Nat BY <1>2
    <3>2. h \in Int /\ i \in Int /\ j \in Int BY <1>1
    <3> HIDE DEF e, D
    <3> QED BY <1>6, <3>1, <3>2
  <2>2. i \in B /\ i \notin A BY <1>2, <1>6
  <2>3. IsFiniteSet(A) /\ IsFiniteSet(B) /\ Cardinality(A) \in Nat /\ Cardinality(B) \in Nat
    <3>1. IsFiniteSet(A) /\ IsFiniteSet(B) BY <1>5
    <3> HIDE DEF A, B
    <3> QED BY <3>1, FS_CardinalityType
  <2> HIDE DEF A, B
  <2>4. Cardinality(A) <= Cardinality(B) /\ (Cardinality(B) = Cardinality(A) => B = A)
    BY <2>1, <2>3, FS_Subset
  <2>5. Cardinality(A) < Cardinality(B) BY <2>2, <2>3, <2>4
  <2>6. Cardinality(A) + 1 < Cardinality(B) + 1 BY <2>3, <2>5
  <2> QED BY <2>6 DEF A, B
<1>7. \A j \in D : Place(j) \in D
  <2> SUFFICES ASSUME NEW j \in D PROVE Place(j) \in D
    OBVIOUS
  <2>1. Cardinality(Ahead(j)) \in 0 .. N - 1 BY <1>5
  <2> HIDE DEF Ahead
  <2> QED BY <1>1, <2>1
<1>8. \A i, j \in D : Before(i, j) \/ Before(j, i) \/ i = j
  <2> SUFFICES ASSUME NEW i \in D, NEW j \in D PROVE Before(i, j) \/ Before(j, i) \/ i = j
    OBVIOUS
  <2>1. e(i) \in Nat /\ e(j) \in Nat BY <1>2
  <2>2. i \in Int /\ j \in Int BY <1>1
  <2> HIDE DEF e
  <2> QED BY <2>1, <2>2
<1> HIDE DEF Ahead, Before
<1>9. \A i, j \in D : Place(i) = Place(j) => i = j
  <2> SUFFICES ASSUME NEW i \in D, NEW j \in D, Place(i) = Place(j) PROVE i = j
    OBVIOUS
  <2>1. Place(i) \in Int /\ Place(j) \in Int BY <1>1, <1>7
  <2> HIDE DEF Place
  <2> QED BY <1>6, <1>8, <2>1
<1> HIDE DEF Place
<1>10. \A n \in D : \E j \in D : Place(j) = n
  <2>1. place \in Injection(D, D) BY <1>7, <1>9 DEF Injection, IsInjective
  <2>2. place \in Surjection(D, D)
    <3> HIDE DEF D, place
    <3> QED BY <1>3, <2>1, FS_Injection
  <2>3. \A n \in D : \E j \in D : place[j] = n BY <2>2 DEF Surjection
  <2> QED BY <2>3
<1>11. \A n \in D : pi[n] \in D /\ Place(pi[n]) = n BY <1>10
<1>12. \A j \in D : pi[Place(j)] = j
  <2> SUFFICES ASSUME NEW j \in D PROVE pi[Place(j)] = j
    OBVIOUS
  <2>1. Place(j) \in D BY <1>7
  <2> QED BY <1>9, <1>11, <2>1
<1>13. pi \in [D -> D] BY <1>11
<1> HIDE DEF pi
<1>14. IsReordering(pi, ByEnergy(s), s)
  <2>1. \A m, n \in D : pi[m] = pi[n] => m = n BY <1>11
  <2>2. \A i \in D : \E n \in D : pi[n] = i BY <1>7, <1>12
  <2> QED BY <1>1, <1>4, <1>13, <2>1, <2>2 DEF IsReordering
<1>15. Falling(ByEnergy(s))
  <2> SUFFICES ASSUME NEW m \in D, NEW n \in D, m < n PROVE e(pi[m]) >= e(pi[n])
    BY <1>4 DEF Falling
  <2>1. ~(Place(pi[n]) < Place(pi[m])) BY <1>1, <1>11
  <2>2. pi[m] \in D /\ pi[n] \in D BY <1>11
  <2>3. ~Before(pi[n], pi[m]) BY <1>6, <2>1, <2>2
  <2>4. e(pi[m]) \in Nat /\ e(pi[n]) \in Nat BY <1>2, <2>2
  <2> HIDE DEF e
  <2> QED BY <2>3, <2>4 DEF Before
<1> QED BY <1>14, <1>15

LEMMA InfosSeq ==
  ASSUME NEW n \in Nat, NEW f \in [1 .. n -> Infos]
  PROVE  f \in Seq(Infos) /\ Len(f) = n /\ DOMAIN f = 1 .. n
OBVIOUS

LEMMA OrderedReorders ==
  ASSUME NEW s \in Seq(Infos), limit \in Nat
  PROVE  /\ \E pi : IsReordering(pi, Ordered(s), s)
         /\ Len(s) > limit => Falling(Ordered(s))
         /\ Ordered(s) \in Seq(Infos)
         /\ Len(Ordered(s)) = Len(s)
<1>1. \E pi : IsReordering(pi, s, s)
  <2> DEFINE pi == [i \in DOMAIN s |-> i]
  <2>1. IsReordering(pi, s, s) BY DEF IsReordering
  <2> QED BY <2>1
<1>2. /\ \E pi : IsReordering(pi, Ordered(s), s)
      /\ Len(s) > limit => Falling(Ordered(s))
  BY <1>1, ByEnergySorts DEF Ordered
<1>3. PICK pi : IsReordering(pi, Ordered(s), s) BY <1>2
<1>4. DOMAIN s = 1 .. Len(s) /\ Len(s) \in Nat OBVIOUS
<1>5. Ordered(s) \in [1 .. Len(s) -> Infos] BY <1>3, <1>4 DEF IsReordering
<1> QED BY <1>2, <1>4, <1>5, InfosSeq

\* The loop mixes at the weight of loudness up to some place of the list, which is
\* beyond the end of a list that is not longer than the limit.
LEMMA WithinIsPrefix ==
  ASSUME NEW s \in Seq(Infos), limit \in Nat, NEW i \in DOMAIN s
  PROVE  /\ Len(s) <= limit => Within(s, i)
         /\ \A j \in DOMAIN s : j <= i /\ Within(s, i) => Within(s, j)
<1> DEFINE Loud(k) == {j \in 1 .. k - 1 : s[j].energy > 0}
<1>1. ASSUME NEW k \in DOMAIN s
      PROVE  /\ IsFiniteSet(Loud(k)) /\ Cardinality(Loud(k)) \in Nat
             /\ Cardinality(Loud(k)) <= k - 1
  <2> DEFINE A == Loud(k)
             B == 1 .. k - 1
  <2>1. IsFiniteSet(B) /\ Cardinality(B) = k - 1 BY FS_Interval
  <2>2. A \in SUBSET B OBVIOUS
  <2> HIDE DEF A, B
  <2>3. IsFiniteSet(A) /\ Cardinality(A) <= k - 1 BY <2>1, <2>2, FS_Subset
  <2>4. Cardinality(A) \in Nat BY <2>3, FS_CardinalityType
  <2> QED BY <2>3, <2>4 DEF A
<1>2. ASSUME NEW k \in DOMAIN s PROVE Within(s, k) <=> Cardinality(Loud(k)) <= limit
  <2> DEFINE n == Cardinality(Loud(k))
  <2>1. n \in Nat BY <1>1
  <2>2. Counter(s, k) = IF n > limit + 1 THEN limit + 1 ELSE n BY DEF Counter
  <2> HIDE DEF n
  <2>3. Within(s, k) <=> n <= limit BY <2>1, <2>2 DEF Within
  <2> QED BY <2>3 DEF n
<1>3. ASSUME Len(s) <= limit PROVE Within(s, i)
  <2> DEFINE n == Cardinality(Loud(i))
  <2>1. n \in Nat /\ n <= i - 1 BY <1>1
  <2> HIDE DEF n
  <2>2. n <= limit BY <1>3, <2>1
  <2> QED BY <1>2, <2>2 DEF n
<1>4. ASSUME NEW j \in DOMAIN s, j <= i, Within(s, i) PROVE Within(s, j)
  <2> DEFINE A == Loud(j)
             B == Loud(i)
  <2>1. A \in SUBSET B BY <1>4
  <2>2. IsFiniteSet(B) /\ Cardinality(A) \in Nat /\ Cardinality(B) \in Nat BY <1>1
  <2>3. Cardinality(B) <= limit BY <1>2, <1>4
  <2> HIDE DEF A, B
  <2>4. Cardinality(A) <= Cardinality(B) BY <2>1, <2>2, FS_Subset
  <2>5. Cardinality(A) <= limit BY <2>2, <2>3, <2>4
  <2> QED BY <1>2, <2>5 DEF A
<1> QED BY <1>3, <1>4

\* Who is louder than somebody within the limit is within the limit.
LEMMA LouderIsPicked ==
  ASSUME NEW t \in Seq(Infos), limit \in Nat,
         NEW i \in DOMAIN Ordered(t), NEW j \in DOMAIN Ordered(t),
         Within(Ordered(t), i), Ordered(t)[j].energy > Ordered(t)[i].energy
  PROVE  Picked(Ordered(t), j)
<1> DEFINE s == Ordered(t)
<1>1. s \in Seq(Infos) /\ Len(s) = Len(t) BY OrderedReorders
<1>2. Len(t) > limit => Falling(s) BY OrderedReorders
<1>3. Within(s, i) /\ s[j].energy > s[i].energy OBVIOUS
<1> HIDE DEF s
<1>4. s[i].energy \in Nat /\ s[j].energy \in Nat
  <2>1. \A v \in Infos : v.energy \in Energies BY DEF Infos
  <2>2. s[i] \in Infos /\ s[j] \in Infos BY <1>1 DEF s
  <2> QED BY <2>1, <2>2, MixerAssumption
<1>5. i \in DOMAIN s /\ j \in DOMAIN s /\ i \in Int /\ j \in Int BY <1>1 DEF s
<1>6. CASE Len(t) <= limit BY <1>1, <1>5, <1>6, WithinIsPrefix, <1>3, <1>4 DEF Picked, s
<1>7. CASE Len(t) > limit
  <2>1. ~(i < j) BY <1>2, <1>3, <1>4, <1>5, <1>7 DEF Falling
  <2>2. Within(s, j) BY <1>1, <1>3, <1>5, <2>1, WithinIsPrefix
  <2>3. s[j].energy > 0 BY <1>3, <1>4
  <2> QED BY <2>2, <2>3 DEF Picked, s
<1>8. Len(t) \in Nat OBVIOUS
<1> QED BY <1>6, <1>7, <1>8

-----------------------------------------------------------------------------
(* Asking and weighing *)

Answers == Energies \cup {NoFrame}

LEMMA AskedTyped ==
  ASSUME NEW v \in Infos, NEW a \in Answers
  PROVE  /\ Asked(v, a) \in Infos
         /\ Asked(v, a).participant = v.participant
         /\ Asked(v, a).hasFrame <=> a # NoFrame
         /\ Fades(v) => Fades(Asked(v, a))
         /\ Asked(v, a).energy > 0 => Asked(v, a).hasFrame
         /\ Asked(v, a).isMixed => Asked(v, a).hasFrame
         /\ Asked(v, a).hasFrame => /\ Asked(v, a).isMixed = v.isMixed
                                    /\ Asked(v, a).halved = v.halved
<1> DEFINE w == Asked(v, a)
<1>1. 0 \in Energies /\ TailFrames \in Nat \ {0} BY MixerAssumption
<1>2. CASE a = NoFrame
  <2>1. 0 \in -1 .. TailFrames /\ 0 \in 0 .. TailFrames BY <1>1
  <2>2. w = [v EXCEPT !.needMixCount = 0, !.halved = 0, !.hasFrame = FALSE,
                      !.energy = 0, !.isMixed = FALSE]
    BY <1>2 DEF Asked
  <2> HIDE DEF w
  <2>3. /\ w \in Infos /\ w.participant = v.participant
        /\ w.hasFrame = FALSE /\ w.isMixed = FALSE /\ w.energy = 0
        /\ w.needMixCount = 0 /\ w.halved = 0
    BY <1>1, <2>1, <2>2 DEF Infos
  <2>4. Fades(w) BY <1>1, <2>3 DEF Fades
  <2> QED BY <1>2, <2>3, <2>4 DEF w
<1>3. CASE a # NoFrame
  <2>1. a \in Energies BY <1>3 DEF Answers
  <2>2. w = [v EXCEPT !.energy = a, !.hasFrame = TRUE] BY <1>3 DEF Asked
  <2> HIDE DEF w
  <2>3. /\ w \in Infos /\ w.participant = v.participant
        /\ w.hasFrame = TRUE /\ w.isMixed = v.isMixed
        /\ w.needMixCount = v.needMixCount /\ w.halved = v.halved
    BY <2>1, <2>2 DEF Infos
  <2>4. Fades(v) => Fades(w) BY <2>3 DEF Fades
  <2> QED BY <1>3, <2>3, <2>4 DEF w
<1> QED BY <1>2, <1>3

\* What the loop does to one participant of the list.
LEMMA WeightedTyped ==
  ASSUME NEW s \in Seq(Infos), \A i \in DOMAIN s : Fades(s[i])
  PROVE  /\ Weighted(s) \in Seq(Infos)
         /\ Len(Weighted(s)) = Len(s) /\ DOMAIN Weighted(s) = DOMAIN s
         /\ \A i \in DOMAIN s :
               LET w == Weighted(s)[i]
               IN  /\ w.participant = s[i].participant
                   /\ w.energy = s[i].energy
                   /\ Fades(w)
                   /\ Picked(s, i) => w.isMixed /\ w.halved = 0
                   /\ Fading(s, i) => w.isMixed /\ w.halved > 0 /\ w.halved <= s[i].halved + 1
<1> DEFINE W == Weighted(s)
<1>1. DOMAIN s = 1 .. Len(s) /\ Len(s) \in Nat /\ TailFrames \in Nat \ {0}
  BY MixerAssumption
<1>2. W = [i \in DOMAIN s |-> W[i]] BY DEF Weighted
<1>3. ASSUME NEW i \in DOMAIN s
      PROVE  /\ W[i] \in Infos
             /\ W[i].participant = s[i].participant
             /\ W[i].energy = s[i].energy
             /\ Fades(W[i])
             /\ Picked(s, i) => W[i].isMixed /\ W[i].halved = 0
             /\ Fading(s, i) => W[i].isMixed /\ W[i].halved > 0 /\ W[i].halved <= s[i].halved + 1
  <2> DEFINE v == s[i]
             w == W[i]
  <2>1. v \in Infos /\ Fades(v) OBVIOUS
  <2>2. CASE Picked(s, i)
    <3>1. ~Fading(s, i) BY <2>2 DEF Picked, Fading
    <3>2. w = [v EXCEPT !.needMixCount = TailFrames, !.isMixed = TRUE, !.halved = 0]
      BY <2>2, <3>1 DEF Weighted
    <3>3. TailFrames \in -1 .. TailFrames /\ 0 \in 0 .. TailFrames BY <1>1
    <3> HIDE DEF w, v
    <3>4. /\ w \in Infos /\ w.participant = v.participant /\ w.energy = v.energy
          /\ w.isMixed = TRUE /\ w.halved = 0 /\ w.needMixCount = TailFrames
      BY <2>1, <3>2, <3>3 DEF Infos
    <3>5. Fades(w) BY <1>1, <3>4 DEF Fades
    <3> QED BY <3>1, <3>4, <3>5 DEF v, w
  <2>3. CASE Fading(s, i)
    <3> DEFINE n == IF v.needMixCount >= 0 THEN v.needMixCount - 1 ELSE v.needMixCount
               h == IF v.needMixCount > 0 THEN v.halved + 1 ELSE v.halved
    <3>1. ~Picked(s, i) /\ v.isMixed BY <2>3 DEF Picked, Fading
    <3>2. w = [v EXCEPT !.needMixCount = n, !.halved = h] BY <2>3, <3>1 DEF Weighted
    <3> HIDE DEF w, v
    <3>3. /\ v.needMixCount \in -1 .. TailFrames /\ v.halved \in 0 .. TailFrames
          /\ v.needMixCount + v.halved <= TailFrames
          /\ v.halved = 0 => v.needMixCount > 0
      BY <2>1, <3>1 DEF Infos, Fades
    <3>4. /\ n \in -1 .. TailFrames /\ h \in 0 .. TailFrames /\ n + h <= TailFrames
          /\ h > 0 /\ h <= v.halved + 1
      BY <1>1, <3>3
    <3> HIDE DEF n, h
    <3>5. /\ w \in Infos /\ w.participant = v.participant /\ w.energy = v.energy
          /\ w.isMixed = v.isMixed /\ w.halved = h /\ w.needMixCount = n
      BY <2>1, <3>2, <3>4 DEF Infos
    <3>6. Fades(w) BY <3>4, <3>5 DEF Fades
    <3>7. v.isMixed = TRUE BY <2>1, <3>1 DEF Infos
    <3> QED BY <3>1, <3>4, <3>5, <3>6, <3>7 DEF v, w
  <2>4. CASE ~Picked(s, i) /\ ~Fading(s, i)
    <3>1. w = v BY <2>4 DEF Weighted
    <3> QED BY <2>1, <2>4, <3>1
  <2> QED BY <2>2, <2>3, <2>4
<1> HIDE DEF W
<1>4. W \in [1 .. Len(s) -> Infos] BY <1>1, <1>2, <1>3
<1>5. W \in Seq(Infos) /\ Len(W) = Len(s) /\ DOMAIN W = DOMAIN s BY <1>1, <1>4, InfosSeq
<1> QED BY <1>3, <1>5 DEF W

-----------------------------------------------------------------------------
(* Frames *)

\* A list in another order has as many frames.
LEMMA ReorderingCounts ==
  ASSUME NEW s \in Seq(Infos), NEW t \in Seq(Infos), NEW pi, IsReordering(pi, s, t)
  PROVE  /\ Cardinality({i \in DOMAIN s : s[i].hasFrame})
              = Cardinality({i \in DOMAIN t : t[i].hasFrame})
         /\ Cardinality({i \in DOMAIN t : t[i].hasFrame}) \in Nat
<1> DEFINE A == {i \in DOMAIN s : s[i].hasFrame}
           B == {i \in DOMAIN t : t[i].hasFrame}
           f == [i \in A |-> pi[i]]
<1>1. DOMAIN s = DOMAIN t /\ \A i \in DOMAIN t : pi[i] \in DOMAIN t /\ s[i] = t[pi[i]]
  BY DEF IsReordering
<1>2. f \in [A -> B] BY <1>1
<1>3. \A i, j \in A : f[i] = f[j] => i = j BY <1>1 DEF IsReordering
<1>4. \A i \in B : \E n \in A : f[n] = i BY <1>1 DEF IsReordering
<1>5. IsFiniteSet(A)
  <2>1. IsFiniteSet(1 .. Len(s)) BY FS_Interval
  <2> HIDE DEF A
  <2>2. A \subseteq 1 .. Len(s) BY DEF A
  <2> QED BY <2>1, <2>2, FS_Subset
<1> HIDE DEF A, B, f
<1>6. f \in Bijection(A, B)
  BY <1>2, <1>3, <1>4 DEF Bijection, Injection, Surjection, IsInjective
<1>7. ExistsBijection(A, B) BY <1>6 DEF ExistsBijection
<1>8. Cardinality(B) = Cardinality(A) /\ IsFiniteSet(B) BY <1>5, <1>7, FS_Bijection
<1>9. Cardinality(B) \in Nat BY <1>8, FS_CardinalityType
<1> QED BY <1>8, <1>9 DEF A, B

LEMMA AskedForCounts ==
  ASSUME NEW f \in [made : Nat, pool : Nat], NEW a
  PROVE  LET g == AskedFor(f, a)
         IN  /\ g \in [made : Nat, pool : Nat]
             /\ g.made - g.pool = f.made - f.pool + (IF a = NoFrame THEN 0 ELSE 1)
             /\ g.made = f.made \/ (f.pool = 0 /\ g.made = f.made + 1)
<1> DEFINE e == PopAudioFrame(f)
<1>1. /\ e \in [made : Nat, pool : Nat]
      /\ e.made - e.pool = f.made - f.pool + 1
      /\ e.made = f.made \/ (f.pool = 0 /\ e.made = f.made + 1)
  BY DEF PopAudioFrame
<1> HIDE DEF e
<1>2. AskedFor(f, a) = IF a = NoFrame THEN [e EXCEPT !.pool = @ + 1] ELSE e
  BY DEF AskedFor, PushAudioFrame, e
<1> QED BY <1>1, <1>2

\* After everybody has been asked, the frames that are missing from the pool are those
\* of the participants that have one; frames are made only when all are in use.
LEMMA FramesAskedCount ==
  ASSUME TypeOK, pool = made, NEW answers
  PROVE  LET f == FramesAsked(answers)
             given == {i \in DOMAIN participants :
                          answers[participants[i].participant] # NoFrame}
         IN  /\ f.made \in Nat /\ f.pool \in Nat
             /\ Cardinality(given) \in Nat
             /\ f.made = f.pool + Cardinality(given)
             /\ f.made = made \/ f.made <= Len(participants)
             /\ f = [made |-> f.made, pool |-> f.pool]
<1> DEFINE N == Len(participants)
           S == [made : Nat, pool : Nat]
           base == [made |-> made, pool |-> pool]
           ans(i) == answers[participants[i].participant]
           Rec(f) == f = [i \in 0 .. N |-> IF i = 0 THEN base ELSE AskedFor(f[i - 1], ans(i))]
           frames == CHOOSE f : Rec(f)
           Given(i) == {j \in 1 .. i : ans(j) # NoFrame}
<1>1. N \in Nat /\ DOMAIN participants = 1 .. N /\ base \in S BY DEF TypeOK
<1>2. FramesAsked(answers) = frames[N] BY DEF FramesAsked
<1> HIDE DEF N, base, ans
<1>3. \E f : Rec(f)
  <2> DEFINE step == [i \in 1 .. N |-> [f \in S |-> AskedFor(f, ans(i))]]
  <2>1. step \in [1 .. N -> [S -> S]]
    <3>1. \A f \in S, i \in 1 .. N : AskedFor(f, ans(i)) \in S BY AskedForCounts
    <3> HIDE DEF S
    <3> QED BY <3>1
  <2>2. \A i \in 1 .. N : \A f \in S : step[i][f] = AskedFor(f, ans(i)) OBVIOUS
  <2> HIDE DEF step, S
  <2>3. PICK f \in [0 .. N -> S] : GoesBy(f, base, step, N)
    <3>1. N \in Nat /\ base \in S BY <1>1 DEF S
    <3> QED BY <2>1, <3>1, RecursionExists
  <2>4. \A i \in 1 .. N : f[i - 1] \in S BY <1>1, <2>3
  <2>5. \A i \in 1 .. N : f[i] = AskedFor(f[i - 1], ans(i)) BY <2>2, <2>3, <2>4 DEF GoesBy
  <2>6. \A i \in 0 .. N : f[i] = IF i = 0 THEN base ELSE AskedFor(f[i - 1], ans(i))
    BY <1>1, <2>3, <2>5 DEF GoesBy
  <2>7. Rec(f) BY <2>3, <2>6
  <2> QED BY <2>7
<1>4. Rec(frames)
  <2> HIDE DEF Rec
  <2> QED BY <1>3
<1> HIDE DEF frames
<1>5. frames[0] = base BY <1>1, <1>4
<1>6. \A i \in 1 .. N : frames[i] = AskedFor(frames[i - 1], ans(i)) BY <1>1, <1>4
<1> HIDE DEF Rec
<1>7. ASSUME NEW i \in Nat PROVE IsFiniteSet(Given(i)) /\ Cardinality(Given(i)) \in 0 .. i
  <2> DEFINE A == Given(i)
  <2>1. IsFiniteSet(1 .. i) /\ Cardinality(1 .. i) = i BY FS_Interval
  <2>2. A \in SUBSET (1 .. i) OBVIOUS
  <2> HIDE DEF A
  <2>3. IsFiniteSet(A) /\ Cardinality(A) <= i BY <2>1, <2>2, FS_Subset
  <2>4. Cardinality(A) \in Nat BY <2>3, FS_CardinalityType
  <2> QED BY <2>3, <2>4 DEF A
<1> DEFINE Counted(i) == /\ frames[i] \in S
                         /\ frames[i].made = frames[i].pool + Cardinality(Given(i))
                         /\ frames[i].made = made \/ frames[i].made <= i
           P == {i \in 0 .. N : Counted(i)}
<1>8. 0 \in P
  <2>1. Given(0) = {} OBVIOUS
  <2>2. Cardinality(Given(0)) = 0 BY <2>1, FS_EmptySet
  <2>3. frames[0].made = made /\ frames[0].pool = made /\ made \in Nat
    BY <1>5 DEF base, TypeOK
  <2>4. frames[0] \in S BY <1>1, <1>5
  <2> HIDE DEF Given, S
  <2> QED BY <1>1, <2>2, <2>3, <2>4
<1>9. ASSUME NEW i \in 1 .. N, i - 1 \in P PROVE i \in P
  <2> DEFINE f == frames[i - 1]
             g == frames[i]
             m == Cardinality(Given(i - 1))
             n == Cardinality(Given(i))
  <2>1. /\ f \in S /\ f.made = f.pool + m
        /\ f.made = made \/ f.made <= i - 1
    BY <1>9
  <2>2. g = AskedFor(f, ans(i)) BY <1>6
  <2>3. m \in Nat /\ m <= i - 1 /\ n \in Nat
    <3>1. i \in Nat /\ i - 1 \in Nat BY <1>1
    <3>2. m \in 0 .. i - 1 /\ n \in 0 .. i BY <1>7, <3>1
    <3> HIDE DEF m, n
    <3> QED BY <3>1, <3>2
  <2>4. n = m + (IF ans(i) = NoFrame THEN 0 ELSE 1)
    <3>1. CASE ans(i) = NoFrame
      <4>1. Given(i) = Given(i - 1) BY <1>1, <3>1
      <4> HIDE DEF Given
      <4> QED BY <2>3, <3>1, <4>1
    <3>2. CASE ans(i) # NoFrame
      <4>1. Given(i) = Given(i - 1) \cup {i} /\ i \notin Given(i - 1) BY <1>1, <3>2
      <4>2. i - 1 \in Nat BY <1>1
      <4> HIDE DEF Given
      <4>3. IsFiniteSet(Given(i - 1)) BY <1>7, <4>2
      <4>4. n = m + 1 BY <4>1, <4>3, FS_AddElement
      <4> QED BY <3>2, <4>4
    <3> QED BY <3>1, <3>2
  <2> HIDE DEF f, g, m, n
  <2>5. /\ g \in S
        /\ g.made - g.pool = f.made - f.pool + (IF ans(i) = NoFrame THEN 0 ELSE 1)
        /\ g.made = f.made \/ (f.pool = 0 /\ g.made = f.made + 1)
    BY <2>1, <2>2, AskedForCounts
  <2>6. f.made \in Nat /\ f.pool \in Nat /\ g.made \in Nat /\ g.pool \in Nat BY <2>1, <2>5
  <2>7. g.made = g.pool + n BY <2>1, <2>3, <2>4, <2>5, <2>6
  <2>8. g.made = made \/ g.made <= i BY <1>1, <2>1, <2>3, <2>5, <2>6
  <2> QED BY <1>1, <2>5, <2>7, <2>8 DEF g, n
<1>10. N \in P
  <2> HIDE DEF P
  <2>1. N \in 0 .. N BY <1>1
  <2> QED BY <1>1, <1>8, <1>9, <2>1, IntervalInduction
<1>11. {i \in DOMAIN participants : answers[participants[i].participant] # NoFrame} = Given(N)
  BY <1>1 DEF ans
<1>12. Cardinality(Given(N)) \in Nat
  <2> HIDE DEF Given
  <2> QED BY <1>1, <1>7
<1> QED BY <1>2, <1>10, <1>11, <1>12 DEF N

-----------------------------------------------------------------------------
(* GetMixerAudio *)

OnceEach(s) == \A i, j \in DOMAIN s : s[i].participant = s[j].participant => i = j

\* Who has been mixed, or has a sound, has a frame.
HaveFrames(s) == \A i \in DOMAIN s : s[i].isMixed \/ s[i].energy > 0 => s[i].hasFrame

AskedList(answers) ==
    [i \in DOMAIN participants |->
        Asked(participants[i], answers[participants[i].participant])]

Silence(s) == \A i \in DOMAIN s : ~s[i].hasFrame

\* Whoever is heard is in the list, as mixed and with the weight at which it is heard.
Remembered ==
    \A m \in mix : \E i \in DOMAIN participants :
        /\ participants[i].participant = m.participant
        /\ participants[i].isMixed
        /\ participants[i].halved = m.halved

MixerInv ==
    /\ TypeOK
    /\ FramesComeBack
    /\ \A i \in DOMAIN participants : Fades(participants[i])
    /\ Remembered

LEMMA LimitNat == TypeOK => limit \in Nat
BY MixerAssumption DEF TypeOK

LEMMA Mixing ==
  ASSUME NEW answers, GetMixerAudio(answers)
  PROVE  LET a == AskedList(answers)
             s == Ordered(a)
             f == FramesAsked(answers)
         IN  /\ participants' = IF Silence(a) THEN a ELSE Weighted(s)
             /\ mix' = IF Silence(a) THEN {} ELSE MixerList(s)
             /\ made' = f.made
             /\ pool' = IF Silence(a) THEN f.pool ELSE FramesReturned(f, s).pool
             /\ limit' = limit
BY DEF GetMixerAudio, AskedList, Silence

LEMMA AskedListTyped ==
  ASSUME MixerInv, NEW answers \in [Participants -> Answers]
  PROVE  LET a == AskedList(answers)
         IN  /\ a \in Seq(Infos)
             /\ Len(a) = Len(participants) /\ DOMAIN a = DOMAIN participants
             /\ OnceEach(a) /\ HaveFrames(a)
             /\ \A i \in DOMAIN a :
                   LET v == participants[i]
                   IN  /\ a[i].participant = v.participant
                       /\ Fades(a[i])
                       /\ a[i].hasFrame <=> answers[v.participant] # NoFrame
                       /\ a[i].hasFrame => a[i].isMixed = v.isMixed /\ a[i].halved = v.halved
<1> DEFINE a == AskedList(answers)
           N == Len(participants)
<1>1. N \in Nat /\ DOMAIN participants = 1 .. N /\ \A i \in 1 .. N : participants[i] \in Infos
  BY DEF MixerInv, TypeOK
<1> HIDE DEF N
<1>2. \A i \in 1 .. N : answers[participants[i].participant] \in Answers
  <2>1. \A v \in Infos : v.participant \in Participants BY DEF Infos
  <2> QED BY <1>1, <2>1
<1>3. \A i \in 1 .. N : a[i] = Asked(participants[i], answers[participants[i].participant])
  BY <1>1 DEF AskedList
<1>4. ASSUME NEW i \in 1 .. N
      PROVE  LET v == participants[i]
             IN  /\ a[i] \in Infos
                 /\ a[i].participant = v.participant
                 /\ Fades(a[i])
                 /\ a[i].energy > 0 => a[i].hasFrame
                 /\ a[i].isMixed => a[i].hasFrame
                 /\ a[i].hasFrame <=> answers[v.participant] # NoFrame
                 /\ a[i].hasFrame => a[i].isMixed = v.isMixed /\ a[i].halved = v.halved
  <2>1. Fades(participants[i]) BY <1>1 DEF MixerInv
  <2> QED BY <1>1, <1>2, <1>3, <2>1, AskedTyped
<1>5. a \in [1 .. N -> Infos] BY <1>1, <1>4 DEF AskedList
<1> HIDE DEF a
<1>6. a \in Seq(Infos) /\ Len(a) = N /\ DOMAIN a = 1 .. N BY <1>1, <1>5, InfosSeq
<1>7. OnceEach(a) BY <1>1, <1>4, <1>6 DEF OnceEach, MixerInv, TypeOK
<1>8. HaveFrames(a) BY <1>4, <1>6 DEF HaveFrames
<1> QED BY <1>1, <1>4, <1>6, <1>7, <1>8 DEF a, N

\* What is true of each participant of a list does not depend on their order.
LEMMA OrderedKeeps ==
  ASSUME NEW t \in Seq(Infos), limit \in Nat,
         OnceEach(t), HaveFrames(t), \A i \in DOMAIN t : Fades(t[i])
  PROVE  LET s == Ordered(t)
         IN  /\ s \in Seq(Infos) /\ Len(s) = Len(t)
             /\ OnceEach(s) /\ HaveFrames(s)
             /\ \A i \in DOMAIN s : Fades(s[i]) /\ \E k \in DOMAIN t : s[i] = t[k]
             /\ \A k \in DOMAIN t : \E i \in DOMAIN s : s[i] = t[k]
             /\ \E pi : IsReordering(pi, s, t)
<1> DEFINE s == Ordered(t)
<1>1. s \in Seq(Infos) /\ Len(s) = Len(t) BY OrderedReorders
<1>2. PICK pi : IsReordering(pi, s, t) BY OrderedReorders
<1> HIDE DEF s
<1>3. DOMAIN s = DOMAIN t /\ \A i \in DOMAIN t : pi[i] \in DOMAIN t /\ s[i] = t[pi[i]]
  BY <1>2 DEF IsReordering
<1>4. OnceEach(s)
  <2> SUFFICES ASSUME NEW i \in DOMAIN s, NEW j \in DOMAIN s,
                      s[i].participant = s[j].participant
               PROVE  i = j
    BY DEF OnceEach
  <2>1. pi[i] = pi[j] BY <1>3 DEF OnceEach
  <2> QED BY <1>2, <1>3, <2>1 DEF IsReordering
<1>5. HaveFrames(s) BY <1>3 DEF HaveFrames
<1>6. \A i \in DOMAIN s : Fades(s[i]) /\ \E k \in DOMAIN t : s[i] = t[k] BY <1>3
<1>7. \A k \in DOMAIN t : \E i \in DOMAIN s : s[i] = t[k] BY <1>2, <1>3 DEF IsReordering
<1> QED BY <1>1, <1>2, <1>4, <1>5, <1>6, <1>7 DEF s

\* Who is heard, of a list: somebody of the list that is picked or fades, with its frame.
LEMMA MixerListTyped ==
  ASSUME NEW s \in Seq(Infos), HaveFrames(s), \A i \in DOMAIN s : Fades(s[i])
  PROVE  \A m \in MixerList(s) :
            /\ m \in [participant : Participants, hasFrame : BOOLEAN, halved : 0 .. TailFrames]
            /\ m.hasFrame
            /\ \E i \in DOMAIN s :
                  /\ Picked(s, i) \/ Fading(s, i)
                  /\ m.participant = s[i].participant
                  /\ m.halved = Weighted(s)[i].halved
                  /\ Weighted(s)[i].isMixed
<1> SUFFICES ASSUME NEW i \in DOMAIN s, Picked(s, i) \/ Fading(s, i),
                    NEW m, m = [participant |-> Weighted(s)[i].participant,
                                hasFrame |-> s[i].hasFrame, halved |-> Weighted(s)[i].halved]
             PROVE  /\ m \in [participant : Participants, hasFrame : BOOLEAN,
                              halved : 0 .. TailFrames]
                    /\ m.hasFrame
                    /\ m.participant = s[i].participant
                    /\ m.halved = Weighted(s)[i].halved
                    /\ Weighted(s)[i].isMixed
  BY DEF MixerList
<1>1. /\ Weighted(s) \in Seq(Infos) /\ i \in DOMAIN Weighted(s)
      /\ Weighted(s)[i].participant = s[i].participant
      /\ Weighted(s)[i].isMixed
  BY WeightedTyped
<1> DEFINE w == Weighted(s)[i]
<1>2. w \in Infos /\ s[i] \in Infos BY <1>1
<1>3. s[i].hasFrame BY DEF HaveFrames, Picked, Fading
<1>4. w.participant = s[i].participant /\ w.isMixed BY <1>1
<1>5. m = [participant |-> w.participant, hasFrame |-> s[i].hasFrame, halved |-> w.halved]
  OBVIOUS
<1> HIDE DEF w
<1>6. w.participant \in Participants /\ w.halved \in 0 .. TailFrames /\ s[i].hasFrame \in BOOLEAN
  BY <1>2 DEF Infos
<1> QED BY <1>3, <1>4, <1>5, <1>6 DEF w

LEMMA PickedIsHeard ==
  ASSUME NEW s, NEW i \in DOMAIN s, Picked(s, i) \/ Fading(s, i)
  PROVE  \E m \in MixerList(s) : /\ m.participant = Weighted(s)[i].participant
                                 /\ m.halved = Weighted(s)[i].halved
<1> DEFINE m == [participant |-> Weighted(s)[i].participant, hasFrame |-> s[i].hasFrame,
                 halved |-> Weighted(s)[i].halved]
<1>1. m \in MixerList(s) BY DEF MixerList
<1> QED BY <1>1

\* No more frames are made than there are participants.
LEMMA ParticipantsBound ==
  ASSUME TypeOK
  PROVE  Len(participants) <= Cardinality(Participants) /\ Cardinality(Participants) \in Nat
<1> DEFINE N == Len(participants)
           f == [i \in 1 .. N |-> participants[i].participant]
<1>1. N \in Nat /\ DOMAIN participants = 1 .. N /\ \A i \in 1 .. N : participants[i] \in Infos
  BY DEF TypeOK
<1>2. f \in [1 .. N -> Participants]
  <2>1. \A v \in Infos : v.participant \in Participants BY DEF Infos
  <2> QED BY <1>1, <2>1
<1>3. f \in Injection(1 .. N, Participants)
  BY <1>1, <1>2 DEF Injection, IsInjective, TypeOK
<1> HIDE DEF N, f
<1>4. IsFiniteSet(Participants) BY MixerAssumption
<1>5. Cardinality(1 .. N) <= Cardinality(Participants) BY <1>3, <1>4, FS_Injection
<1>6. Cardinality(1 .. N) = N BY <1>1, FS_Interval
<1> QED BY <1>4, <1>5, <1>6, FS_CardinalityType DEF N

\* The frames are all in the pool again when the mixing is over, on every way out.
LEMMA MixingFrames ==
  ASSUME MixerInv, NEW answers \in [Participants -> Answers], GetMixerAudio(answers)
  PROVE  made' \in 0 .. Cardinality(Participants) /\ pool' = made'
<1> DEFINE a == AskedList(answers)
           s == Ordered(a)
           f == FramesAsked(answers)
           given == {i \in DOMAIN participants : answers[participants[i].participant] # NoFrame}
           G == Cardinality(given)
<1>1. /\ f.made \in Nat /\ f.pool \in Nat /\ G \in Nat
      /\ f.made = f.pool + G
      /\ f.made = made \/ f.made <= Len(participants)
      /\ f = [made |-> f.made, pool |-> f.pool]
  BY FramesAskedCount DEF MixerInv, FramesComeBack
<1>2. /\ made' = f.made
      /\ pool' = IF Silence(a) THEN f.pool ELSE FramesReturned(f, s).pool
  BY Mixing
<1>3. /\ a \in Seq(Infos) /\ DOMAIN a = DOMAIN participants
      /\ \A i \in DOMAIN a : a[i].hasFrame <=> answers[participants[i].participant] # NoFrame
  BY AskedListTyped
<1>4. s \in Seq(Infos) /\ \E pi : IsReordering(pi, s, a)
  BY <1>3, LimitNat, OrderedReorders DEF MixerInv
<1>5. given = {i \in DOMAIN a : a[i].hasFrame} BY <1>3
<1> HIDE DEF a, s, f
<1>6. Cardinality({i \in DOMAIN s : s[i].hasFrame}) = G BY <1>3, <1>4, <1>5, ReorderingCounts
<1>7. Silence(a) => G = 0
  <2>1. Silence(a) => given = {} BY <1>5 DEF Silence
  <2> QED BY <2>1, FS_EmptySet
<1> HIDE DEF G
<1>8. FramesReturned(f, s).pool = f.pool + G
  <2> DEFINE n == Cardinality({i \in DOMAIN s : s[i].hasFrame})
  <2>1. FramesReturned(f, s) = [f EXCEPT !.pool = @ + n] BY DEF FramesReturned
  <2>2. n = G BY <1>6
  <2> HIDE DEF n
  <2> QED BY <1>1, <2>1, <2>2
<1>9. pool' = made' BY <1>1, <1>2, <1>7, <1>8
<1>10. f.made <= Cardinality(Participants)
  <2>1. made \in 0 .. Cardinality(Participants) BY DEF MixerInv, TypeOK
  <2>2. Len(participants) <= Cardinality(Participants) /\ Cardinality(Participants) \in Nat
        /\ Len(participants) \in Nat
    BY ParticipantsBound DEF MixerInv, TypeOK
  <2> QED BY <1>1, <2>1, <2>2
<1>11. Cardinality(Participants) \in Nat BY ParticipantsBound DEF MixerInv
<1> QED BY <1>1, <1>2, <1>9, <1>10, <1>11

\* Who was heard and sends a sound is heard again, faded by one step at most.
CutsNobodyOff ==
    \A m \in mix : \A i \in DOMAIN participants' :
        LET v == participants'[i]
        IN  v.participant = m.participant /\ v.energy > 0 =>
                \E n \in mix' : /\ n.participant = m.participant
                                /\ n.halved <= m.halved + 1

LEMMA MixingStep ==
  ASSUME MixerInv, NEW answers \in [Participants -> Answers], GetMixerAudio(answers)
  PROVE  MixerInv' /\ NoNullFrame' /\ LoudestHeard' /\ CutsNobodyOff
<1> DEFINE a == AskedList(answers)
           s == Ordered(a)
           W == Weighted(s)
<1>1. /\ a \in Seq(Infos) /\ DOMAIN a = DOMAIN participants
      /\ OnceEach(a) /\ HaveFrames(a)
      /\ \A i \in DOMAIN a : /\ a[i].participant = participants[i].participant
                             /\ Fades(a[i])
                             /\ a[i].hasFrame => /\ a[i].isMixed = participants[i].isMixed
                                                 /\ a[i].halved = participants[i].halved
  BY AskedListTyped
<1>2. limit \in Nat BY LimitNat DEF MixerInv
<1>3. /\ participants' = IF Silence(a) THEN a ELSE W
      /\ mix' = IF Silence(a) THEN {} ELSE MixerList(s)
      /\ limit' = limit
  BY Mixing
<1>4. made' \in 0 .. Cardinality(Participants) /\ pool' = made' BY MixingFrames
<1>5. pool' \in Nat
  <2>1. Cardinality(Participants) \in Nat BY ParticipantsBound DEF MixerInv
  <2> QED BY <1>4, <2>1
<1> HIDE DEF a
<1>6. CASE Silence(a)
  <2>1. participants' = a /\ mix' = {} BY <1>3, <1>6
  <2>2. TypeOK' BY <1>1, <1>3, <1>4, <1>5, <2>1 DEF MixerInv, TypeOK, OnceEach
  <2>3. MixerInv' BY <1>1, <1>4, <2>1, <2>2 DEF MixerInv, FramesComeBack, Remembered
  <2>4. NoNullFrame' /\ LoudestHeard'
    BY <2>1 DEF NoNullFrame, LoudestHeard, HeardFully
  <2>5. CutsNobodyOff
    <3>1. \A i \in DOMAIN a : ~(a[i].energy > 0) BY <1>1, <1>6 DEF HaveFrames, Silence
    <3> QED BY <2>1, <3>1 DEF CutsNobodyOff
  <2> QED BY <2>3, <2>4, <2>5
<1>7. CASE ~Silence(a)
  <2>1. participants' = W /\ mix' = MixerList(s) BY <1>3, <1>7
  <2>2. /\ s \in Seq(Infos) /\ OnceEach(s) /\ HaveFrames(s)
        /\ \A i \in DOMAIN s : Fades(s[i]) /\ \E k \in DOMAIN a : s[i] = a[k]
        /\ \A k \in DOMAIN a : \E i \in DOMAIN s : s[i] = a[k]
    BY <1>1, <1>2, OrderedKeeps
  <2>3. /\ W \in Seq(Infos) /\ DOMAIN W = DOMAIN s
        /\ \A i \in DOMAIN s :
              /\ W[i].participant = s[i].participant
              /\ W[i].energy = s[i].energy
              /\ Fades(W[i])
              /\ Picked(s, i) => W[i].isMixed /\ W[i].halved = 0
              /\ Fading(s, i) => /\ W[i].isMixed /\ W[i].halved > 0
                                 /\ W[i].halved <= s[i].halved + 1
    BY <2>2, WeightedTyped
  <2>4. \A m \in MixerList(s) :
            /\ m \in [participant : Participants, hasFrame : BOOLEAN, halved : 0 .. TailFrames]
            /\ m.hasFrame
            /\ \E i \in DOMAIN s :
                  /\ Picked(s, i) \/ Fading(s, i)
                  /\ m.participant = s[i].participant
                  /\ m.halved = W[i].halved
                  /\ W[i].isMixed
    BY <2>2, MixerListTyped
  <2>5. \A i \in DOMAIN s : Picked(s, i) \/ Fading(s, i) =>
           \E m \in MixerList(s) : m.participant = W[i].participant /\ m.halved = W[i].halved
    BY PickedIsHeard
  <2>6. ASSUME NEW i \in DOMAIN s, NEW j \in DOMAIN s,
               Within(s, i), s[j].energy > s[i].energy
        PROVE  Picked(s, j)
    BY <1>1, <1>2, <2>6, LouderIsPicked
  <2> HIDE DEF s, W
  <2>7. TypeOK'
    <3>1. \A i, j \in DOMAIN W : W[i].participant = W[j].participant => i = j
      BY <2>2, <2>3 DEF OnceEach
    <3>2. MixerList(s) \in
             SUBSET [participant : Participants, hasFrame : BOOLEAN, halved : 0 .. TailFrames]
      BY <2>4
    <3> QED BY <1>3, <1>4, <1>5, <2>1, <2>3, <3>1, <3>2 DEF MixerInv, TypeOK
  <2>8. MixerInv'
    <3>1. Remembered' BY <2>1, <2>3, <2>4 DEF Remembered
    <3> QED BY <1>4, <2>1, <2>3, <2>7, <3>1 DEF MixerInv, FramesComeBack
  <2>9. NoNullFrame' BY <2>1, <2>4 DEF NoNullFrame
  <2>10. LoudestHeard'
    <3> SUFFICES ASSUME NEW m \in mix', m.halved = 0,
                        NEW i \in DOMAIN W, NEW j \in DOMAIN W,
                        W[i].participant = m.participant, W[j].energy > W[i].energy
                 PROVE  \E n \in mix' : n.participant = W[j].participant /\ n.halved = 0
      BY <2>1 DEF LoudestHeard, HeardFully, Energy
    <3>1. PICK k \in DOMAIN s : /\ Picked(s, k) \/ Fading(s, k)
                                /\ m.participant = s[k].participant /\ m.halved = W[k].halved
      BY <2>1, <2>4
    <3>2. k = i BY <2>2, <2>3, <3>1 DEF OnceEach
    <3>3. Picked(s, i) BY <2>3, <3>1, <3>2
    <3>4. Picked(s, j) BY <2>3, <2>6, <3>3 DEF Picked
    <3> QED BY <2>1, <2>3, <2>5, <3>4
  <2>11. CutsNobodyOff
    <3> SUFFICES ASSUME NEW m \in mix, NEW i \in DOMAIN s,
                        s[i].participant = m.participant, s[i].energy > 0
                 PROVE  \E n \in mix' : /\ n.participant = m.participant
                                        /\ n.halved <= m.halved + 1
      BY <2>1, <2>3 DEF CutsNobodyOff
    <3>1. PICK k \in DOMAIN a : s[i] = a[k] BY <2>2
    <3>2. PICK l \in DOMAIN participants :
             /\ participants[l].participant = m.participant
             /\ participants[l].isMixed /\ participants[l].halved = m.halved
      BY DEF MixerInv, Remembered
    <3>3. k = l BY <1>1, <3>1, <3>2 DEF OnceEach
    <3>4. s[i].hasFrame BY <2>2 DEF HaveFrames
    <3>5. s[i].isMixed /\ s[i].halved = m.halved BY <1>1, <3>1, <3>2, <3>3, <3>4
    <3>6. m.halved \in Nat /\ s[i].halved \in Nat
      <4>1. m.halved \in 0 .. TailFrames BY DEF MixerInv, TypeOK
      <4> QED BY <3>5, <4>1, MixerAssumption
    <3>7. Picked(s, i) \/ Fading(s, i) BY <3>5 DEF Picked, Fading
    <3>8. W[i].halved <= m.halved + 1 BY <2>3, <3>5, <3>6, <3>7
    <3> QED BY <2>1, <2>3, <2>5, <3>7, <3>8
  <2> QED BY <2>8, <2>9, <2>10, <2>11
<1> QED BY <1>6, <1>7

-----------------------------------------------------------------------------
(* Participants that come and go *)

LEMMA AddStep ==
  ASSUME MixerInv, LoudestHeard, NEW p \in Participants, AddParticipant(p)
  PROVE  MixerInv' /\ LoudestHeard' /\ CutsNobodyOff
<1> DEFINE new == [participant |-> p, isMixed |-> FALSE, needMixCount |-> 0, halved |-> 0,
                   energy |-> 0, hasFrame |-> FALSE]
           N == Len(participants)
<1>1. /\ N \in Nat /\ DOMAIN participants = 1 .. N
      /\ participants \in Seq(Infos) /\ \A i \in 1 .. N : participants[i] \in Infos
  BY DEF MixerInv, TypeOK
<1>2. /\ new \in Infos /\ Fades(new) /\ new.participant = p /\ new.energy = 0
  BY MixerAssumption DEF Infos, Fades
<1>3. /\ participants' = Append(participants, new) /\ \A i \in 1 .. N : participants[i].participant # p
      /\ UNCHANGED <<limit, made, pool, mix>>
  BY <1>1 DEF AddParticipant, Listed
<1> HIDE DEF new, N
<1>4. /\ participants' \in Seq(Infos) /\ DOMAIN participants' = 1 .. N + 1
      /\ \A i \in 1 .. N : participants'[i] = participants[i]
      /\ participants'[N + 1] = new
  BY <1>1, <1>2, <1>3 DEF N
<1>5. \A i \in 1 .. N + 1 : i \in 1 .. N \/ i = N + 1 BY <1>1
<1>6. \A i \in 1 .. N : i \in 1 .. N + 1 BY <1>1
<1>7. OnceEach(participants')
  <2>1. \A i, j \in 1 .. N : participants[i].participant = participants[j].participant => i = j
    BY <1>1 DEF MixerInv, TypeOK
  <2> SUFFICES ASSUME NEW i \in 1 .. N + 1, NEW j \in 1 .. N + 1,
                      participants'[i].participant = participants'[j].participant
               PROVE  i = j
    BY <1>4 DEF OnceEach
  <2>2. CASE i \in 1 .. N /\ j \in 1 .. N BY <1>4, <2>1, <2>2
  <2>3. CASE i \in 1 .. N /\ j = N + 1 BY <1>2, <1>3, <1>4, <2>3
  <2>4. CASE i = N + 1 /\ j \in 1 .. N BY <1>2, <1>3, <1>4, <2>4
  <2> QED BY <1>5, <2>2, <2>3, <2>4
<1>8. TypeOK' BY <1>3, <1>4, <1>7 DEF MixerInv, TypeOK, OnceEach
<1>9. Remembered' BY <1>1, <1>3, <1>4, <1>6 DEF MixerInv, Remembered
<1>10. \A i \in DOMAIN participants' : Fades(participants'[i])
  BY <1>1, <1>2, <1>4, <1>5 DEF MixerInv
<1>11. MixerInv' BY <1>3, <1>8, <1>9, <1>10 DEF MixerInv, FramesComeBack
<1>12. LoudestHeard'
  <2> SUFFICES ASSUME NEW m \in mix, m.halved = 0,
                      NEW i \in 1 .. N + 1, NEW j \in 1 .. N + 1,
                      participants'[i].participant = m.participant,
                      participants'[j].energy > participants'[i].energy
               PROVE  \E n \in mix : n.participant = participants'[j].participant /\ n.halved = 0
    <3>1. mix' = mix /\ DOMAIN participants' = 1 .. N + 1 BY <1>3, <1>4
    <3> QED BY <3>1 DEF LoudestHeard, HeardFully, Energy
  <2>1. PICK k \in 1 .. N : participants[k].participant = m.participant
    BY <1>1 DEF MixerInv, Remembered
  <2>2. i \in 1 .. N BY <1>2, <1>3, <1>4, <1>5, <2>1
  <2>3. participants'[i].energy \in Nat
    <3>1. \A v \in Infos : v.energy \in Energies BY DEF Infos
    <3> QED BY <1>1, <1>4, <2>2, <3>1, MixerAssumption
  <2>4. j \in 1 .. N BY <1>2, <1>4, <1>5, <2>3
  <2>5. m.participant \in Participants /\ participants[j].participant \in Participants
    <3>1. \A v \in Infos : v.participant \in Participants BY DEF Infos
    <3> QED BY <1>1, <2>1, <2>4, <3>1
  <2>6. /\ i \in DOMAIN participants /\ j \in DOMAIN participants
        /\ participants[i].participant = m.participant
        /\ participants[j].energy > participants[i].energy
    BY <1>1, <1>4, <2>2, <2>4
  <2>7. \E n \in mix : n.participant = participants[j].participant /\ n.halved = 0
    BY <2>5, <2>6 DEF LoudestHeard, HeardFully, Energy
  <2> QED BY <1>4, <2>4, <2>7
<1>13. CutsNobodyOff
  <2>1. \A m \in mix : m.halved \in Nat
    <3>1. TailFrames \in Nat BY MixerAssumption
    <3> QED BY <3>1 DEF MixerInv, TypeOK
  <2> QED BY <1>3, <2>1 DEF CutsNobodyOff
<1> QED BY <1>11, <1>12, <1>13

LEMMA RemoveStep ==
  ASSUME MixerInv, LoudestHeard, NEW p \in Participants, RemoveParticipant(p)
  PROVE  MixerInv' /\ LoudestHeard' /\ CutsNobodyOff
<1> DEFINE N == Len(participants)
<1>1. N \in Nat /\ DOMAIN participants = 1 .. N /\ participants \in [1 .. N -> Infos]
  BY DEF MixerInv, TypeOK
<1>2. PICK k \in DOMAIN participants :
         /\ participants[k].participant = p
         /\ participants' = [j \in 1 .. N - 1 |-> participants[IF j < k THEN j ELSE j + 1]]
  BY DEF RemoveParticipant
<1>3. mix' = {m \in mix : m.participant # p} /\ UNCHANGED <<limit, made, pool>>
  BY DEF RemoveParticipant
<1> HIDE DEF N
<1> DEFINE from(j) == IF j < k THEN j ELSE j + 1
<1>4. k \in 1 .. N /\ N - 1 \in Nat BY <1>1, <1>2
<1>5. /\ \A j \in 1 .. N - 1 : from(j) \in 1 .. N /\ from(j) # k
      /\ \A i, j \in 1 .. N - 1 : from(i) = from(j) => i = j
      /\ \A i \in 1 .. N : i = k \/ \E j \in 1 .. N - 1 : from(j) = i
  <2>1. \A i \in 1 .. N : i < k => i \in 1 .. N - 1 /\ from(i) = i BY <1>1, <1>4
  <2>2. \A i \in 1 .. N : i > k => i - 1 \in 1 .. N - 1 /\ from(i - 1) = i BY <1>1, <1>4
  <2>3. \A i \in 1 .. N : i < k \/ i = k \/ i > k BY <1>1, <1>4
  <2>4. \A i \in 1 .. N : i = k \/ \E j \in 1 .. N - 1 : from(j) = i BY <2>1, <2>2, <2>3
  <2> QED BY <1>1, <1>4, <2>4
<1>6. \A j \in 1 .. N - 1 : participants'[j] = participants[from(j)] BY <1>2
<1> HIDE DEF from
<1>7. participants' \in [1 .. N - 1 -> Infos]
  BY <1>1, <1>2, <1>5, <1>6
<1>8. participants' \in Seq(Infos) /\ DOMAIN participants' = 1 .. N - 1 BY <1>4, <1>7, InfosSeq
<1>9. \A i, j \in 1 .. N : participants[i].participant = participants[j].participant => i = j
  BY <1>1 DEF MixerInv, TypeOK
<1>10. OnceEach(participants') BY <1>5, <1>6, <1>8, <1>9 DEF OnceEach
<1>11. TypeOK' BY <1>3, <1>8, <1>10 DEF MixerInv, TypeOK, OnceEach
<1>12. Remembered'
  <2> SUFFICES ASSUME NEW m \in mix, m.participant # p
               PROVE  \E i \in 1 .. N - 1 : /\ participants'[i].participant = m.participant
                                            /\ participants'[i].isMixed
                                            /\ participants'[i].halved = m.halved
    BY <1>3, <1>8 DEF Remembered
  <2>1. PICK i \in 1 .. N : /\ participants[i].participant = m.participant
                            /\ participants[i].isMixed /\ participants[i].halved = m.halved
    BY <1>1 DEF MixerInv, Remembered
  <2>2. i # k BY <1>2, <2>1
  <2>3. PICK j \in 1 .. N - 1 : from(j) = i BY <1>5, <2>2
  <2> QED BY <1>6, <2>1, <2>3
<1>13. \A i \in DOMAIN participants' : Fades(participants'[i])
  BY <1>1, <1>5, <1>6, <1>8 DEF MixerInv
<1>14. MixerInv' BY <1>3, <1>11, <1>12, <1>13 DEF MixerInv, FramesComeBack
<1>15. \A j \in 1 .. N - 1 : participants'[j].participant # p
  BY <1>2, <1>4, <1>5, <1>6, <1>9
<1>16. LoudestHeard'
  <2> SUFFICES ASSUME NEW m \in mix, m.participant # p, m.halved = 0,
                      NEW i \in 1 .. N - 1, NEW j \in 1 .. N - 1,
                      participants'[i].participant = m.participant,
                      participants'[j].energy > participants'[i].energy
               PROVE  \E n \in mix : /\ n.participant # p
                                     /\ n.participant = participants'[j].participant /\ n.halved = 0
    BY <1>3, <1>8 DEF LoudestHeard, HeardFully, Energy
  <2>1. participants[from(i)].participant \in Participants
        /\ participants[from(j)].participant \in Participants
    <3>1. \A v \in Infos : v.participant \in Participants BY DEF Infos
    <3> QED BY <1>1, <1>5, <3>1
  <2>2. /\ from(i) \in DOMAIN participants /\ from(j) \in DOMAIN participants
        /\ participants[from(i)].participant = m.participant
        /\ participants[from(j)].energy > participants[from(i)].energy
    BY <1>1, <1>5, <1>6
  <2>3. \E n \in mix : n.participant = participants[from(j)].participant /\ n.halved = 0
    BY <2>1, <2>2 DEF LoudestHeard, HeardFully, Energy
  <2> QED BY <1>6, <1>15, <2>3
<1>17. CutsNobodyOff
  <2>1. \A m \in mix : m.halved \in Nat
    <3>1. TailFrames \in Nat BY MixerAssumption
    <3> QED BY <3>1 DEF MixerInv, TypeOK
  <2> QED BY <1>3, <1>8, <1>15, <2>1 DEF CutsNobodyOff
<1> QED BY <1>14, <1>16, <1>17

-----------------------------------------------------------------------------

LEMMA MixerInit == Init => MixerInv /\ NoNullFrame /\ LoudestHeard
<1> SUFFICES ASSUME Init PROVE MixerInv /\ NoNullFrame /\ LoudestHeard
  OBVIOUS
<1>1. Cardinality(Participants) \in Nat BY MixerAssumption, FS_CardinalityType
<1>2. /\ participants = <<>> /\ participants \in Seq(Infos) /\ DOMAIN participants = {}
      /\ mix = {} /\ limit = 3 /\ made = 0 /\ pool = 0
  BY DEF Init
<1>3. TypeOK BY <1>1, <1>2, MixerAssumption DEF TypeOK
<1> QED BY <1>2, <1>3
        DEF MixerInv, FramesComeBack, Remembered, NoNullFrame, LoudestHeard, HeardFully

LEMMA MixerStep ==
  ASSUME MixerInv, NoNullFrame, LoudestHeard, [Next]_vars
  PROVE  MixerInv' /\ NoNullFrame' /\ LoudestHeard' /\ CutsNobodyOff
<1>1. ASSUME NEW p \in Participants, AddParticipant(p)
      PROVE  MixerInv' /\ NoNullFrame' /\ LoudestHeard' /\ CutsNobodyOff
  <2>1. NoNullFrame' BY <1>1 DEF AddParticipant, NoNullFrame
  <2> QED BY <1>1, <2>1, AddStep
<1>2. ASSUME NEW p \in Participants, RemoveParticipant(p)
      PROVE  MixerInv' /\ NoNullFrame' /\ LoudestHeard' /\ CutsNobodyOff
  <2>1. NoNullFrame' BY <1>2 DEF RemoveParticipant, NoNullFrame
  <2> QED BY <1>2, <2>1, RemoveStep
<1>3. ASSUME UNCHANGED <<participants, made, pool, mix>>, limit' \in Limits
      PROVE  MixerInv' /\ NoNullFrame' /\ LoudestHeard' /\ CutsNobodyOff
  <2>1. MixerInv' BY <1>3 DEF MixerInv, TypeOK, FramesComeBack, Remembered
  <2>2. NoNullFrame' /\ LoudestHeard'
    BY <1>3 DEF NoNullFrame, LoudestHeard, HeardFully, Energy
  <2>3. \A m \in mix : m.halved \in Nat
    <3>1. TailFrames \in Nat BY MixerAssumption
    <3> QED BY <3>1 DEF MixerInv, TypeOK
  <2>4. CutsNobodyOff BY <1>3, <2>3 DEF CutsNobodyOff
  <2> QED BY <2>1, <2>2, <2>4
<1>4. ASSUME NEW count \in Limits, LimitParticipantCount(count)
      PROVE  MixerInv' /\ NoNullFrame' /\ LoudestHeard' /\ CutsNobodyOff
  BY <1>3, <1>4 DEF LimitParticipantCount
<1>5. ASSUME NEW answers \in [Participants -> Answers], GetMixerAudio(answers)
      PROVE  MixerInv' /\ NoNullFrame' /\ LoudestHeard' /\ CutsNobodyOff
  BY <1>5, MixingStep
<1>6. CASE UNCHANGED vars
  <2>1. limit \in Limits BY DEF MixerInv, TypeOK
  <2> QED BY <1>3, <1>6, <2>1 DEF vars
<1> QED BY <1>1, <1>2, <1>4, <1>5, <1>6 DEF Next, Answers

\* The inductive invariant: the types, every frame back in its pool, every weight in
\* step with its tail, and whoever is heard remembered in the list as it is heard;
\* with it that nobody is mixed without a frame and that the loudest are heard.
THEOREM MixerInvariant == Spec => [](MixerInv /\ NoNullFrame /\ LoudestHeard)
<1>1. MixerInv /\ NoNullFrame /\ LoudestHeard /\ [Next]_vars
        => (MixerInv /\ NoNullFrame /\ LoudestHeard)'
  BY MixerStep
<1> QED BY <1>1, MixerInit, PTL DEF Spec

\* The list has each participant once, and no more frames are ever made than there
\* are participants, for any number of them.
THEOREM MixerTypes == Spec => []TypeOK
<1>1. MixerInv => TypeOK BY DEF MixerInv
<1> QED BY <1>1, MixerInvariant, PTL

\* Between the calls every frame that was ever made is in the pool.
THEOREM PoolComplete == Spec => []FramesComeBack
<1>1. MixerInv => FramesComeBack BY DEF MixerInv
<1> QED BY <1>1, MixerInvariant, PTL

\* Nobody is mixed without a frame, neither for its energy nor for having been mixed.
THEOREM FramesForAll == Spec => []NoNullFrame
BY MixerInvariant, PTL

\* A participant at full weight has nobody louder beside it who is not, for every limit,
\* every number of participants and every order in which they come, go and sound.
THEOREM LoudestFirst == Spec => []LoudestHeard
BY MixerInvariant, PTL

\* Who is heard and goes on sending a sound is never dropped: its weight is halved
\* once at most from one frame to the next.
THEOREM FadedNotCut == Spec => NobodyCutOff
<1>1. MixerInv /\ NoNullFrame /\ LoudestHeard /\ [Next]_vars => [CutsNobodyOff]_vars
  BY MixerStep
<1> QED BY <1>1, MixerInvariant, PTL DEF Spec, NobodyCutOff, CutsNobodyOff
=============================================================================

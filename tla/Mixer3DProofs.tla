---------------------------- MODULE Mixer3DProofs ----------------------------
(***************************************************************************)
(* Proof that the two circular buffers of the 3D mixer are one bounded     *)
(* queue, for every size of a block and all sizes of the chunks.           *)
(*                                                                         *)
(* The first part is about one buffer: what write and read do to what it   *)
(* holds, wherever its indices are.  The second part is about the rests of *)
(* blocks: less than a block stays in the first buffer, and less than the  *)
(* last chunk in the second.                                               *)
(***************************************************************************)
EXTENDS Mixer3D, SequenceTheorems, TLAPS

\* The index n places on from index, and how many places p is on from index.
On(cap, index, n) == IF n < cap - index THEN index + n ELSE n - (cap - index)
Places(cap, index, p) == IF p >= index THEN p - index ELSE p + (cap - index)

\* The end index is where size places on from the begin index leads to.
Sound(b, cap, S) ==
  b \in Buffers(cap, S) /\ b.endIndex = On(cap, b.begIndex, b.size)

\* What a buffer holds, from the oldest sample on.
Contents(b) == ReadData(b, b.size)

-----------------------------------------------------------------------------
(* Indices *)

LEMMA OnInside ==
  ASSUME NEW cap \in Nat \ {0}, NEW beg \in 0 .. cap - 1, NEW n \in 0 .. cap
  PROVE  On(cap, beg, n) \in 0 .. cap - 1
BY DEF On

LEMMA OnAndOn ==
  ASSUME NEW cap \in Nat \ {0}, NEW beg \in 0 .. cap - 1,
         NEW m \in Nat, NEW n \in Nat, m + n <= cap
  PROVE  On(cap, On(cap, beg, m), n) = On(cap, beg, m + n)
BY DEF On

\* The places that hold samples are none of the next n that are free.
LEMMA HeldPlaces ==
  ASSUME NEW cap \in Nat \ {0}, NEW beg \in 0 .. cap - 1, NEW size \in Nat,
         NEW n \in Nat, size + n <= cap, NEW i \in 1 .. size
  PROVE  Places(cap, On(cap, beg, size), On(cap, beg, i - 1)) >= n
BY DEF On, Places

LEMMA FreePlaces ==
  ASSUME NEW cap \in Nat \ {0}, NEW beg \in 0 .. cap - 1, NEW size \in Nat,
         NEW n \in Nat, size + n <= cap, NEW i \in 1 .. n
  PROVE  Places(cap, On(cap, beg, size), On(cap, beg, size + i - 1)) = i - 1
BY DEF On, Places

-----------------------------------------------------------------------------
(* One circular buffer *)

LEMMA SoundFields ==
  ASSUME NEW cap \in Nat \ {0}, NEW S, NEW b, Sound(b, cap, S)
  PROVE  /\ b \in Buffers(cap, S)
         /\ b.cap = cap /\ b.size \in 0 .. cap
         /\ b.begIndex \in 0 .. cap - 1 /\ b.endIndex \in 0 .. cap - 1
         /\ b.data \in [0 .. cap - 1 -> S]
BY DEF Sound, Buffers

LEMMA AdvanceIsOn ==
  ASSUME NEW cap \in Nat \ {0}, NEW S, NEW b, Sound(b, cap, S),
         NEW index \in 0 .. cap - 1, NEW n \in 0 .. cap
  PROVE  Advance(b, index, n) = On(cap, index, n)
<1>1. b.cap = cap BY SoundFields
<1> QED BY <1>1 DEF Advance, On

LEMMA ContentsAt ==
  ASSUME NEW cap \in Nat \ {0}, NEW S, NEW b, Sound(b, cap, S), NEW n \in 0 .. b.size
  PROVE  /\ ReadData(b, n) \in Seq(S)
         /\ Len(ReadData(b, n)) = n
         /\ \A i \in 1 .. n : ReadData(b, n)[i] = b.data[On(cap, b.begIndex, i - 1)]
<1> DEFINE at(i) == b.data[On(cap, b.begIndex, i - 1)]
<1>1. /\ b.cap = cap /\ b.size \in 0 .. cap /\ n \in 0 .. cap
      /\ b.begIndex \in 0 .. cap - 1 /\ b.data \in [0 .. cap - 1 -> S]
  BY SoundFields
<1>2. ReadCount(b, n) = n BY <1>1 DEF ReadCount
<1>3. ASSUME NEW i \in 1 .. n
      PROVE  /\ at(i) \in S
             /\ at(i) = (IF i <= b.cap - b.begIndex
                         THEN b.data[b.begIndex + i - 1]
                         ELSE b.data[i - 1 - (b.cap - b.begIndex)])
  <2>0. i - 1 \in 0 .. cap BY <1>1
  <2>1. On(cap, b.begIndex, i - 1) \in 0 .. cap - 1 BY <1>1, <2>0, OnInside
  <2>2. On(cap, b.begIndex, i - 1) = (IF i <= b.cap - b.begIndex
                                      THEN b.begIndex + i - 1
                                      ELSE i - 1 - (b.cap - b.begIndex))
    BY <1>1 DEF On
  <2> QED BY <1>1, <2>1, <2>2
<1>4. ReadData(b, n) = [i \in 1 .. n |-> at(i)] BY <1>2, <1>3 DEF ReadData
<1>5. n \in Nat BY <1>1
<1> HIDE DEF at
<1> QED BY <1>3, <1>4, <1>5 DEF at

LEMMA CopiedAt ==
  ASSUME NEW cap \in Nat \ {0}, NEW S, NEW b, Sound(b, cap, S),
         NEW s \in Seq(S), Len(s) <= cap
  PROVE  /\ Copied(b, s, Len(s)) \in [0 .. cap - 1 -> S]
         /\ \A p \in 0 .. cap - 1 :
              LET o == Places(cap, b.endIndex, p)
              IN  Copied(b, s, Len(s))[p] = IF o < Len(s) THEN s[o + 1] ELSE b.data[p]
<1>1. /\ b.cap = cap /\ b.endIndex \in 0 .. cap - 1 /\ b.data \in [0 .. cap - 1 -> S]
  BY SoundFields
<1> DEFINE o(p) == Places(cap, b.endIndex, p)
           c(p) == IF o(p) < Len(s) THEN s[o(p) + 1] ELSE b.data[p]
<1>2. ASSUME NEW p \in 0 .. cap - 1 PROVE o(p) \in Nat
  BY <1>1 DEF Places
<1>3. ASSUME NEW p \in 0 .. cap - 1 PROVE c(p) \in S
  BY <1>1, <1>2
<1>4. ASSUME NEW p \in 0 .. cap - 1
      PROVE  c(p) = CASE p >= b.endIndex /\ p - b.endIndex < Len(s) -> s[p - b.endIndex + 1]
                      [] p < b.endIndex /\ p + (b.cap - b.endIndex) < Len(s)
                           -> s[p + (b.cap - b.endIndex) + 1]
                      [] OTHER -> b.data[p]
  <2>1. CASE p >= b.endIndex BY <1>1, <2>1 DEF Places
  <2>2. CASE p < b.endIndex BY <1>1, <2>2 DEF Places
  <2> QED BY <1>1, <2>1, <2>2
<1>5. Copied(b, s, Len(s)) = [p \in 0 .. cap - 1 |-> c(p)]
  BY <1>1, <1>4 DEF Copied
<1> HIDE DEF c
<1>6. Copied(b, s, Len(s)) \in [0 .. cap - 1 -> S] BY <1>3, <1>5
<1>7. \A p \in 0 .. cap - 1 : Copied(b, s, Len(s))[p] = c(p) BY <1>5
<1> QED BY <1>6, <1>7 DEF c

\* What write takes is appended to what the buffer holds.
LEMMA WriteAppends ==
  ASSUME NEW cap \in Nat \ {0}, NEW S, NEW b, Sound(b, cap, S),
         NEW s \in Seq(S), Len(s) <= WriteSizeRemaining(b)
  PROVE  /\ Sound(Write(b, s), cap, S)
         /\ Write(b, s).size = b.size + Len(s)
         /\ Contents(Write(b, s)) = Contents(b) \o s
<1> DEFINE w == Write(b, s)
           n == Len(s)
           beg == b.begIndex
           size == b.size
           end == On(cap, beg, size + n)
<1>1. /\ b \in Buffers(cap, S) /\ b.cap = cap /\ size \in 0 .. cap
      /\ beg \in 0 .. cap - 1 /\ b.endIndex \in 0 .. cap - 1
      /\ b.data \in [0 .. cap - 1 -> S] /\ b.endIndex = On(cap, beg, size)
  BY SoundFields DEF Sound
<1>2. n \in 0 .. cap /\ size + n \in 0 .. cap /\ size + n <= cap /\ size \in Nat /\ n \in Nat
  BY <1>1 DEF WriteSizeRemaining
<1>3. WriteCount(b, s) = n BY DEF WriteCount
<1>4. Advance(b, b.endIndex, n) = end
  <2>1. Advance(b, b.endIndex, n) = On(cap, b.endIndex, n) BY <1>1, <1>2, AdvanceIsOn
  <2>2. On(cap, On(cap, beg, size), n) = end BY <1>1, <1>2, OnAndOn
  <2> QED BY <1>1, <2>1, <2>2
<1>5. w = [b EXCEPT !.size = size + n, !.data = Copied(b, s, n), !.endIndex = end]
  BY <1>3, <1>4 DEF Write
<1>6. /\ Copied(b, s, n) \in [0 .. cap - 1 -> S]
      /\ \A p \in 0 .. cap - 1 :
           LET o == Places(cap, b.endIndex, p)
           IN  Copied(b, s, n)[p] = IF o < n THEN s[o + 1] ELSE b.data[p]
  BY <1>2, CopiedAt
<1>7. end \in 0 .. cap - 1 BY <1>1, <1>2, OnInside
<1> HIDE DEF w, end
<1>8. /\ w \in Buffers(cap, S)
      /\ w.cap = cap /\ w.begIndex = beg /\ w.size = size + n
      /\ w.data = Copied(b, s, n) /\ w.endIndex = end
  BY <1>1, <1>2, <1>5, <1>6, <1>7 DEF Buffers
<1>9. Sound(w, cap, S)
  <2>1. w.endIndex = On(cap, w.begIndex, w.size) BY <1>8 DEF end
  <2> QED BY <1>8, <2>1 DEF Sound
<1>10. Contents(w) = Contents(b) \o s
  <2> DEFINE pos(i) == On(cap, beg, i - 1)
  <2>1. /\ Contents(w) \in Seq(S) /\ Len(Contents(w)) = size + n
        /\ \A i \in 1 .. size + n : Contents(w)[i] = w.data[pos(i)]
    <3>1. size + n \in 0 .. w.size BY <1>2, <1>8
    <3>2. Contents(w) = ReadData(w, size + n) BY <1>8 DEF Contents
    <3>3. /\ ReadData(w, size + n) \in Seq(S)
          /\ Len(ReadData(w, size + n)) = size + n
          /\ \A i \in 1 .. size + n :
               ReadData(w, size + n)[i] = w.data[On(cap, w.begIndex, i - 1)]
      BY <1>9, <3>1, ContentsAt
    <3> QED BY <1>8, <3>2, <3>3
  <2>2. /\ Contents(b) \in Seq(S) /\ Len(Contents(b)) = size
        /\ \A i \in 1 .. size : Contents(b)[i] = b.data[pos(i)]
    <3>1. size \in 0 .. b.size BY <1>2
    <3>2. Contents(b) = ReadData(b, size) BY DEF Contents
    <3>3. /\ ReadData(b, size) \in Seq(S) /\ Len(ReadData(b, size)) = size
          /\ \A i \in 1 .. size : ReadData(b, size)[i] = b.data[On(cap, b.begIndex, i - 1)]
      BY <3>1, ContentsAt
    <3> QED BY <3>2, <3>3
  <2>3. ASSUME NEW i \in 1 .. size + n
        PROVE  /\ i <= size => w.data[pos(i)] = b.data[pos(i)]
               /\ i > size  => w.data[pos(i)] = s[i - size]
    <3>1. pos(i) \in 0 .. cap - 1
      <4>1. i - 1 \in 0 .. cap BY <1>2
      <4> QED BY <1>1, <4>1, OnInside
    <3> DEFINE o == Places(cap, b.endIndex, pos(i))
    <3>2. w.data[pos(i)] = IF o < n THEN s[o + 1] ELSE b.data[pos(i)]
      BY <1>6, <1>8, <3>1
    <3>3. CASE i <= size
      <4>1. i \in 1 .. size BY <1>2, <3>3
      <4>2. Places(cap, On(cap, beg, size), On(cap, beg, i - 1)) >= n
        BY <1>1, <1>2, <4>1, HeldPlaces
      <4>3. o >= n BY <1>1, <4>2
      <4>4. o \in Int BY <1>1, <3>1 DEF Places
      <4> HIDE DEF pos, o
      <4>5. ~(o < n) BY <1>2, <4>3, <4>4
      <4>6. ~(i > size) BY <1>2, <3>3
      <4> QED BY <3>2, <4>5, <4>6
    <3>4. CASE i > size
      <4> DEFINE j == i - size
      <4>1. j \in 1 .. n /\ size + j - 1 = i - 1 BY <1>2, <3>4
      <4> HIDE DEF j, n, size, beg
      <4>2. Places(cap, On(cap, beg, size), On(cap, beg, size + j - 1)) = j - 1
        <5>1. beg \in 0 .. cap - 1 /\ size \in Nat /\ n \in Nat /\ size + n <= cap
          BY <1>1, <1>2
        <5> QED BY <4>1, <5>1, FreePlaces
      <4>3. o = j - 1 BY <1>1, <4>1, <4>2
      <4> HIDE DEF pos, o
      <4>4. o < n /\ o + 1 = i - size BY <1>2, <4>1, <4>3 DEF j
      <4>5. ~(i <= size) BY <1>2, <3>4
      <4> QED BY <3>2, <4>4, <4>5
    <3> QED BY <1>2, <3>3, <3>4
  <2> HIDE DEF pos
  <2>4. /\ Contents(b) \o s \in Seq(S) /\ Len(Contents(b) \o s) = size + n
        /\ \A i \in 1 .. size + n : (Contents(b) \o s)[i] =
             IF i <= size THEN Contents(b)[i] ELSE s[i - size]
    <3> DEFINE c == Contents(b)
    <3>1. c \in Seq(S) /\ Len(c) = size BY <2>2
    <3> HIDE DEF c, size, n
    <3>2. /\ c \o s \in Seq(S) /\ Len(c \o s) = Len(c) + Len(s)
          /\ \A i \in 1 .. Len(c) + Len(s) :
               (c \o s)[i] = IF i <= Len(c) THEN c[i] ELSE s[i - Len(c)]
      BY <3>1, ConcatProperties
    <3>3. Len(s) = n BY DEF n
    <3>4. /\ c \o s \in Seq(S) /\ Len(c \o s) = size + n
          /\ \A i \in 1 .. size + n :
               (c \o s)[i] = IF i <= size THEN c[i] ELSE s[i - size]
      BY <3>1, <3>2, <3>3
    <3> QED BY <3>4 DEF c
  <2>5. ASSUME NEW i \in 1 .. size + n PROVE Contents(w)[i] = (Contents(b) \o s)[i]
    <3>1. CASE i <= size
      <4>1. i \in 1 .. size BY <1>2, <3>1
      <4> QED BY <2>1, <2>2, <2>3, <2>4, <3>1, <4>1
    <3>2. CASE i > size
      <4>1. ~(i <= size) BY <1>2, <3>2
      <4> QED BY <2>1, <2>3, <2>4, <3>2, <4>1
    <3>3. i <= size \/ i > size BY <1>2
    <3> QED BY <3>1, <3>2, <3>3
  <2> QED BY <2>1, <2>4, <2>5, SeqEqual
<1> QED BY <1>8, <1>9, <1>10 DEF w

\* What read copies out and what it leaves are what the buffer held.
LEMMA ReadRemoves ==
  ASSUME NEW cap \in Nat \ {0}, NEW S, NEW b, Sound(b, cap, S), NEW n \in 0 .. b.size
  PROVE  /\ Sound(Read(b, n), cap, S)
         /\ Read(b, n).size = b.size - n
         /\ ReadData(b, n) \in Seq(S)
         /\ Len(ReadData(b, n)) = n
         /\ Contents(b) = ReadData(b, n) \o Contents(Read(b, n))
<1> DEFINE r == Read(b, n)
           d == ReadData(b, n)
           beg == b.begIndex
           size == b.size
           rest == size - n
           on == On(cap, beg, n)
<1>1. /\ b \in Buffers(cap, S) /\ b.cap = cap /\ size \in 0 .. cap
      /\ beg \in 0 .. cap - 1 /\ b.endIndex \in 0 .. cap - 1
      /\ b.data \in [0 .. cap - 1 -> S] /\ b.endIndex = On(cap, beg, size)
  BY SoundFields DEF Sound
<1>2. /\ n \in 0 .. cap /\ rest \in 0 .. cap /\ n \in Nat /\ rest \in Nat /\ size \in Nat
      /\ n + rest = size /\ n + rest <= cap
  BY <1>1
<1>3. ReadCount(b, n) = n BY <1>1 DEF ReadCount
<1>4. Advance(b, beg, n) = on BY <1>1, <1>2, AdvanceIsOn
<1>5. r = [b EXCEPT !.size = rest, !.begIndex = on]
  BY <1>3, <1>4 DEF Read
<1>6. on \in 0 .. cap - 1 BY <1>1, <1>2, OnInside
<1>7. On(cap, on, rest) = On(cap, beg, n + rest) BY <1>1, <1>2, OnAndOn
<1>8. /\ d \in Seq(S) /\ Len(d) = n
      /\ \A i \in 1 .. n : d[i] = b.data[On(cap, beg, i - 1)]
  BY ContentsAt
<1>9. /\ Contents(b) \in Seq(S) /\ Len(Contents(b)) = size
      /\ \A i \in 1 .. size : Contents(b)[i] = b.data[On(cap, beg, i - 1)]
  <2>1. size \in 0 .. b.size BY <1>1
  <2>2. Contents(b) = ReadData(b, size) BY DEF Contents
  <2>3. /\ ReadData(b, size) \in Seq(S) /\ Len(ReadData(b, size)) = size
        /\ \A i \in 1 .. size : ReadData(b, size)[i] = b.data[On(cap, b.begIndex, i - 1)]
    BY <2>1, ContentsAt
  <2> QED BY <2>2, <2>3
<1>10. ASSUME NEW i \in 1 .. rest
       PROVE  On(cap, on, i - 1) = On(cap, beg, n + i - 1)
  <2>1. i - 1 \in Nat /\ n + (i - 1) <= cap /\ n + (i - 1) = n + i - 1
    BY <1>1, <1>2
  <2> QED BY <1>1, <1>2, <2>1, OnAndOn
<1> HIDE DEF r, d, on, rest
<1>11. /\ r \in Buffers(cap, S)
       /\ r.cap = cap /\ r.begIndex = on /\ r.size = rest
       /\ r.data = b.data /\ r.endIndex = b.endIndex
  BY <1>1, <1>2, <1>5, <1>6 DEF Buffers
<1>12. Sound(r, cap, S)
  <2>1. r.endIndex = On(cap, r.begIndex, r.size) BY <1>1, <1>2, <1>7, <1>11
  <2> QED BY <1>11, <2>1 DEF Sound
<1>13. Contents(b) = d \o Contents(r)
  <2> DEFINE c == Contents(r)
  <2>1. /\ c \in Seq(S) /\ Len(c) = rest
        /\ \A i \in 1 .. rest : c[i] = b.data[On(cap, on, i - 1)]
    <3>1. rest \in 0 .. r.size BY <1>2, <1>11
    <3>2. c = ReadData(r, rest) BY <1>11 DEF Contents
    <3>3. /\ ReadData(r, rest) \in Seq(S) /\ Len(ReadData(r, rest)) = rest
          /\ \A i \in 1 .. rest : ReadData(r, rest)[i] = r.data[On(cap, r.begIndex, i - 1)]
      BY <1>12, <3>1, ContentsAt
    <3> QED BY <1>11, <3>2, <3>3
  <2> HIDE DEF c
  <2>2. /\ d \o c \in Seq(S) /\ Len(d \o c) = size
        /\ \A i \in 1 .. size : (d \o c)[i] = IF i <= n THEN d[i] ELSE c[i - n]
    <3>1. /\ d \o c \in Seq(S) /\ Len(d \o c) = Len(d) + Len(c)
          /\ \A i \in 1 .. Len(d) + Len(c) :
               (d \o c)[i] = IF i <= Len(d) THEN d[i] ELSE c[i - Len(d)]
      BY <1>8, <2>1, ConcatProperties
    <3>2. Len(d) = n /\ Len(c) = rest /\ n + rest = size BY <1>2, <1>8, <2>1
    <3> HIDE DEF size
    <3> QED BY <3>1, <3>2
  <2>3. ASSUME NEW i \in 1 .. size PROVE Contents(b)[i] = (d \o c)[i]
    <3>1. CASE i <= n
      <4>1. i \in 1 .. n BY <1>2, <3>1
      <4> QED BY <1>8, <1>9, <2>2, <3>1, <4>1
    <3>2. CASE i > n
      <4>1. i - n \in 1 .. rest /\ n + (i - n) - 1 = i - 1 /\ ~(i <= n)
        BY <1>2, <3>2
      <4>2. On(cap, on, (i - n) - 1) = On(cap, beg, i - 1) BY <1>10, <4>1
      <4>3. c[i - n] = b.data[On(cap, beg, i - 1)] BY <2>1, <4>1, <4>2
      <4> QED BY <1>9, <2>2, <4>1, <4>3
    <3>3. i <= n \/ i > n BY <1>2
    <3> QED BY <3>1, <3>2, <3>3
  <2>4. Contents(b) = d \o c BY <1>9, <2>2, <2>3, SeqEqual
  <2> QED BY <2>4 DEF c
<1> QED BY <1>8, <1>11, <1>12, <1>13 DEF r, d, rest

-----------------------------------------------------------------------------
(* The two buffers of the mixer *)

USE MixerAssumption

Capacity == 2 * nFFT

BuffersSound == Sound(in, Capacity, Sample) /\ Sound(out, Capacity, Sample)

\* Less than a block waits to be filtered; when the callback has returned, no more
\* than a block waits to be heard.
RestsAreSmall == in.size < nFFT /\ (chunk = 0 => out.size <= nFFT)

MixInv ==
  /\ BuffersSound /\ RestsAreSmall
  /\ next \in Sample /\ chunk \in 0 .. nFFT /\ heard \in Seq(Sample)

LEMMA NewIsSound ==
  ASSUME NEW cap \in Nat \ {0}, NEW S, NEW junk \in S
  PROVE  Sound(NewBuffer(cap, junk), cap, S) /\ NewBuffer(cap, junk).size = 0
BY DEF NewBuffer, Sound, Buffers, On

LEMMA FrontOfConcat ==
  ASSUME NEW S, NEW a \in Seq(S), NEW b \in Seq(S)
  PROVE  /\ Len(a) \in 0 .. Len(a \o b)
         /\ a = SubSeq(a \o b, 1, Len(a))
<1>1. a \o b \in Seq(S) /\ Len(a \o b) = Len(a) + Len(b)
  BY ConcatProperties
<1>2. Len(a) \in 0 .. Len(a \o b) BY <1>1
<1>3. SubSeq(a \o b, 1, Len(a)) \in Seq(S) /\ Len(SubSeq(a \o b, 1, Len(a))) = Len(a)
  BY <1>1, <1>2
<1>4. \A i \in 1 .. Len(a) : SubSeq(a \o b, 1, Len(a))[i] = a[i]
  BY <1>1, <1>2
<1> QED BY <1>2, <1>3, <1>4, SeqEqual

LEMMA InvFacts ==
  ASSUME MixInv
  PROVE  /\ Capacity \in Nat \ {0} /\ nFFT \in Nat \ {0}
         /\ in.cap = Capacity /\ out.cap = Capacity
         /\ in.size \in Nat /\ out.size \in 0 .. Capacity
         /\ Contents(in) \in Seq(Sample) /\ Len(Contents(in)) = in.size
         /\ Contents(out) \in Seq(Sample) /\ Len(Contents(out)) = out.size
         /\ Inside = Contents(out) \o Contents(in)
         /\ Inside \in Seq(Sample) /\ Len(Inside) = out.size + in.size
<1>1. Capacity \in Nat \ {0} BY DEF Capacity
<1>2. /\ in.cap = Capacity /\ in.size \in 0 .. Capacity
      /\ out.cap = Capacity /\ out.size \in 0 .. Capacity
  BY <1>1, SoundFields DEF MixInv, BuffersSound
<1>3. in.size \in 0 .. in.size /\ out.size \in 0 .. out.size BY <1>1, <1>2
<1>4. /\ Contents(in) \in Seq(Sample) /\ Len(Contents(in)) = in.size
      /\ Contents(out) \in Seq(Sample) /\ Len(Contents(out)) = out.size
  BY <1>1, <1>3, ContentsAt DEF MixInv, BuffersSound, Contents
<1>5. Inside = Contents(out) \o Contents(in) BY DEF Inside, Contents
<1>6. Inside \in Seq(Sample) /\ Len(Inside) = out.size + in.size
  <2> DEFINE x == Contents(out)
             y == Contents(in)
  <2>1. x \in Seq(Sample) /\ y \in Seq(Sample) BY <1>4
  <2> HIDE DEF x, y
  <2>2. x \o y \in Seq(Sample) /\ Len(x \o y) = Len(x) + Len(y)
    BY <2>1, ConcatProperties
  <2> QED BY <1>4, <1>5, <2>2 DEF x, y
<1> QED BY <1>1, <1>2, <1>4, <1>5, <1>6

LEMMA InsideTyped == MixInv => Inside \in Seq(Sample)
BY InvFacts

LEMMA MixInit == Init => MixInv /\ Fifo!Init
<1> SUFFICES ASSUME Init PROVE MixInv /\ Fifo!Init
  OBVIOUS
<1>1. Capacity \in Nat \ {0} /\ 0 \in Sample BY DEF Capacity, Sample
<1>2. BuffersSound /\ in.size = 0 /\ out.size = 0
  BY <1>1, NewIsSound DEF Init, BuffersSound, Capacity
<1>3. MixInv BY <1>1, <1>2 DEF Init, MixInv, RestsAreSmall
<1>4. Inside = <<>> BY <1>2, <1>3, InvFacts, EmptySeq
<1> QED BY <1>3, <1>4 DEF Fifo!Init, Init

LEMMA RecordedSamples ==
  ASSUME next \in Sample, NEW n \in Nat
  PROVE  Recorded(n) \in Seq(Sample) /\ Len(Recorded(n)) = n
<1>1. \A k \in Nat : k % Numbers \in Sample BY DEF Sample
<1>2. \A i \in 1 .. n : (next + i - 1) % Numbers \in Sample BY <1>1 DEF Sample
<1> QED BY <1>2 DEF Recorded

\* A recorded chunk is appended to what is inside, filtered or not.
LEMMA AddStep ==
  ASSUME MixInv, NEW n \in Chunks, AddProcessData(n)
  PROVE  MixInv' /\ Fifo!Put /\ Inside' = Inside \o Recorded(n)
<1> DEFINE rec == Recorded(n)
           b == Write(in, rec)
<1>1. /\ Capacity \in Nat \ {0} /\ n \in 1 .. nFFT /\ nFFT \in Nat \ {0}
      /\ Capacity = 2 * nFFT
  BY InvFacts DEF Chunks, Capacity
<1>2. rec \in Seq(Sample) /\ Len(rec) = n
  BY <1>1, RecordedSamples DEF MixInv
<1>3. chunk = 0 /\ chunk' = n /\ heard' = <<>> /\ next' = (next + n) % Numbers
  BY DEF AddProcessData
<1>4. next' \in Sample
  <2>1. next + n \in Nat BY <1>1 DEF MixInv, Sample
  <2> QED BY <1>3, <2>1 DEF Sample
<1>5. /\ in.cap = Capacity /\ in.size \in Nat /\ in.size < nFFT
      /\ out.cap = Capacity /\ out.size \in Nat /\ out.size <= nFFT
  BY <1>3, InvFacts DEF MixInv, RestsAreSmall
<1>6. Len(rec) <= WriteSizeRemaining(in) BY <1>1, <1>2, <1>5 DEF WriteSizeRemaining
<1>7. Collected(n) = b BY <1>2, <1>6 DEF Collected
<1>8. /\ Sound(b, Capacity, Sample) /\ b.size = in.size + n
      /\ Contents(b) = Contents(in) \o rec
  BY <1>1, <1>2, <1>6, WriteAppends DEF MixInv, BuffersSound
<1>9. IF b.size < nFFT THEN in' = b /\ out' = out
      ELSE in' = Read(b, nFFT) /\ out' = Write(out, ReadData(b, nFFT))
  BY <1>7 DEF AddProcessData, ReadSizeRemaining
<1> DEFINE x == Contents(out)
           y == Contents(in)
<1>10. x \in Seq(Sample) /\ y \in Seq(Sample) /\ Inside = x \o y BY InvFacts
<1> HIDE DEF rec, b, x, y
<1>11. x \o (y \o rec) = (x \o y) \o rec BY <1>2, <1>10, ConcatAssociative
<1>12. MixInv' /\ Contents(out)' \o Contents(in)' = Inside \o rec
  <2>1. CASE b.size < nFFT
    <3>1. in' = b /\ out' = out BY <1>9, <2>1
    <3>2. MixInv'
      BY <1>1, <1>3, <1>4, <1>5, <1>8, <2>1, <3>1 DEF MixInv, BuffersSound, RestsAreSmall
    <3>3. Contents(out)' = x /\ Contents(in)' = y \o rec
      BY <1>8, <3>1 DEF Contents, x, y
    <3> QED BY <1>10, <1>11, <3>2, <3>3
  <2>2. CASE ~(b.size < nFFT)
    <3> DEFINE d == ReadData(b, nFFT)
               r == Read(b, nFFT)
               c == Contents(r)
    <3>1. in' = r /\ out' = Write(out, d) BY <1>9, <2>2
    <3>2. nFFT \in 0 .. b.size BY <1>1, <1>5, <1>8, <2>2
    <3>3. /\ Sound(r, Capacity, Sample) /\ r.size = b.size - nFFT
          /\ d \in Seq(Sample) /\ Len(d) = nFFT
      BY <1>1, <1>8, <3>2, ReadRemoves
    <3>4. Contents(b) = d \o c
      <4>1. Sound(b, Capacity, Sample) BY <1>8
      <4> QED BY <1>1, <3>2, <4>1, ReadRemoves
    <3> HIDE DEF d, r
    <3>5. r.size \in 0 .. r.size BY <1>1, <1>5, <1>8, <3>2, <3>3
    <3>6. c \in Seq(Sample) BY <1>1, <3>3, <3>5, ContentsAt DEF Contents
    <3>7. Len(d) <= WriteSizeRemaining(out)
      BY <1>1, <1>5, <3>3 DEF WriteSizeRemaining
    <3>8. /\ Sound(out', Capacity, Sample) /\ out'.size = out.size + nFFT
          /\ Contents(out') = Contents(out) \o d
      BY <1>1, <3>1, <3>3, <3>7, WriteAppends DEF MixInv, BuffersSound
    <3>9. in'.size < nFFT BY <1>1, <1>5, <1>8, <3>1, <3>3
    <3>10. MixInv'
      BY <1>1, <1>3, <1>4, <3>1, <3>3, <3>8, <3>9 DEF MixInv, BuffersSound, RestsAreSmall
    <3>11. Contents(out)' = x \o d /\ Contents(in)' = c
      BY <3>1, <3>8 DEF Contents, x
    <3>12. y \o rec = d \o c BY <1>8, <3>4 DEF y
    <3> HIDE DEF c
    <3>13. (x \o d) \o c = x \o (d \o c) BY <1>10, <3>3, <3>6, ConcatAssociative
    <3> QED BY <1>10, <1>11, <3>10, <3>11, <3>12, <3>13
  <2> QED BY <2>1, <2>2
<1>13. Inside' = Inside \o rec BY <1>12 DEF Inside, Contents
<1>14. Inside \in Seq(Sample) /\ Len(Inside) = out.size + in.size BY InvFacts
<1>15. /\ Len(Inside) \in 0 .. Len(Inside') /\ Inside = SubSeq(Inside', 1, Len(Inside))
  BY <1>2, <1>13, <1>14, FrontOfConcat
<1>16. Len(Inside') <= 3 * nFFT
  <2>1. Len(Inside') = Len(Inside) + n BY <1>2, <1>13, <1>14, ConcatProperties
  <2> QED BY <1>1, <1>5, <1>14, <2>1
<1> QED BY <1>3, <1>12, <1>13, <1>15, <1>16 DEF Fifo!Put, rec

\* What is heard is the front of what was inside.
LEMMA GetStep ==
  ASSUME MixInv, GetProcessData
  PROVE  MixInv' /\ Fifo!Take
<1>1. /\ chunk \in 1 .. nFFT /\ chunk <= out.size /\ heard' = ReadData(out, chunk)
      /\ out' = Read(out, chunk) /\ in' = in /\ next' = next /\ chunk' = chunk
  BY DEF GetProcessData, MixInv, ReadSizeRemaining
<1>2. /\ Capacity \in Nat \ {0} /\ chunk \in 0 .. out.size
  BY <1>1, InvFacts
<1>3. /\ Sound(out', Capacity, Sample) /\ out'.size = out.size - chunk
      /\ heard' \in Seq(Sample) /\ Len(heard') = chunk
      /\ Contents(out) = heard' \o Contents(out')
  <2>1. Sound(out, Capacity, Sample) BY DEF MixInv, BuffersSound
  <2>2. /\ Sound(Read(out, chunk), Capacity, Sample)
        /\ Read(out, chunk).size = out.size - chunk
        /\ ReadData(out, chunk) \in Seq(Sample)
        /\ Len(ReadData(out, chunk)) = chunk
        /\ Contents(out) = ReadData(out, chunk) \o Contents(Read(out, chunk))
    BY <1>2, <2>1, ReadRemoves
  <2> QED BY <1>1, <2>2
<1>4. MixInv'
  BY <1>1, <1>3 DEF MixInv, BuffersSound, RestsAreSmall
<1>5. Contents(out') \in Seq(Sample)
  <2>1. out'.size \in 0 .. out'.size BY <1>1, <1>3, InvFacts
  <2> QED BY <1>2, <1>3, <2>1, ContentsAt DEF Contents
<1>6. Inside' = Contents(out') \o Contents(in) BY <1>1 DEF Inside, Contents
<1>7. (heard' \o Contents(out')) \o Contents(in) = heard' \o (Contents(out') \o Contents(in))
  <2> DEFINE h == heard'
             x == Contents(out')
             y == Contents(in)
  <2>1. h \in Seq(Sample) /\ x \in Seq(Sample) /\ y \in Seq(Sample)
    BY <1>3, <1>5, InvFacts
  <2> HIDE DEF h, x, y
  <2>2. (h \o x) \o y = h \o (x \o y) BY <2>1, ConcatAssociative
  <2> QED BY <2>2 DEF h, x, y
<1>8. Inside = heard' \o Inside' BY <1>3, <1>6, <1>7, InvFacts
<1>9. heard' # <<>> BY <1>1, <1>3
<1> QED BY <1>4, <1>8, <1>9 DEF Fifo!Take

\* The end of the callback takes nothing out and puts nothing in.
LEMMA EndStep ==
  ASSUME MixInv, GetNothing
  PROVE  MixInv' /\ Fifo!Put
<1>1. /\ chunk \in 0 .. nFFT /\ ~(chunk <= out.size) /\ chunk' = 0 /\ heard' = <<>>
      /\ in' = in /\ out' = out /\ next' = next
  BY InvFacts DEF GetNothing, MixInv, ReadSizeRemaining
<1>2. out.size <= nFFT BY <1>1, InvFacts
<1>3. MixInv' BY <1>1, <1>2 DEF MixInv, BuffersSound, RestsAreSmall
<1>4. Inside' = Inside BY <1>1 DEF Inside
<1>5. Inside \in Seq(Sample) /\ Len(Inside) <= 3 * nFFT
  BY <1>2, InvFacts DEF MixInv, RestsAreSmall
<1>6. <<>> \in Seq(Sample) /\ Inside \o <<>> = Inside
  BY <1>5, ConcatEmptySeq
<1>7. Len(Inside) \in 0 .. Len(Inside) /\ Inside = SubSeq(Inside, 1, Len(Inside))
  BY <1>5, <1>6, FrontOfConcat
<1> QED BY <1>1, <1>3, <1>4, <1>5, <1>7 DEF Fifo!Put

LEMMA MixStep == MixInv /\ [Next]_vars => MixInv' /\ [Fifo!Next]_(Fifo!vars)
<1> SUFFICES ASSUME MixInv, [Next]_vars PROVE MixInv' /\ [Fifo!Next]_(Fifo!vars)
  OBVIOUS
<1>1. ASSUME NEW n \in Chunks, AddProcessData(n) PROVE MixInv' /\ Fifo!Put
  BY <1>1, AddStep
<1>2. CASE GetProcessData BY <1>2, GetStep DEF Fifo!Next
<1>3. CASE GetNothing BY <1>3, EndStep DEF Fifo!Next
<1>4. CASE UNCHANGED vars
  <2>1. MixInv' BY <1>4 DEF vars, MixInv, BuffersSound, RestsAreSmall
  <2>2. Inside' = Inside /\ heard' = heard BY <1>4 DEF vars, Inside
  <2> QED BY <2>1, <2>2 DEF Fifo!vars
<1> QED BY <1>1, <1>2, <1>3, <1>4 DEF Next, Fifo!Next

\* The indices of both buffers always agree with their sizes, and the rests of
\* blocks and chunks stay small.
THEOREM MixerInvariant == Spec => []MixInv
BY MixInit, MixStep, PTL DEF Spec

\* The indices and sizes stay inside the storage, and only samples are heard.
THEOREM MixerTypes == Spec => []TypeOK
<1>1. MixInv => TypeOK BY DEF MixInv, BuffersSound, Sound, Capacity, TypeOK
<1> QED BY <1>1, MixerInvariant, PTL

\* There is always room for the next chunk in the first buffer and for a block in
\* the second, for every block size: the assertion of AddProcessData holds.
THEOREM AlwaysRoom == Spec => []RoomForNext
<1>1. MixInv => RoomForNext
  BY InvFacts DEF RoomForNext, MixInv, RestsAreSmall, WriteSizeRemaining, Capacity
<1> QED BY <1>1, MixerInvariant, PTL

\* For every block size and all sizes of chunks the mixer is one FIFO of three
\* blocks: nothing is doubled, lost or reordered at any wrap-around.
THEOREM MixerIsFifo == Spec => ImplementsFifo
BY MixInit, MixStep, MixerInvariant, PTL DEF Spec, ImplementsFifo, Fifo!Spec

-----------------------------------------------------------------------------
(* The numbers of the samples inside *)

LEMMA DivMod ==
  ASSUME NEW n \in Nat \ {0}, NEW a \in Nat
  PROVE  \E q \in Nat : \E r \in 0 .. n - 1 : a = n * q + r /\ a % n = r
<1>1. a % n \in 0 .. n - 1 /\ a \div n \in Nat OBVIOUS
<1>2. a = n * (a \div n) + (a % n) OBVIOUS
<1> QED BY <1>1, <1>2

LEMMA UniqueMod ==
  ASSUME NEW n \in Nat \ {0}, NEW q \in Nat, NEW r \in 0 .. n - 1
  PROVE  (n * q + r) % n = r
OBVIOUS

LEMMA AddMod ==
  ASSUME NEW n \in Nat \ {0}, NEW a \in Nat, NEW b \in Nat
  PROVE  ((a % n) + b) % n = (a + b) % n
<1>1. PICK q \in Nat : \E r \in 0 .. n - 1 : a = n * q + r /\ a % n = r
  BY DivMod
<1>2. PICK r \in 0 .. n - 1 : a = n * q + r /\ a % n = r BY <1>1
<1>3. r + b \in Nat OBVIOUS
<1>4. PICK p \in Nat : \E t \in 0 .. n - 1 : r + b = n * p + t /\ (r + b) % n = t
  BY <1>3, DivMod
<1>5. PICK t \in 0 .. n - 1 : r + b = n * p + t /\ (r + b) % n = t BY <1>4
<1>6. a + b = n * (q + p) + t
  <2>1. n * (q + p) = n * q + n * p OBVIOUS
  <2>2. n * q \in Nat /\ n * p \in Nat OBVIOUS
  <2> QED BY <1>2, <1>5, <2>1, <2>2
<1>7. (n * (q + p) + t) % n = t
  <2>1. q + p \in Nat OBVIOUS
  <2> QED BY <2>1, UniqueMod
<1> QED BY <1>2, <1>5, <1>6, <1>7

\* The samples s are the latest that were numbered before next, without a gap.
Latest(s, nxt) == \A i \in 1 .. Len(s) : (s[i] + (Len(s) + 1 - i)) % Numbers = nxt

LEMMA LatestIsNothingLost == MixInv => (NothingLost <=> Latest(Inside, next))
<1> SUFFICES ASSUME MixInv PROVE NothingLost <=> Latest(Inside, next)
  OBVIOUS
<1> DEFINE s == Inside
<1>1. s \in Seq(Sample) BY InvFacts
<1> HIDE DEF s
<1>2. ASSUME NEW i \in 1 .. Len(s)
      PROVE  s[i] + (Len(s) + 1 - i) = s[i] + Len(s) + 1 - i
  <2>1. s[i] \in Nat /\ Len(s) \in Nat BY <1>1 DEF Sample
  <2> QED BY <2>1
<1>3. NothingLost <=> \A i \in 1 .. Len(s) : (s[i] + Len(s) + 1 - i) % Numbers = next
  BY DEF NothingLost, s
<1> QED BY <1>2, <1>3 DEF Latest, s

LEMMA LatestGrows ==
  ASSUME NEW s \in Seq(Sample), next \in Sample, NEW n \in Nat, Latest(s, next)
  PROVE  Latest(s \o Recorded(n), (next + n) % Numbers)
<1> DEFINE rec == Recorded(n)
           l == Len(s)
           t == s \o rec
<1>1. rec \in Seq(Sample) /\ Len(rec) = n BY RecordedSamples
<1>2. \A i \in 1 .. n : rec[i] = (next + i - 1) % Numbers BY DEF Recorded
<1>3. l \in Nat /\ next \in Nat BY DEF Sample
<1> HIDE DEF rec
<1>4. /\ t \in Seq(Sample) /\ Len(t) = l + n
      /\ \A i \in 1 .. l + n : t[i] = IF i <= l THEN s[i] ELSE rec[i - l]
  BY <1>1, ConcatProperties
<1> HIDE DEF t, l
<1>5. ASSUME NEW i \in 1 .. l + n
      PROVE  (t[i] + (l + n + 1 - i)) % Numbers = (next + n) % Numbers
  <2>1. CASE i <= l
    <3>1. i \in 1 .. Len(s) /\ i \in 1 .. l BY <1>3, <2>1 DEF l
    <3>2. (s[i] + (l + 1 - i)) % Numbers = next BY <3>1 DEF Latest, l
    <3>3. s[i] \in Nat BY <3>1 DEF Sample
    <3>4. s[i] + (l + 1 - i) \in Nat BY <1>3, <3>1, <3>3
    <3>5. (s[i] + (l + 1 - i) + n) % Numbers = (next + n) % Numbers
      BY <3>2, <3>4, AddMod
    <3>6. s[i] + (l + 1 - i) + n = s[i] + (l + n + 1 - i) BY <1>3, <3>1, <3>3
    <3>7. t[i] = s[i] BY <1>4, <2>1
    <3> QED BY <3>5, <3>6, <3>7
  <2>2. CASE i > l
    <3> DEFINE k == i - l
    <3>1. k \in 1 .. n /\ l + n + 1 - i = n + 1 - k BY <1>3, <2>2
    <3>2. ~(i <= l) BY <1>3, <2>2
    <3>3. t[i] = rec[k] BY <1>4, <3>2
    <3> HIDE DEF k
    <3>4. rec[k] = (next + k - 1) % Numbers BY <1>2, <3>1
    <3>5. next + k - 1 \in Nat /\ n + 1 - k \in Nat BY <1>3, <3>1
    <3>6. (((next + k - 1) % Numbers) + (n + 1 - k)) % Numbers
            = ((next + k - 1) + (n + 1 - k)) % Numbers
      BY <3>5, AddMod
    <3>7. (next + k - 1) + (n + 1 - k) = next + n BY <1>3, <3>1
    <3> QED BY <3>1, <3>3, <3>4, <3>6, <3>7
  <2>3. i <= l \/ i > l BY <1>3
  <2> QED BY <2>1, <2>2, <2>3
<1>6. Latest(t, (next + n) % Numbers) BY <1>4, <1>5 DEF Latest
<1> QED BY <1>6 DEF t, rec

LEMMA LatestShrinks ==
  ASSUME NEW s \in Seq(Sample), NEW t \in Seq(Sample), Latest(s \o t, next)
  PROVE  Latest(t, next)
<1> DEFINE l == Len(s)
           c == s \o t
<1>1. /\ c \in Seq(Sample) /\ Len(c) = l + Len(t)
      /\ \A i \in 1 .. l + Len(t) : c[i] = IF i <= l THEN s[i] ELSE t[i - l]
  BY ConcatProperties
<1>2. l \in Nat /\ Len(t) \in Nat OBVIOUS
<1> SUFFICES ASSUME NEW i \in 1 .. Len(t)
             PROVE  (t[i] + (Len(t) + 1 - i)) % Numbers = next
  BY DEF Latest
<1> HIDE DEF l, c
<1> DEFINE k == l + i
<1>3. k \in 1 .. l + Len(t) /\ ~(k <= l) /\ k - l = i BY <1>2
<1>4. l + Len(t) + 1 - k = Len(t) + 1 - i BY <1>2
<1> HIDE DEF k
<1>5. c[k] = t[i] BY <1>1, <1>3
<1>6. (c[k] + (Len(c) + 1 - k)) % Numbers = next BY <1>1, <1>3 DEF Latest, c
<1> QED BY <1>1, <1>4, <1>5, <1>6

\* The buffers hold the latest samples recorded, without a gap, for every block
\* size: no chunk is dropped for want of room and none is overwritten.
THEOREM NoSampleLost == Spec => []NothingLost
<1> DEFINE Inv == Latest(Inside, next)
<1>1. Init => Inv
  <2> SUFFICES ASSUME Init PROVE Inv
    OBVIOUS
  <2>1. Inside = <<>> BY MixInit DEF Fifo!Init
  <2> QED BY <2>1 DEF Latest
<1>2. MixInv /\ Inv /\ [Next]_vars => Inv'
  <2> SUFFICES ASSUME MixInv, Inv, [Next]_vars PROVE Inv'
    OBVIOUS
  <2>1. ASSUME NEW n \in Chunks, AddProcessData(n) PROVE Inv'
    <3>1. Inside' = Inside \o Recorded(n) BY <2>1, AddStep
    <3>2. next' = (next + n) % Numbers BY <2>1 DEF AddProcessData
    <3>3. n \in Nat /\ Inside \in Seq(Sample) /\ next \in Sample
      BY InvFacts DEF Chunks, MixInv
    <3>4. Latest(Inside \o Recorded(n), (next + n) % Numbers) BY <3>3, LatestGrows
    <3> QED BY <3>1, <3>2, <3>4
  <2>2. CASE GetProcessData
    <3>1. Inside = heard' \o Inside' /\ next' = next
      BY <2>2, GetStep DEF Fifo!Take, GetProcessData
    <3>2. MixInv' BY <2>2, GetStep
    <3>3. heard' \in Seq(Sample) /\ Inside' \in Seq(Sample)
      <4>1. (MixInv => Inside \in Seq(Sample))' BY InsideTyped, PTL
      <4> QED BY <3>2, <4>1 DEF MixInv
    <3> QED BY <3>1, <3>3, LatestShrinks
  <2>3. CASE GetNothing \/ UNCHANGED vars
    BY <2>3 DEF GetNothing, vars, Inside
  <2> QED BY <2>1, <2>2, <2>3 DEF Next
<1>3. MixInv /\ Inv => NothingLost BY LatestIsNothingLost
<1> QED BY <1>1, <1>2, <1>3, MixerInvariant, PTL DEF Spec
=============================================================================

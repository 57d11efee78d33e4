---------------------------- MODULE CircularBuffer ----------------------------
(***************************************************************************)
(* CircularBuffer<T> as operators on a record: a storage of fixed          *)
(* capacity, the index of the oldest sample, the index after the newest    *)
(* one, and the number of samples, which tells a full buffer from an empty *)
(* one when the two indices are equal.                                     *)
(***************************************************************************)
EXTENDS Naturals, Sequences

Buffers(cap, S) ==
    [cap : {cap}, begIndex : 0 .. cap - 1, endIndex : 0 .. cap - 1,
     size : 0 .. cap, data : [0 .. cap - 1 -> S]]

\* The storage starts uninitialised: junk is what happens to be there.
NewBuffer(cap, junk) ==
    [cap |-> cap, begIndex |-> 0, endIndex |-> 0, size |-> 0,
     data |-> [i \in 0 .. cap - 1 |-> junk]]

WriteSizeRemaining(b) == b.cap - b.size
ReadSizeRemaining(b) == b.size

\* Mutant: an index that reaches the end stays there.
Advance_NoWrap(b, index, n) ==
    IF n <= b.cap - index THEN index + n ELSE n - (b.cap - index)

\* An index that has gone n places on, and is taken back to the start when it
\* reaches the end of the storage or passes it.
Advance(b, index, n) ==
    IF n <= b.cap - index
    THEN IF index + n = b.cap THEN 0 ELSE index + n
    ELSE n - (b.cap - index)

\* Mutant: what does not fit before the end is not copied.
Copied_ToTheEnd(b, s, n) ==
    [i \in 0 .. b.cap - 1 |->
        IF i >= b.endIndex /\ i - b.endIndex < n THEN s[i - b.endIndex + 1] ELSE b.data[i]]

\* The first n samples of s copied to the storage from endIndex on, those that do
\* not fit before its end to its start.
Copied(b, s, n) ==
    LET size1 == b.cap - b.endIndex
    IN  [i \in 0 .. b.cap - 1 |->
            CASE i >= b.endIndex /\ i - b.endIndex < n -> s[i - b.endIndex + 1]
              [] i < b.endIndex /\ i + size1 < n -> s[i + size1 + 1]
              [] OTHER -> b.data[i]]

\* write takes what there is room for and drops the rest.
WriteCount(b, s) ==
    IF Len(s) <= WriteSizeRemaining(b) THEN Len(s) ELSE WriteSizeRemaining(b)

Write(b, s) ==
    LET n == WriteCount(b, s)
    IN  [b EXCEPT !.size = @ + n, !.data = Copied(b, s, n),
                  !.endIndex = Advance(b, @, n)]

ReadCount(b, samples) == IF samples >= b.size THEN b.size ELSE samples

\* What read copies out: to the end of the storage, and on from its start.
ReadData(b, samples) ==
    [i \in 1 .. ReadCount(b, samples) |->
        IF i <= b.cap - b.begIndex THEN b.data[b.begIndex + i - 1]
                                   ELSE b.data[i - 1 - (b.cap - b.begIndex)]]

\* Mutant: an index that passes the end goes back to the start, not past it.
Read_RestForgotten(b, samples) ==
    LET n == ReadCount(b, samples)
    IN  [b EXCEPT !.size = @ - n, !.begIndex = IF @ + n >= b.cap THEN 0 ELSE @ + n]

Read(b, samples) ==
    LET n == ReadCount(b, samples)
    IN  [b EXCEPT !.size = @ - n, !.begIndex = Advance(b, @, n)]
=============================================================================

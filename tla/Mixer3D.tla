------------------------------- MODULE Mixer3D -------------------------------
(***************************************************************************)
(* Mixer3D, which places a voice in space with a filter that works on      *)
(* blocks of nFFT samples: a circular buffer collects the recorded chunks  *)
(* until there is a block, a second one holds the filtered blocks until    *)
(* they are asked for in chunks again.  Both calls hold m_lock throughout. *)
(*                                                                         *)
(* It is used as the recording callback in unittest/                       *)
(* audio_device_example.cpp uses it: one AddProcessData for the recorded   *)
(* chunk, then GetProcessData with the chunk's size until it gives nothing.*)
(*                                                                         *)
(* A sample stands for its place in the recording, counted modulo Numbers; *)
(* filtering changes what it sounds like and not its place.                *)
(***************************************************************************)
EXTENDS CircularBuffer

CONSTANTS
    nFFT,    \* samples of a block
    Numbers  \* bound: samples are numbered modulo this

ASSUME MixerAssumption ==
    /\ nFFT \in Nat \ {0}
    /\ Numbers \in Nat \ {0}

VARIABLES
    in,      \* m_audio_buffer_in
    out,     \* m_audio_buffer_out
    next,    \* number of the next sample to be recorded
    chunk,   \* size of the chunk whose callback is running, 0 when none is
    heard    \* what the last call of GetProcessData delivered

vars == <<in, out, next, chunk, heard>>

Sample == 0 .. Numbers - 1

\* The devices record chunks of at most a block.
Chunks == 1 .. nFFT

TypeOK ==
    /\ in \in Buffers(2 * nFFT, Sample)
    /\ out \in Buffers(2 * nFFT, Sample)
    /\ next \in Sample
    /\ chunk \in 0 .. nFFT
    /\ heard \in Seq(Sample)

Init ==
    /\ in = NewBuffer(2 * nFFT, 0)
    /\ out = NewBuffer(2 * nFFT, 0)
    /\ next = 0
    /\ chunk = 0
    /\ heard = <<>>

Recorded(n) == [i \in 1 .. n |-> (next + i - 1) % Numbers]

\* A chunk that does not fit is dropped as a whole.
Collected(n) == IF WriteSizeRemaining(in) >= n THEN Write(in, Recorded(n)) ELSE in

AddProcessData(n) ==
    /\ chunk = 0
    /\ chunk' = n
    /\ next' = (next + n) % Numbers
    /\ LET b == Collected(n)
       IN  IF ReadSizeRemaining(b) < nFFT
           THEN in' = b /\ out' = out
           ELSE in' = Read(b, nFFT) /\ out' = Write(out, ReadData(b, nFFT))
    /\ heard' = <<>>

\* Mutant: the caller takes one chunk for each it has recorded.
GetProcessData_Once ==
    /\ chunk # 0
    /\ chunk <= ReadSizeRemaining(out)
    /\ heard' = ReadData(out, chunk)
    /\ out' = Read(out, chunk)
    /\ chunk' = 0
    /\ UNCHANGED <<in, next>>

\* Mutant: a build without assertions, which leaves out the read they contain.
GetProcessData_NoAssert ==
    /\ chunk # 0
    /\ chunk <= ReadSizeRemaining(out)
    /\ heard' = <<>>
    /\ UNCHANGED <<in, out, next, chunk>>

GetProcessData ==
    /\ chunk # 0
    /\ chunk <= ReadSizeRemaining(out)
    /\ heard' = ReadData(out, chunk)
    /\ out' = Read(out, chunk)
    /\ UNCHANGED <<in, next, chunk>>

\* Nothing more to get: the callback returns.
GetNothing ==
    /\ chunk # 0
    /\ chunk > ReadSizeRemaining(out)
    /\ chunk' = 0
    /\ heard' = <<>>
    /\ UNCHANGED <<in, out, next>>

Next ==
    \/ \E n \in Chunks : AddProcessData(n)
    \/ GetProcessData
    \/ GetNothing

Spec == Init /\ [][Next]_vars

\* The device goes on recording and its callback goes on running.
FairSpec == Spec /\ WF_vars(Next)

-----------------------------------------------------------------------------
(* Properties *)

\* When a chunk can be recorded there is room for it, and in the second buffer
\* for a whole block: the assertion of AddProcessData before it writes the block
\* holds and its error branch is never taken, whatever chunks came before.
RoomForNext ==
    chunk = 0 => /\ WriteSizeRemaining(in) >= nFFT
                 /\ WriteSizeRemaining(out) >= nFFT

\* What the two buffers hold, from the oldest sample on.
Inside == ReadData(out, out.size) \o ReadData(in, in.size)

\* They hold the latest samples recorded, without a gap: no chunk is dropped for
\* want of room, and none is overwritten.
NothingLost ==
    \A i \in 1 .. Len(Inside) :
        (Inside[i] + Len(Inside) + 1 - i) % Numbers = next

\* The two buffers and their wrapped-around indices are one queue: what is
\* recorded is heard once and in order, on its way from chunks to blocks and back.
Fifo == INSTANCE BoundedFifo WITH
    Limit <- 3 * nFFT, queue <- Inside, got <- heard
ImplementsFifo == Fifo!Spec

\* Sound never stops to come out, whatever sizes the chunks have: no rest of a
\* block can make the two buffers wait for each other.
SoundFlows == []<>(heard # <<>>)
=============================================================================

----------------------------- MODULE TcpWriteQueue -----------------------------
(***************************************************************************)
(* The queue of buffers to be written of one TcpSocketImpl: AsyncWrite is  *)
(* called from any thread, the completion handlers run on the thread of    *)
(* the io_context, and both take the mutex only to change the queue and    *)
(* start the write they have decided on after they have given it back.     *)
(***************************************************************************)
EXTENDS Naturals, Sequences

CONSTANTS
    Writers,  \* the threads that call AsyncWrite
    Buffers   \* bound: how many buffers are written, numbered in order

VARIABLES
    buffers,   \* _buffers
    writing,   \* _writing
    bc,        \* what each thread is about to start writing, 0 for nothing
    inFlight,  \* how many async_write operations of each buffer are under way
    called     \* calls of AsyncWrite

vars == <<buffers, writing, bc, inFlight, called>>

Threads == Writers \cup {"io"}

TypeOK ==
    /\ buffers \in Seq(1 .. Buffers)
    /\ writing \in BOOLEAN
    /\ bc \in [Threads -> 0 .. Buffers]
    /\ inFlight \in [1 .. Buffers -> Nat]
    /\ called \in 0 .. Buffers

Init ==
    /\ buffers = <<>>
    /\ writing = FALSE
    /\ bc = [t \in Threads |-> 0]
    /\ inFlight = [b \in 1 .. Buffers |-> 0]
    /\ called = 0

\* Under the mutex.  The buffer goes to the end of the queue; when nothing is being
\* written the first one is taken out, otherwise bc still holds the new buffer.
AsyncWrite(t) ==
    /\ called < Buffers
    /\ bc[t] = 0
    /\ called' = called + 1
    /\ LET all == Append(buffers, called')
       IN  IF writing
           THEN bc' = [bc EXCEPT ![t] = called'] /\ buffers' = all
           ELSE bc' = [bc EXCEPT ![t] = Head(all)] /\ buffers' = Tail(all)
    /\ writing' = TRUE
    /\ UNCHANGED inFlight

DoAsyncWrite(t) ==
    /\ bc[t] # 0
    /\ inFlight' = [inFlight EXCEPT ![bc[t]] = @ + 1]
    /\ bc' = [bc EXCEPT ![t] = 0]
    /\ UNCHANGED <<buffers, writing, called>>

\* A write ends, well or in error: the next buffer is taken out of the queue.
WriteCompleted(b) ==
    /\ inFlight[b] > 0
    /\ bc["io"] = 0
    /\ inFlight' = [inFlight EXCEPT ![b] = @ - 1]
    /\ IF buffers # <<>>
       THEN /\ bc' = [bc EXCEPT !["io"] = Head(buffers)]
            /\ buffers' = Tail(buffers)
            /\ writing' = writing
       ELSE /\ writing' = FALSE
            /\ UNCHANGED <<bc, buffers>>
    /\ UNCHANGED called

Next ==
    \/ \E t \in Writers : AsyncWrite(t)
    \/ \E t \in Threads : DoAsyncWrite(t)
    \/ \E b \in 1 .. Buffers : WriteCompleted(b)

Spec == Init /\ [][Next]_vars

-----------------------------------------------------------------------------
(* Properties *)

\* Write takes _writing for the sign that an asynchronous write is not finished
\* and a synchronous one must not be done: while it is clear, none is under way.
ClearMeansIdle == ~writing => \A b \in 1 .. Buffers : inFlight[b] = 0
=============================================================================

----------------------------- MODULE BoundedFifo -----------------------------
(***************************************************************************)
(* What the 3D mixer promises to the recording callback that uses it: what *)
(* is put in comes out again, all of it, once and in order, and no more    *)
(* than Limit samples are on their way.                                    *)
(***************************************************************************)
EXTENDS Naturals, Sequences

CONSTANT
    Limit  \* how many can be inside

VARIABLES
    queue,  \* the samples inside, the oldest first
    got     \* what the last call has taken out

vars == <<queue, got>>

Init == queue = <<>> /\ got = <<>>

Put ==
    /\ \E n \in 0 .. Len(queue') : queue = SubSeq(queue', 1, n)
    /\ Len(queue') <= Limit
    /\ got' = <<>>

Take ==
    /\ queue = got' \o queue'
    /\ got' # <<>>

Next == Put \/ Take

Spec == Init /\ [][Next]_vars
=============================================================================

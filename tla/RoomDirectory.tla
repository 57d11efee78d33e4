---------------------------- MODULE RoomDirectory ----------------------------
(***************************************************************************)
(* What a room promises to those who look at its list of members: every    *)
(* login is answered with a token of its own, a name in the list stands    *)
(* for the latest login under it that has entered, every token enters once *)
(* at most and only after it was handed out, and names go one at a time.   *)
(* RoomServer implements it, as long as nobody updates his member.         *)
(***************************************************************************)
EXTENDS Naturals

CONSTANT Uids

VARIABLES
  last,     \* the last token handed out
  answered, \* logins that have their token and have not entered yet
  present   \* the list: the token under each name, 0 when there is none

vars == <<last, answered, present>>

Logins == [uid : Uids, tok : Nat]

Init ==
  /\ last = 0
  /\ answered = {}
  /\ present = [u \in Uids |-> 0]

\* The list without the name u.
Without(u) == [present EXCEPT ![u] = 0]

\* A login is answered.  Whoever changes his name gives up the old one first.
Answer(u) ==
  /\ last' = last + 1
  /\ answered' = answered \cup {[uid |-> u, tok |-> last']}
  /\ \/ UNCHANGED present
     \/ \E old \in Uids : present' = Without(old)

\* It enters, in the place of an older login under the same name if need be.
Enter(p) ==
  /\ present[p.uid] < p.tok
  /\ present' = [present EXCEPT ![p.uid] = p.tok]
  /\ answered' = answered \ {p}
  /\ UNCHANGED last

\* It never will.
Forget(p) ==
  /\ answered' = answered \ {p}
  /\ UNCHANGED <<last, present>>

Leave(u) ==
  /\ present' = Without(u)
  /\ UNCHANGED <<last, answered>>

Next ==
  \/ \E u \in Uids : Answer(u) \/ Leave(u)
  \/ \E p \in answered : Enter(p) \/ Forget(p)

Spec == Init /\ [][Next]_vars
=============================================================================

---------------------------- MODULE MCRoomServer ----------------------------
(* Small instances of the room server for TLC. *)
EXTENDS RoomServer, TLC

CONSTANTS c1, c2, c3, A, B

\* Connections and user ids are interchangeable.
Symmetry == Permutations(Conns) \cup Permutations(Uids)
=============================================================================

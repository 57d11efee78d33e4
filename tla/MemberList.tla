----------------------------- MODULE MemberList -----------------------------
(***************************************************************************)
(* The table of the users of one room (class MemberList,                   *)
(* real_audio_server/user_list.cpp; the client SDK compiles a near copy of *)
(* it).  The class keeps two std::maps, _users (user id -> member) and     *)
(* _tokens (token -> user id).  Here a list is a record of two total       *)
(* functions in which a missing key is NoToken or NoUid, and a member is   *)
(* represented by its token: the user id is the key it is stored under,    *)
(* the extension, device type and state are data no property looks at.     *)
(*                                                                         *)
(* The operators are the bodies the class runs under its lock.  Remove by  *)
(* token leaves the token in _tokens, so a token that has been removed     *)
(* still finds whoever has its user id now: that is how the code behaves,  *)
(* and much of the difficulty of the room server comes from it.            *)
(***************************************************************************)
EXTENDS Naturals

CONSTANTS
  Uids,     \* user ids
  NoUid,    \* "no such token" in _tokens
  MaxToken  \* largest token the generator hands out in a behaviour

ASSUME NoUidAssumption == NoUid \notin Uids
ASSUME MaxTokenAssumption == MaxToken \in Nat

NoToken == 0
Tokens == 1 .. MaxToken

MemberLists == [users : [Uids -> Tokens \cup {NoToken}],
                tokens : [Tokens -> Uids \cup {NoUid}]]

NoMembers == [users |-> [u \in Uids |-> NoToken],
              tokens |-> [t \in Tokens |-> NoUid]]

\* GetMember(token), FindMember(token): the token of the member found by way
\* of the user id that t was once given to, NoToken if there is none.
GetMember(list, t) ==
  IF t \in Tokens /\ list.tokens[t] \in Uids
    THEN list.users[list.tokens[t]]
    ELSE NoToken

\* Add(ptr): overwrites a member of the same user id.
Add(list, u, t) ==
  [users |-> [list.users EXCEPT ![u] = t],
   tokens |-> [list.tokens EXCEPT ![t] = u]]

\* Mutant: the entry is overwritten with the null of the other map.
Remove_WrongNull(list, t) ==
  IF GetMember(list, t) = NoToken
    THEN list
    ELSE [list EXCEPT !.users = [@ EXCEPT ![list.tokens[t]] = NoUid]]

\* Remove(token): erases the member of the token's user id, keeps the token.
Remove(list, t) ==
  IF GetMember(list, t) = NoToken
    THEN list
    ELSE [list EXCEPT !.users = [@ EXCEPT ![list.tokens[t]] = NoToken]]

\* UpdateList(users): forgets everything, then adds the given members.
UpdateList(users) ==
  [users |-> users,
   tokens |-> [t \in Tokens |->
                 IF \E u \in Uids : users[u] = t
                   THEN CHOOSE u \in Uids : users[u] = t
                   ELSE NoUid]]
=============================================================================

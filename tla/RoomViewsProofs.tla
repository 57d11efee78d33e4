--------------------------- MODULE RoomViewsProofs ---------------------------
(***************************************************************************)
(* Proof that no client of a room misses a member (NoMissedMember), for    *)
(* any number of connections, user ids, packets and tokens, as long as no  *)
(* client updates its extension or its state.                              *)
(*                                                                         *)
(* A client knows the list it was sent with the answer to its login and    *)
(* the logins and logouts it was told of since.  A logout names a token,   *)
(* which the server and the client each turn into a user id by a table of  *)
(* their own: the argument is that the two tables agree on every token the *)
(* client has heard of, and that whoever was announced as gone is gone, or *)
(* a half-done LeaveMember at the head of a queue is about to remove it.   *)
(***************************************************************************)
EXTENDS RoomDirectoryProofs

USE DEF vars, connVars, clientVars, roomVars

\* Thread t is between the two halves of LeaveMember.
LeaveHead(t) == queue[t] # <<>> /\ Head(queue[t]).kind = "leave"

\* A token leads to a user id only after it was handed out and has entered.
TokensIssued == \A t \in Tokens : members.tokens[t] \in Uids => t <= issued
JoinsUnknown ==
  \A t \in Threads : JoinHead(t) => members.tokens[Head(queue[t]).tok] = NoUid

\* The room there is now does not know the clients of an earlier one.
OrphansUnknown ==
  \A c \in orphans : /\ conn[c] = "client" /\ c \notin cache
                     /\ token[c] \in Tokens => members.tokens[token[c]] = NoUid

\* Only clients leave.
LeavesAdmitted ==
  \A t \in Threads : \A i \in 1 .. Len(queue[t]) :
    queue[t][i].kind = "leave" => conn[queue[t][i].c] = "client"

\* The clients that are half-way in: they have their list, but are not told
\* anything yet.
Entering == {c \in cache : \E t \in Threads : JoinHead(t) /\ Head(queue[t]).c = c}

\* A token leads client d to the name it leads the room to.
Agrees(d) ==
  \A t \in Tokens : view[d].tokens[t] \in Uids \ {uid[d]}
                      => members.tokens[t] = view[d].tokens[t]

\* The member u is about to be removed.
GoingName(u) ==
  \E t \in Threads : LeaveHead(t) /\ token[Head(queue[t]).c] \in Tokens
                       /\ members.tokens[token[Head(queue[t]).c]] = u

\* Client d has been told of every member that stays.
IsTold(d) ==
  \A u \in Uids \ {uid[d]} :
    members.users[u] \in {NoToken, view[d].users[u]} \/ GoingName(u)

EveryoneTold == \A d \in clients \cup Entering : Agrees(d) /\ IsTold(d)

ViewsInv == /\ DirectoryInv
            /\ TokensIssued /\ JoinsUnknown /\ OrphansUnknown /\ LeavesAdmitted
            /\ EveryoneTold

-----------------------------------------------------------------------------
(* The member lists *)

\* Removing a token removes the name it leads to, and that name only.
LEMMA RemoveNames ==
  ASSUME NEW list \in MemberLists, NEW t
  PROVE  /\ Remove(list, t).tokens = list.tokens
         /\ \A u \in Uids : \/ Remove(list, t).users[u] = list.users[u]
                            \/ t \in Tokens /\ list.tokens[t] = u
         /\ \A u \in Uids : Remove(list, t).users[u] \in {NoToken, list.users[u]}
         /\ t \in Tokens => \A u \in Uids : list.tokens[t] = u =>
                                Remove(list, t).users[u] = NoToken
<1>1. CASE GetMember(list, t) = NoToken
  BY <1>1 DEF Remove, GetMember
<1>2. CASE GetMember(list, t) # NoToken
  <2>1. t \in Tokens /\ list.tokens[t] \in Uids BY <1>2 DEF GetMember
  <2>2. Remove(list, t) =
          [list EXCEPT !.users = [list.users EXCEPT ![list.tokens[t]] = NoToken]]
    BY <1>2 DEF Remove
  <2>3. /\ Remove(list, t).tokens = list.tokens
        /\ Remove(list, t).users = [list.users EXCEPT ![list.tokens[t]] = NoToken]
    BY <2>2 DEF MemberLists
  <2>4. list.users \in [Uids -> Tokens \cup {NoToken}] BY DEF MemberLists
  <2> QED BY <2>1, <2>3, <2>4
<1> QED BY <1>1, <1>2

LEMMA AddNames ==
  ASSUME NEW list \in MemberLists, NEW v \in Uids, NEW t \in Tokens
  PROVE  /\ \A s \in Tokens : Add(list, v, t).tokens[s] = IF s = t THEN v ELSE list.tokens[s]
         /\ \A u \in Uids : Add(list, v, t).users[u] = IF u = v THEN t ELSE list.users[u]
BY DEF Add, MemberLists

\* The list a client is sent with the answer to its login agrees with the table
\* it was made from, and misses nobody.
LEMMA SnapshotTold ==
  ASSUME NEW d \in Conns, NEW t \in Tokens, members' \in MemberLists, TokensFound',
         uid'[d] \in Uids, view'[d] = Snapshot(members'.users, uid'[d], t)
  PROVE  Agrees(d)' /\ IsTold(d)'
<1> DEFINE users == members'.users
           v == uid'[d]
<1>1. users \in [Uids -> Tokens \cup {NoToken}] BY DEF MemberLists
<1>2. UpdateList(users) \in MemberLists BY <1>1, UpdateListType
<1>3. UpdateList(users).users = users BY DEF UpdateList
<1>4. ASSUME NEW s \in Tokens, UpdateList(users).tokens[s] \in Uids
      PROVE  members'.tokens[s] = UpdateList(users).tokens[s]
  <2> DEFINE w == UpdateList(users).tokens[s]
  <2>1. UpdateList(users).tokens[s] = IF \E u \in Uids : users[u] = s
                                        THEN CHOOSE u \in Uids : users[u] = s
                                        ELSE NoUid
    BY DEF UpdateList
  <2>2. w \in Uids /\ users[w] = s BY <1>4, <2>1, NoUidAssumption
  <2>3. s # NoToken BY DEF Tokens, NoToken
  <2> QED BY <2>2, <2>3 DEF TokensFound
<1>5. /\ \A s \in Tokens : view'[d].tokens[s] =
                             IF s = t THEN v ELSE UpdateList(users).tokens[s]
      /\ \A u \in Uids : view'[d].users[u] = IF u = v THEN t ELSE users[u]
  BY <1>2, <1>3, AddNames DEF Snapshot
<1>6. Agrees(d)' BY <1>4, <1>5 DEF Agrees
<1>7. IsTold(d)' BY <1>5 DEF IsTold
<1> QED BY <1>6, <1>7

\* A client that was told that token t is gone, or was told nothing, still knows
\* who stays, when the member t leads to is removed or is about to be.
LEMMA StillTold ==
  ASSUME TypeOK, NEW d \in Conns, NEW t, Agrees(d), IsTold(d), uid'[d] = uid[d],
         view'[d] \in {view[d], Remove(view[d], t)},
         members'.tokens = members.tokens,
         \A u \in Uids : members'.users[u] \in {NoToken, members.users[u]},
         \A u \in Uids : GoingName(u) => members'.users[u] = NoToken \/ GoingName(u)',
         view'[d] # view[d] /\ t \in Tokens =>
           \A u \in Uids : members.tokens[t] = u =>
             members'.users[u] = NoToken \/ GoingName(u)'
  PROVE  Agrees(d)' /\ IsTold(d)'
<1>1. view[d] \in MemberLists BY DEF TypeOK
<1>2. view'[d].tokens = view[d].tokens BY <1>1, RemoveNames
<1>3. Agrees(d)' BY <1>2 DEF Agrees
<1>4. ASSUME NEW u \in Uids \ {uid[d]}, members'.users[u] # NoToken, ~GoingName(u)'
      PROVE  members'.users[u] = view'[d].users[u]
  <2>1. members'.users[u] = members.users[u] /\ ~GoingName(u) BY <1>4
  <2>2. members.users[u] = view[d].users[u] BY <1>4, <2>1 DEF IsTold
  <2>3. CASE view'[d].users[u] = view[d].users[u] BY <2>1, <2>2, <2>3
  <2>4. CASE view'[d].users[u] # view[d].users[u]
    <3>1. view'[d] # view[d] /\ view'[d] = Remove(view[d], t) BY <2>4
    <3>2. t \in Tokens /\ view[d].tokens[t] = u BY <1>1, <2>4, <3>1, RemoveNames
    <3>3. members.tokens[t] = u BY <3>2 DEF Agrees
    <3> QED BY <1>4, <3>1, <3>2, <3>3
  <2> QED BY <2>3, <2>4
<1> QED BY <1>3, <1>4 DEF IsTold

-----------------------------------------------------------------------------
(* The heads of the queues *)

\* A half-done LeaveMember stays at the head of its queue, with the token of its
\* client, unless the step is its second half or gives a client of X a new token.
LEMMA GoingStays ==
  ASSUME NEW t \in Threads, \A s \in Threads \ {t} : queue'[s] = queue[s],
         NEW X, LeaveHead(t) => Head(queue[t]).c \in X,
         \A s \in Threads : LeaveHead(s) => \/ token'[Head(queue[s]).c] = token[Head(queue[s]).c]
                                            \/ Head(queue[s]).c \in X,
         members'.tokens = members.tokens,
         NEW u \in Uids, GoingName(u)
  PROVE  GoingName(u)' \/ \E x \in X : token[x] \in Tokens /\ members.tokens[token[x]] = u
<1>1. PICK s \in Threads : /\ LeaveHead(s) /\ token[Head(queue[s]).c] \in Tokens
                           /\ members.tokens[token[Head(queue[s]).c]] = u
  BY DEF GoingName
<1>2. CASE Head(queue[s]).c \in X BY <1>1, <1>2
<1>3. CASE Head(queue[s]).c \notin X
  <2>1. s # t /\ queue'[s] = queue[s] BY <1>1, <1>3
  <2>2. token'[Head(queue[s]).c] = token[Head(queue[s]).c] BY <1>1, <1>3
  <2> QED BY <1>1, <2>1, <2>2 DEF GoingName, LeaveHead
<1> QED BY <1>2, <1>3

\* The other queues stay as they are when a task is done or replaced.
LEMMA OthersStay ==
  ASSUME TypeOK, NEW t \in Threads, queue' = Done(t) \/ \E k : queue' = GoOn(t, k)
  PROVE  \A s \in Threads \ {t} : queue'[s] = queue[s]
BY DEF TypeOK, Done, GoOn

\* The first task of a queue to which one is appended.
LEMMA AppendFirst ==
  ASSUME NEW q \in [Threads -> Seq(Tasks)], NEW t \in Threads, NEW k \in Tasks,
         queue' = [q EXCEPT ![t] = Append(@, k)], NEW s \in Threads, q[s] # <<>>
  PROVE  queue'[s] # <<>> /\ Head(queue'[s]) = Head(q[s])
<1>1. q[s] \in Seq(Tasks) OBVIOUS
<1>2. CASE s = t
  <2>1. queue'[s] = Append(q[s], k) BY <1>2
  <2> QED BY <1>1, <2>1
<1>3. CASE s # t BY <1>3
<1> QED BY <1>2, <1>3
-----------------------------------------------------------------------------
(* The tables of tokens, in every step that adds no member *)

LEMMA TokensKept ==
  ASSUME ViewsInv, ListsStep,
         members'.tokens = members.tokens, issued' \in {issued, issued + 1},
         orphans' = orphans,
         \A c \in Conns : token'[c] \in {token[c], NoToken, issued + 1},
         \A s \in Threads : JoinHead(s)' =>
           \/ JoinHead(s) /\ Head(queue'[s]) = Head(queue[s])
           \/ Head(queue'[s]).tok = issued + 1 /\ issued + 1 \in Tokens
  PROVE  TokensIssued' /\ JoinsUnknown' /\ OrphansUnknown'
<1>1. TypeOK BY DEF ViewsInv, DirectoryInv, MembersInv
<1>2. issued \in Nat /\ members.tokens \in [Tokens -> Uids \cup {NoUid}]
  BY <1>1, MaxTokenAssumption DEF TypeOK, MemberLists
<1>3. Tokens \subseteq Nat /\ NoToken \notin Tokens BY DEF Tokens, NoToken
<1>4. TokensIssued' BY <1>2, <1>3 DEF ViewsInv, TokensIssued
<1>5. issued + 1 \in Tokens => members.tokens[issued + 1] = NoUid
  BY <1>2, <1>3 DEF ViewsInv, TokensIssued
<1>6. JoinsUnknown' BY <1>5 DEF ViewsInv, JoinsUnknown
<1>7. ASSUME NEW c \in orphans
      PROVE  /\ conn'[c] = "client" /\ c \notin cache'
             /\ token'[c] \in Tokens => members.tokens[token'[c]] = NoUid
  <2>1. /\ c \in Conns /\ conn[c] = "client" /\ c \notin cache
        /\ token[c] \in Tokens => members.tokens[token[c]] = NoUid
    BY <1>1, <1>7 DEF TypeOK, ViewsInv, OrphansUnknown
  <2>2. conn'[c] = "client" /\ c \notin cache' BY <2>1 DEF ListsStep
  <2> QED BY <1>3, <1>5, <2>1, <2>2
<1>8. OrphansUnknown' BY <1>7 DEF OrphansUnknown
<1> QED BY <1>4, <1>6, <1>8

\* Where the tasks in the queues come from.
Queued(k) == \E s \in Threads : \E i \in 1 .. Len(queue[s]) : queue[s][i] = k

LEMMA DoneQueued ==
  ASSUME TypeOK, NEW t \in Threads, queue[t] # <<>>,
         NEW s \in Threads, NEW i \in 1 .. Len(Done(t)[s])
  PROVE  Queued(Done(t)[s][i])
<1>1. \E j \in 1 .. Len(queue[s]) : Done(t)[s][i] = queue[s][j] BY DoneTasks
<1> QED BY <1>1 DEF Queued

LEMMA GoOnQueued ==
  ASSUME TypeOK, NEW t \in Threads, queue[t] # <<>>, NEW k \in Tasks,
         NEW s \in Threads, NEW i \in 1 .. Len(GoOn(t, k)[s])
  PROVE  Queued(GoOn(t, k)[s][i]) \/ GoOn(t, k)[s][i] = k
<1>1. /\ i \in 1 .. Len(queue[s])
      /\ GoOn(t, k)[s][i] = IF s = t /\ i = 1 THEN k ELSE queue[s][i]
  BY GoOnTasks
<1> QED BY <1>1 DEF Queued

LEMMA AppendQueued ==
  ASSUME NEW q \in [Threads -> Seq(Tasks)], NEW t \in Threads, NEW k \in Tasks,
         \A s \in Threads : \A i \in 1 .. Len(q[s]) : Queued(q[s][i]),
         NEW r, r = [q EXCEPT ![t] = Append(@, k)],
         NEW s \in Threads, NEW i \in 1 .. Len(r[s])
  PROVE  Queued(r[s][i]) \/ r[s][i] = k
<1>1. q[s] \in Seq(Tasks) OBVIOUS
<1>2. CASE i \in 1 .. Len(q[s])
  <2>1. r[s][i] = q[s][i] BY <1>1, <1>2
  <2> QED BY <1>2, <2>1
<1>3. CASE i \notin 1 .. Len(q[s])
  <2>1. s = t BY <1>3
  <2>2. r[s][i] = k BY <1>1, <1>3, <2>1
  <2> QED BY <2>2
<1> QED BY <1>2, <1>3

LEMMA LeavesKept ==
  ASSUME TypeOK, LeavesAdmitted, ListsStep,
         \A s \in Threads : \A i \in 1 .. Len(queue'[s]) :
           \/ Queued(queue'[s][i])
           \/ queue'[s][i].kind = "leave" => conn'[queue'[s][i].c] = "client"
  PROVE  LeavesAdmitted'
<1> SUFFICES ASSUME NEW s \in Threads, NEW i \in 1 .. Len(queue'[s]),
                    Queued(queue'[s][i]), queue'[s][i].kind = "leave"
             PROVE  conn'[queue'[s][i].c] = "client"
  BY DEF LeavesAdmitted
<1>1. PICK r \in Threads : \E j \in 1 .. Len(queue[r]) : queue[r][j] = queue'[s][i]
  BY DEF Queued
<1>2. PICK j \in 1 .. Len(queue[r]) : queue[r][j] = queue'[s][i] BY <1>1
<1>3. queue[r] \in Seq(Tasks) BY DEF TypeOK
<1>4. queue[r][j] \in Tasks BY <1>3
<1>5. queue[r][j].c \in Conns BY <1>4 DEF Tasks
<1>6. conn[queue[r][j].c] = "client" BY <1>2 DEF LeavesAdmitted
<1> QED BY <1>2, <1>5, <1>6 DEF ListsStep

-----------------------------------------------------------------------------
(* Steps that change no list of members and tell nobody anything *)

Still ==
  /\ UNCHANGED <<view, members, clients, token, uid, issued, orphans>>
  /\ \A s \in Threads : JoinHead(s)' => JoinHead(s) /\ Head(queue'[s]) = Head(queue[s])
  /\ \A s \in Threads : LeaveHead(s) /\ Head(queue[s]).c \notin orphans
                          => LeaveHead(s)' /\ Head(queue'[s]) = Head(queue[s])

\* Nobody new is half-way in.
LEMMA EnteringLess ==
  ASSUME ViewsInv, ListsStep,
         \A s \in Threads : JoinHead(s)' => JoinHead(s) /\ Head(queue'[s]) = Head(queue[s])
  PROVE  Entering' \subseteq Entering
<1> SUFFICES ASSUME NEW c \in cache', NEW s \in Threads, JoinHead(s)', Head(queue'[s]).c = c
             PROVE  c \in Entering
  BY DEF Entering
<1>1. JoinHead(s) /\ Head(queue[s]).c = c OBVIOUS
<1>2. conn[c] = "client"
  BY <1>1, JoinHeadSound DEF ViewsInv, DirectoryInv
<1>3. c \in cache BY <1>2 DEF ListsStep
<1> QED BY <1>1, <1>3 DEF Entering

LEMMA StillKeeps ==
  ASSUME ViewsInv, DirectoryInv', ListsStep, Still, LeavesAdmitted'
  PROVE  ViewsInv'
<1>1. TypeOK BY DEF ViewsInv, DirectoryInv, MembersInv
<1>2. TokensIssued' /\ JoinsUnknown' /\ OrphansUnknown' BY TokensKept DEF Still
<1>3. Entering' \subseteq Entering BY EnteringLess DEF Still
<1>4. ASSUME NEW u \in Uids, GoingName(u) PROVE GoingName(u)'
  <2>1. PICK s \in Threads : /\ LeaveHead(s) /\ token[Head(queue[s]).c] \in Tokens
                             /\ members.tokens[token[Head(queue[s]).c]] = u
    BY <1>4 DEF GoingName
  <2>2. Head(queue[s]).c \notin orphans
    BY <2>1, NoUidAssumption DEF ViewsInv, OrphansUnknown
  <2> QED BY <2>1, <2>2 DEF Still, GoingName
<1>5. ASSUME NEW d \in clients \cup Entering PROVE Agrees(d)' /\ IsTold(d)'
  <2>1. Agrees(d) /\ IsTold(d) BY DEF ViewsInv, EveryoneTold
  <2> QED BY <1>4, <2>1 DEF Still, Agrees, IsTold
<1>6. EveryoneTold' BY <1>3, <1>5 DEF EveryoneTold, Still
<1> QED BY <1>2, <1>6 DEF ViewsInv

\* A task other than the second half of LeaveMember, or one of a client that has
\* outlived its room, is done.
LEMMA DoneStill ==
  ASSUME ViewsInv, DirectoryInv', ListsStep, NEW t \in Threads, queue[t] # <<>>,
         queue' = Done(t), Head(queue[t]).kind # "leave" \/ Head(queue[t]).c \in orphans,
         UNCHANGED <<view, members, clients, token, uid, issued, orphans>>
  PROVE  ViewsInv'
<1>1. MembersInv /\ TypeOK BY DEF ViewsInv, DirectoryInv, MembersInv
<1>2. ~JoinHead(t)' /\ \A s \in Threads \ {t} : SameHead(s) BY <1>1, DoneHeads
<1>3. \A s \in Threads \ {t} : queue'[s] = queue[s] BY <1>1, OthersStay
<1>4. Still BY <1>2, <1>3 DEF Still, SameHead, LeaveHead
<1>5. LeavesAdmitted' BY <1>1, DoneQueued, LeavesKept DEF ViewsInv
<1> QED BY <1>4, <1>5, StillKeeps

\* A task is appended to the queues q, which are what is left after a task of
\* another kind than the halves of handlers was done, or nothing was.
LEMMA AppendStill ==
  ASSUME ViewsInv, DirectoryInv', ListsStep, NEW t \in Threads, NEW k \in Tasks,
         NEW q \in [Threads -> Seq(Tasks)], queue' = [q EXCEPT ![t] = Append(@, k)],
         k.kind \notin {"join", "leave"},
         \A s \in Threads : \A i \in 1 .. Len(q[s]) : Queued(q[s][i]),
         \A s \in Threads : q[s] # <<>> /\ Head(q[s]).kind = "join"
                              => JoinHead(s) /\ Head(q[s]) = Head(queue[s]),
         \A s \in Threads : LeaveHead(s) => q[s] = queue[s],
         UNCHANGED <<view, members, clients, token, uid, issued, orphans>>
  PROVE  ViewsInv'
<1>1. TypeOK BY DEF ViewsInv, DirectoryInv, MembersInv
<1>2. Still
  <2>1. ASSUME NEW s \in Threads, JoinHead(s)'
        PROVE  JoinHead(s) /\ Head(queue'[s]) = Head(queue[s])
    BY <2>1, AppendHeads
  <2>2. ASSUME NEW s \in Threads, LeaveHead(s)
        PROVE  LeaveHead(s)' /\ Head(queue'[s]) = Head(queue[s])
    <3>1. q[s] = queue[s] /\ q[s] # <<>> BY <2>2 DEF LeaveHead
    <3>2. queue'[s] # <<>> /\ Head(queue'[s]) = Head(q[s]) BY <3>1, AppendFirst
    <3> QED BY <2>2, <3>1, <3>2 DEF LeaveHead
  <2> QED BY <2>1, <2>2 DEF Still
<1>3. LeavesAdmitted'
  <2>1. ASSUME NEW s \in Threads, NEW i \in 1 .. Len(queue'[s])
        PROVE  Queued(queue'[s][i]) \/ queue'[s][i] = k
    BY <2>1, AppendQueued
  <2> QED BY <1>1, <2>1, LeavesKept DEF ViewsInv
<1> QED BY <1>2, <1>3, StillKeeps

\* Sockets only append packets and errors.
LEMMA NetworkViews ==
  ASSUME ViewsInv, DirectoryInv', ListsStep, Network
  PROVE  ViewsInv'
<1>1. TypeOK BY DEF ViewsInv, DirectoryInv, MembersInv
<1>2. queue \in [Threads -> Seq(Tasks)] /\ "conn" \in Threads /\ "io" \in Threads
  BY <1>1 DEF TypeOK, Threads
<1>3. UNCHANGED <<view, members, clients, token, uid, issued, orphans>>
  BY DEF Network, LoginPackets, OwnTokenPackets, OtherTokenPackets, ReadPacket, ReadError,
         WriteError
<1>4. \A s \in Threads : \A i \in 1 .. Len(queue[s]) : Queued(queue[s][i]) BY DEF Queued
<1>5. ASSUME NEW k \in Tasks, k.kind \notin {"join", "leave"},
             queue' = [queue EXCEPT !["conn"] = Append(@, k)]
      PROVE  ViewsInv'
  BY <1>2, <1>3, <1>4, <1>5, AppendStill DEF JoinHead
<1>6. ASSUME NEW c \in Conns, NEW req \in AllRequests, NEW u \in Uids \cup {NoUid},
             NEW t \in Tokens \cup {NoToken}, ReadPacket(c, req, u, t)
      PROVE  ViewsInv'
  <2> DEFINE k == [kind |-> "packet", c |-> c, req |-> req, uid |-> u, tok |-> t]
  <2>1. k \in Tasks /\ k.kind \notin {"join", "leave"} BY DEF Tasks
  <2>2. queue' = [queue EXCEPT !["conn"] = Append(@, k)] BY <1>6 DEF ReadPacket
  <2> HIDE DEF k
  <2> QED BY <1>5, <2>1, <2>2
<1>7. ASSUME NEW c \in Conns, ReadError(c) PROVE ViewsInv'
  <2>1. ErrorTask(c) \in Tasks /\ ErrorTask(c).kind \notin {"join", "leave"}
    BY DEF Tasks, ErrorTask
  <2> QED BY <1>5, <1>7, <2>1 DEF ReadError
<1>8. ASSUME NEW c \in Conns, WriteError(c) PROVE ViewsInv'
  <2>1. queue["io"] = <<>> /\ queue' = [queue EXCEPT !["io"] = <<ErrorTask(c)>>]
    BY <1>8 DEF WriteError
  <2>2. ErrorTask(c) \in Tasks /\ ErrorTask(c).kind \notin {"join", "leave"}
    BY DEF Tasks, ErrorTask
  <2>3. queue' = [queue EXCEPT !["io"] = Append(@, ErrorTask(c))]
    BY <1>2, <2>1
  <2> QED BY <1>2, <1>3, <1>4, <2>2, <2>3, AppendStill DEF JoinHead
<1>9. \A c \in Conns : token[c] \in Tokens \cup {NoToken} BY <1>1 DEF TypeOK
<1>10. ASSUME NEW c \in Conns, LoginPackets(c) PROVE ViewsInv'
  BY <1>6, <1>10, RequestsAssumption DEF LoginPackets
<1>11. ASSUME NEW c \in Conns, OwnTokenPackets(c) PROVE ViewsInv'
  BY <1>6, <1>9, <1>11, RequestsAssumption DEF OwnTokenPackets
<1>12. ASSUME NEW c \in Conns, OtherTokenPackets(c) PROVE ViewsInv'
  BY <1>6, <1>12, RequestsAssumption DEF OtherTokenPackets
<1> QED BY <1>7, <1>8, <1>10, <1>11, <1>12 DEF Network

\* Admission gives the new client a task on its thread, and no list yet.
LEMMA ConnThreadViews ==
  ASSUME ViewsInv, DirectoryInv', ListsStep, ConnThread
  PROVE  ViewsInv'
<1> DEFINE task == Head(queue["conn"])
           k == [task EXCEPT !.kind = "handle"]
<1>1. MembersInv /\ TypeOK /\ "conn" \in Threads
  BY DEF ViewsInv, DirectoryInv, MembersInv, Threads
<1>2. queue["conn"] # <<>> /\ task.kind = "packet"
  BY DEF ConnThread, DropPacket, RejectFirst, RefuseDuplicate, PassPacket, AdmitFirst, Runs
<1>3. task \in Tasks /\ Done("conn") \in [Threads -> Seq(Tasks)]
  BY <1>1, <1>2, QueueType
<1>4. k \in Tasks /\ k.kind = "handle" BY <1>3 DEF Tasks, ClientKinds
<1>5. UNCHANGED <<view, members, clients, token, uid, issued, orphans>>
  BY DEF ConnThread, DropPacket, RejectFirst, RefuseDuplicate, PassPacket, AdmitFirst
<1>6. CASE queue' = Done("conn") BY <1>1, <1>2, <1>5, <1>6, DoneStill
<1>7. ASSUME NEW th \in Threads, queue' = [Done("conn") EXCEPT ![th] = Append(@, k)]
      PROVE  ViewsInv'
  <2> DEFINE q == Done("conn")
  <2>1. \A s \in Threads : \A i \in 1 .. Len(q[s]) : Queued(q[s][i])
    BY <1>1, <1>2, DoneQueued
  <2>2. \A s \in Threads \ {"conn"} : q[s] = queue[s] BY <1>1 DEF Done, TypeOK
  <2>3. q["conn"] # <<>> => Head(q["conn"]).kind # "join"
    <3> SUFFICES ASSUME q["conn"] # <<>> PROVE Head(q["conn"]).kind # "join"
      OBVIOUS
    <3>1. q["conn"] \in Seq(Tasks) BY <1>1, <1>3
    <3>2. 1 \in 1 .. Len(q["conn"]) /\ Head(q["conn"]) = q["conn"][1] BY <3>1
    <3>3. 2 \in 1 .. Len(queue["conn"]) /\ q["conn"][1] = queue["conn"][2]
      BY <1>1, <1>2, <3>2, DoneTasks
    <3> QED BY <1>1, <3>2, <3>3 DEF MembersInv, TasksSound, TaskSound
  <2>4. \A s \in Threads : q[s] # <<>> /\ Head(q[s]).kind = "join"
                             => JoinHead(s) /\ Head(q[s]) = Head(queue[s])
    BY <2>2, <2>3 DEF JoinHead
  <2>5. \A s \in Threads : LeaveHead(s) => q[s] = queue[s]
    BY <1>2, <2>2 DEF LeaveHead
  <2>6. q \in [Threads -> Seq(Tasks)] /\ queue' = [q EXCEPT ![th] = Append(@, k)]
    BY <1>3, <1>7
  <2>7. k \in Tasks /\ k.kind \notin {"join", "leave"} BY <1>4
  <2> HIDE DEF k, q
  <2> QED BY <1>5, <2>1, <2>4, <2>5, <2>6, <2>7, AppendStill
<1>8. CASE DropPacket \/ RejectFirst \/ RefuseDuplicate
  BY <1>6, <1>8 DEF DropPacket, RejectFirst, RefuseDuplicate
<1>9. CASE PassPacket
  <2>1. queue' = [Done("conn") EXCEPT ![thread[task.c]] = Append(@, k)]
    BY <1>9 DEF PassPacket
  <2>2. CASE thread[task.c] \in Threads BY <1>7, <2>1, <2>2
  <2>3. CASE thread[task.c] \notin Threads
    <3>1. queue' = Done("conn") BY <1>3, <2>1, <2>3
    <3> QED BY <1>6, <3>1
  <2> QED BY <2>2, <2>3
<1>10. ASSUME NEW th \in PoolThreads, AdmitFirst(th) PROVE ViewsInv'
  <2>1. th \in Threads /\ queue' = [Done("conn") EXCEPT ![th] = Append(@, k)]
    BY <1>10 DEF AdmitFirst, PoolThreads, Threads
  <2> QED BY <1>7, <2>1
<1> QED BY <1>8, <1>9, <1>10 DEF ConnThread

-----------------------------------------------------------------------------
(* Steps that tell the clients of a logout *)

\* What the steps below have in common.  A thread does or replaces its first task,
\* token t is announced to some of the clients, whoever stays keeps its name, and
\* whoever t leads to is removed or about to be.
Announces(t) ==
  /\ members'.tokens = members.tokens
  /\ \A u \in Uids : members'.users[u] \in {NoToken, members.users[u]}
  /\ \A u \in Uids : GoingName(u) => members'.users[u] = NoToken \/ GoingName(u)'
  /\ t \in Tokens => \A u \in Uids : members.tokens[t] = u =>
                        members'.users[u] = NoToken \/ GoingName(u)'

LEMMA AnnouncedTold ==
  ASSUME ViewsInv, NEW t, Announces(t), NEW d \in clients \cup Entering, uid'[d] = uid[d],
         view'[d] \in {view[d], Remove(view[d], t)}
  PROVE  Agrees(d)' /\ IsTold(d)'
<1>1. TypeOK BY DEF ViewsInv, DirectoryInv, MembersInv
<1>2. d \in Conns BY <1>1 DEF TypeOK, Entering
<1>3. Agrees(d) /\ IsTold(d) BY DEF ViewsInv, EveryoneTold
<1> QED BY <1>1, <1>2, <1>3, StillTold DEF Announces

\* The member of a client of X is removed when it gets a new token or when the
\* second half of its LeaveMember is done.
LEMMA RemovalAnnounces ==
  ASSUME ViewsInv, NEW t \in Threads, \A s \in Threads \ {t} : queue'[s] = queue[s],
         NEW X, LeaveHead(t) => Head(queue[t]).c \in X,
         \A s \in Threads : LeaveHead(s) => \/ token'[Head(queue[s]).c] = token[Head(queue[s]).c]
                                            \/ Head(queue[s]).c \in X,
         NEW tok, members' = Remove(members, tok), \A x \in X : token[x] = tok
  PROVE  Announces(tok)
<1>1. members \in MemberLists BY DEF ViewsInv, DirectoryInv, MembersInv, TypeOK
<1>2. /\ members'.tokens = members.tokens
      /\ \A u \in Uids : members'.users[u] \in {NoToken, members.users[u]}
      /\ tok \in Tokens => \A u \in Uids : members.tokens[tok] = u =>
                              members'.users[u] = NoToken
  BY <1>1, RemoveNames
<1>3. ASSUME NEW u \in Uids, GoingName(u) PROVE members'.users[u] = NoToken \/ GoingName(u)'
  <2>1. GoingName(u)' \/ \E x \in X : token[x] \in Tokens /\ members.tokens[token[x]] = u
    BY <1>2, <1>3, GoingStays
  <2> QED BY <1>2, <2>1
<1> QED BY <1>2, <1>3 DEF Announces

\* Clients leave, and those that stay, or are half-way in, are told nothing or
\* that token tok is gone.
LEMMA AnnounceKeeps ==
  ASSUME ViewsInv, DirectoryInv', ListsStep, LeavesAdmitted', NEW tok, Announces(tok),
         issued' = issued, orphans' = orphans, uid' = uid, clients' \subseteq clients,
         \A c \in Conns : token'[c] \in {token[c], NoToken},
         \A s \in Threads : JoinHead(s)' => JoinHead(s) /\ Head(queue'[s]) = Head(queue[s]),
         \A d \in clients' \cup Entering : view'[d] \in {view[d], Remove(view[d], tok)}
  PROVE  ViewsInv'
<1>1. TokensIssued' /\ JoinsUnknown' /\ OrphansUnknown' BY TokensKept DEF Announces
<1>2. Entering' \subseteq Entering BY EnteringLess
<1>3. ASSUME NEW d \in clients' \cup Entering PROVE Agrees(d)' /\ IsTold(d)'
  <2>1. d \in clients \cup Entering /\ uid'[d] = uid[d] BY <1>3
  <2>2. view'[d] \in {view[d], Remove(view[d], tok)} BY <1>3
  <2> QED BY <2>1, <2>2, AnnouncedTold
<1> QED BY <1>1, <1>2, <1>3 DEF ViewsInv, EveryoneTold

\* What a client has been told after TellLogout.
LEMMA TellLogoutViews ==
  ASSUME NEW to, NEW t, NEW d \in Conns
  PROVE  TellLogout(to, t)[d] \in {view[d], Remove(view[d], t)}
BY DEF TellLogout

LEMMA LeaveBeginViews ==
  ASSUME ViewsInv, DirectoryInv', ListsStep, NEW t \in Threads, LeaveBegin(t)
  PROVE  ViewsInv'
<1> DEFINE task == Head(queue[t])
           c == task.c
           k == [task EXCEPT !.kind = "leave"]
<1>1. MembersInv /\ TypeOK BY DEF ViewsInv, DirectoryInv, MembersInv
<1>2. /\ queue[t] # <<>> /\ task.kind = "error" /\ conn[c] = "client"
      /\ GetMember(members, token[c]) # NoToken
      /\ view' = TellLogout(clients \ {c}, token[c])
      /\ queue' = GoOn(t, k)
      /\ UNCHANGED <<members, clients, token, uid, issued, orphans, conn>>
  BY DEF LeaveBegin, Runs, HasHandler
<1>3. task \in Tasks BY <1>1, <1>2, QueueType
<1>4. k \in Tasks /\ k.kind = "leave" /\ k.c = c BY <1>3 DEF Tasks, ClientKinds
<1> HIDE DEF k
<1>5. /\ queue'[t] # <<>> /\ Head(queue'[t]) = k
      /\ \A s \in Threads \ {t} : SameHead(s) /\ queue'[s] = queue[s]
  BY <1>1, <1>2, <1>4, GoOnHeads, OthersStay
<1>6. LeavesAdmitted'
  <2>1. \A s \in Threads : \A i \in 1 .. Len(queue'[s]) : Queued(queue'[s][i]) \/ queue'[s][i] = k
    BY <1>1, <1>2, <1>4, GoOnQueued
  <2> QED BY <1>1, <1>2, <1>4, <2>1, LeavesKept DEF ViewsInv
<1>7. Announces(token[c])
  <2>1. members.users \in [Uids -> Tokens \cup {NoToken}] BY <1>1 DEF TypeOK, MemberLists
  <2>2. ASSUME NEW u \in Uids, GoingName(u) PROVE GoingName(u)'
    <3>1. ~LeaveHead(t) BY <1>2 DEF LeaveHead
    <3> DEFINE X == {}
    <3>2. LeaveHead(t) => Head(queue[t]).c \in X BY <3>1
    <3>3. \A s \in Threads : LeaveHead(s) => \/ token'[Head(queue[s]).c] = token[Head(queue[s]).c]
                                             \/ Head(queue[s]).c \in X
      BY <1>2
    <3>4. \A x \in X : FALSE OBVIOUS
    <3> HIDE DEF X
    <3>5. members'.tokens = members.tokens /\ \A s \in Threads \ {t} : queue'[s] = queue[s]
      BY <1>2, <1>5
    <3>6. GoingName(u)' \/ \E x \in X : token[x] \in Tokens /\ members.tokens[token[x]] = u
      BY <2>2, <3>2, <3>3, <3>5, GoingStays
    <3> QED BY <3>4, <3>6
  <2>3. ASSUME NEW u \in Uids, token[c] \in Tokens, members.tokens[token[c]] = u
        PROVE  GoingName(u)'
    BY <1>2, <1>4, <1>5, <2>3 DEF GoingName, LeaveHead
  <2> QED BY <1>2, <2>1, <2>2, <2>3 DEF Announces
<1>8. \A s \in Threads : JoinHead(s)' => JoinHead(s) /\ Head(queue'[s]) = Head(queue[s])
  BY <1>4, <1>5 DEF SameHead, JoinHead
<1>9. \A d \in clients' \cup Entering : view'[d] \in {view[d], Remove(view[d], token[c])}
  <2>1. clients' \cup Entering \subseteq Conns BY <1>1, <1>2 DEF TypeOK, Entering
  <2> QED BY <1>2, <2>1, TellLogoutViews
<1> QED BY <1>2, <1>6, <1>7, <1>8, <1>9, AnnounceKeeps

\* A step that does a task and removes the members that token tok leads to.
LEMMA RemovalKeepsViews ==
  ASSUME ViewsInv, DirectoryInv', ListsStep, NEW t \in Threads, queue[t] # <<>>,
         queue' = Done(t), NEW tok, members' = Remove(members, tok),
         NEW X, LeaveHead(t) => Head(queue[t]).c \in X, \A x \in X : token[x] = tok,
         \A c \in Conns : token'[c] = token[c] \/ (c \in X /\ token'[c] = NoToken),
         issued' = issued, orphans' = orphans, uid' = uid, clients' \subseteq clients,
         \A d \in clients' \cup Entering : view'[d] \in {view[d], Remove(view[d], tok)}
  PROVE  ViewsInv'
<1>1. MembersInv /\ TypeOK BY DEF ViewsInv, DirectoryInv, MembersInv
<1>2. ~JoinHead(t)' /\ \A s \in Threads \ {t} : SameHead(s) /\ queue'[s] = queue[s]
  BY <1>1, DoneHeads, OthersStay
<1>3. \A s \in Threads : queue[s] # <<>> => Head(queue[s]).c \in Conns
  BY <1>1, QueueType DEF Tasks
<1>4. \A s \in Threads : LeaveHead(s) => \/ token'[Head(queue[s]).c] = token[Head(queue[s]).c]
                                         \/ Head(queue[s]).c \in X
  BY <1>3 DEF LeaveHead
<1>5. Announces(tok) BY <1>2, <1>4, RemovalAnnounces
<1>6. LeavesAdmitted' BY <1>1, DoneQueued, LeavesKept DEF ViewsInv
<1>7. \A s \in Threads : JoinHead(s)' => JoinHead(s) /\ Head(queue'[s]) = Head(queue[s])
  BY <1>2 DEF SameHead
<1>8. \A c \in Conns : token'[c] \in {token[c], NoToken} OBVIOUS
<1> QED BY <1>5, <1>6, <1>7, <1>8, AnnounceKeeps

LEMMA LeaveEndViews ==
  ASSUME ViewsInv, DirectoryInv', ListsStep, NEW t \in Threads, LeaveEnd(t)
  PROVE  ViewsInv'
<1> DEFINE c == Head(queue[t]).c
           X == {c}
<1>1. /\ queue[t] # <<>> /\ queue' = Done(t)
      /\ members' = Remove(members, token[c]) /\ clients' \subseteq clients
      /\ UNCHANGED <<view, token, uid, issued, orphans>>
  BY DEF LeaveEnd, Runs
<1>2. c \in X /\ \A x \in X : token[x] = token[c] OBVIOUS
<1>3. \A d \in clients' \cup Entering : view'[d] \in {view[d], Remove(view[d], token[c])}
  BY <1>1
<1> HIDE DEF X
<1> QED BY <1>1, <1>2, <1>3, RemovalKeepsViews

LEMMA LogoutViews ==
  ASSUME ViewsInv, DirectoryInv', ListsStep, NEW t \in Threads, Logout(t)
  PROVE  ViewsInv'
<1> DEFINE c == Head(queue[t]).c
           X == {c}
<1>1. /\ queue[t] # <<>> /\ queue' = Done(t) /\ LeaveMember(c)
      /\ token' = [token EXCEPT ![c] = NoToken]
      /\ view' = IF GetMember(members, token[c]) = NoToken
                   THEN view ELSE TellLogout(clients \ {c}, token[c])
      /\ UNCHANGED <<uid, issued, orphans>>
  BY DEF Logout, Runs
<1>2. TypeOK BY DEF ViewsInv, DirectoryInv, MembersInv
<1>3. members' = Remove(members, token[c]) /\ clients' \subseteq clients
  BY <1>1, LeaveMemberRemoves
<1>4. \A d \in clients' \cup Entering : view'[d] \in {view[d], Remove(view[d], token[c])}
  <2>1. clients' \cup Entering \subseteq Conns BY <1>2, <1>3 DEF TypeOK, Entering
  <2> QED BY <1>1, <2>1, TellLogoutViews
<1>5. \A d \in Conns : token'[d] = token[d] \/ (d \in X /\ token'[d] = NoToken)
  BY <1>1, <1>2 DEF TypeOK
<1>6. c \in X /\ \A x \in X : token[x] = token[c] OBVIOUS
<1>7. /\ queue[t] # <<>> /\ queue' = Done(t)
      /\ issued' = issued /\ orphans' = orphans /\ uid' = uid
  BY <1>1
<1>8. LeaveHead(t) => Head(queue[t]).c \in X OBVIOUS
<1> HIDE DEF X
<1> QED BY <1>3, <1>4, <1>5, <1>6, <1>7, <1>8, RemovalKeepsViews

\* Everybody in the room is told of a kick, and so is its sender.
LEMMA KickOffViews ==
  ASSUME ViewsInv, DirectoryInv', ListsStep, NEW t \in Threads, KickOff(t)
  PROVE  ViewsInv'
<1> DEFINE task == Head(queue[t])
           X == {}
<1>1. /\ queue[t] # <<>> /\ task.kind = "handle" /\ queue' = Done(t)
      /\ members' = Remove(members, task.tok) /\ clients' \subseteq clients
      /\ view' = TellLogout(clients \cup {task.c}, task.tok)
      /\ UNCHANGED <<token, uid, issued, orphans>>
  BY DEF KickOff, Runs
<1>2. TypeOK BY DEF ViewsInv, DirectoryInv, MembersInv
<1>3. ~LeaveHead(t) BY <1>1 DEF LeaveHead
<1>4. \A d \in clients' \cup Entering : view'[d] \in {view[d], Remove(view[d], task.tok)}
  <2>1. clients' \cup Entering \subseteq Conns BY <1>1, <1>2 DEF TypeOK, Entering
  <2> QED BY <1>1, <2>1, TellLogoutViews
<1>5. (\A x \in X : token[x] = task.tok) /\ (LeaveHead(t) => Head(queue[t]).c \in X)
  BY <1>3
<1>6. \A d \in Conns : token'[d] = token[d] \/ (d \in X /\ token'[d] = NoToken)
  BY <1>1
<1> HIDE DEF X
<1> QED BY <1>1, <1>4, <1>5, <1>6, RemovalKeepsViews

-----------------------------------------------------------------------------
(* Logins *)

LEMMA LoginAgainViews ==
  ASSUME ViewsInv, DirectoryInv', ListsStep, NEW t \in Threads, LoginAgain(t)
  PROVE  ViewsInv'
<1> DEFINE task == Head(queue[t])
<1>0. PICK c : c = task.c OBVIOUS
<1>1. MembersInv /\ TypeOK /\ TasksNamed BY DEF ViewsInv, DirectoryInv, MembersInv
<1>2. /\ queue[t] # <<>> /\ task.kind = "handle" /\ task.req \in {"login", "badlogin"}
      /\ queue' = Done(t)
      /\ token[c] # NoToken /\ uid[c] = task.uid
      /\ view' = [view EXCEPT ![c] = Snapshot(members.users, task.uid, token[c])]
      /\ UNCHANGED <<members, clients, token, uid, issued, orphans>>
  BY <1>0 DEF LoginAgain, Runs
<1>3. task.uid \in Uids /\ c \in Conns BY <1>0, <1>1, <1>2, HeadNamed DEF Named, Tasks
<1>4. token[c] \in Tokens BY <1>1, <1>2, <1>3 DEF TypeOK
<1>5. ~JoinHead(t)' /\ \A s \in Threads \ {t} : SameHead(s) /\ queue'[s] = queue[s]
  BY <1>1, <1>2, DoneHeads, OthersStay
<1>6. \A s \in Threads : JoinHead(s)' => JoinHead(s) /\ Head(queue'[s]) = Head(queue[s])
  BY <1>5 DEF SameHead
<1>7. Entering' \subseteq Entering BY <1>6, EnteringLess
<1>8. LeavesAdmitted' BY <1>1, <1>2, DoneQueued, LeavesKept DEF ViewsInv
<1>9. TokensIssued' /\ JoinsUnknown' /\ OrphansUnknown' BY <1>2, <1>6, TokensKept
<1>10. Announces(NoToken)
  <2>1. members.users \in [Uids -> Tokens \cup {NoToken}] BY <1>1 DEF TypeOK, MemberLists
  <2>2. ASSUME NEW u \in Uids, GoingName(u) PROVE GoingName(u)'
    BY <1>2, <1>5, <2>2 DEF GoingName, LeaveHead
  <2>3. NoToken \notin Tokens BY DEF Tokens, NoToken
  <2> QED BY <1>2, <2>1, <2>2, <2>3 DEF Announces
<1>11. Agrees(c)' /\ IsTold(c)'
  <2>1. members' \in MemberLists /\ TokensFound' BY <1>1, <1>2 DEF TypeOK, MembersInv, TokensFound
  <2>2. view'[c] = Snapshot(members'.users, uid'[c], token[c])
    BY <1>1, <1>2, <1>3 DEF TypeOK
  <2>3. uid'[c] \in Uids BY <1>2, <1>3
  <2> QED BY <1>3, <1>4, <2>1, <2>2, <2>3, SnapshotTold
<1>12. ASSUME NEW d \in clients \cup Entering, d # c PROVE Agrees(d)' /\ IsTold(d)'
  <2>1. d \in Conns BY <1>1 DEF TypeOK, Entering
  <2>2. view'[d] = view[d] BY <1>1, <1>2, <1>12, <2>1 DEF TypeOK
  <2> QED BY <1>2, <1>10, <2>2, AnnouncedTold
<1>13. EveryoneTold' BY <1>2, <1>7, <1>11, <1>12 DEF EveryoneTold
<1> QED BY <1>8, <1>9, <1>13 DEF ViewsInv

LEMMA LoginBeginViews ==
  ASSUME ViewsInv, DirectoryInv', ListsStep, NEW t \in Threads, LoginBegin(t)
  PROVE  ViewsInv'
<1>0. PICK c : c = Head(queue[t]).c OBVIOUS
<1> DEFINE task == Head(queue[t])
           k == [task EXCEPT !.kind = "join", !.tok = issued + 1]
           X == {c}
           told == IF GetMember(members, token[c]) = NoToken
                     THEN view ELSE TellLogout(clients \ {c}, token[c])
<1>1. MembersInv /\ TypeOK /\ TasksNamed BY DEF ViewsInv, DirectoryInv, MembersInv
<1>2. /\ queue[t] # <<>> /\ task.kind = "handle" /\ LeaveMember(c)
      /\ task.req \in {"login", "badlogin"}
      /\ issued' = issued + 1 /\ issued < MaxToken
      /\ token' = [token EXCEPT ![c] = issued + 1]
      /\ uid' = [uid EXCEPT ![c] = task.uid]
      /\ view' = [told EXCEPT ![c] = Snapshot(members'.users, task.uid, issued + 1)]
      /\ queue' = GoOn(t, k) /\ cache' = cache /\ orphans' = orphans
  BY <1>0 DEF LoginBegin, Runs
<1>3. task \in Tasks /\ task.uid \in Uids /\ c \in Conns
  BY <1>0, <1>1, <1>2, HeadNamed DEF Named, Tasks
<1>4. issued \in Nat /\ issued + 1 \in Tokens
  BY <1>1, <1>2, MaxTokenAssumption DEF TypeOK, Tokens
<1>5. k \in Tasks /\ k.kind = "join" /\ k.c = c /\ k.tok = issued + 1
  BY <1>0, <1>3, <1>4 DEF Tasks, ClientKinds
<1> HIDE DEF k
<1>6. /\ queue'[t] # <<>> /\ Head(queue'[t]) = k
      /\ \A s \in Threads \ {t} : SameHead(s) /\ queue'[s] = queue[s]
  BY <1>1, <1>2, <1>5, GoOnHeads, OthersStay
<1>7. members' = Remove(members, token[c]) /\ clients' \subseteq clients
  BY <1>2, LeaveMemberRemoves
<1>8. \A d \in Conns : token'[d] = token[d] \/ (d \in X /\ token'[d] = issued + 1)
  BY <1>1, <1>2 DEF TypeOK
<1>9. Announces(token[c])
  <2>1. ~LeaveHead(t) BY <1>2 DEF LeaveHead
  <2>2. \A s \in Threads : queue[s] # <<>> => Head(queue[s]).c \in Conns
    BY <1>1, QueueType DEF Tasks
  <2>3. \A s \in Threads : LeaveHead(s) => \/ token'[Head(queue[s]).c] = token[Head(queue[s]).c]
                                           \/ Head(queue[s]).c \in X
    BY <1>8, <2>2 DEF LeaveHead
  <2>4. \A x \in X : token[x] = token[c] OBVIOUS
  <2> HIDE DEF X
  <2> QED BY <1>6, <1>7, <2>1, <2>3, <2>4, RemovalAnnounces
<1>10. TokensIssued' /\ JoinsUnknown' /\ OrphansUnknown'
  <2>1. members'.tokens = members.tokens BY <1>9 DEF Announces
  <2>2. \A d \in Conns : token'[d] \in {token[d], NoToken, issued + 1} BY <1>8
  <2>3. \A s \in Threads : JoinHead(s)' =>
          \/ JoinHead(s) /\ Head(queue'[s]) = Head(queue[s])
          \/ Head(queue'[s]).tok = issued + 1 /\ issued + 1 \in Tokens
    BY <1>4, <1>5, <1>6 DEF SameHead
  <2> QED BY <1>2, <2>1, <2>2, <2>3, TokensKept
<1>11. LeavesAdmitted'
  <2>1. \A s \in Threads : \A i \in 1 .. Len(queue'[s]) : Queued(queue'[s][i]) \/ queue'[s][i] = k
    BY <1>1, <1>2, <1>5, GoOnQueued
  <2> QED BY <1>1, <1>5, <2>1, LeavesKept DEF ViewsInv
<1>12. Entering' \subseteq Entering \cup {c}
  BY <1>2, <1>5, <1>6 DEF Entering, SameHead
<1>13. told \in [Conns -> MemberLists] BY <1>1, TellLogoutType DEF TypeOK
<1>14. Agrees(c)' /\ IsTold(c)'
  <2>1. members' \in MemberLists /\ TokensFound'
    BY <1>1, <1>7, RemoveType, RemoveErases DEF TypeOK, MembersInv, DirectoryInv
  <2>2. view'[c] = Snapshot(members'.users, uid'[c], issued + 1)
    BY <1>1, <1>2, <1>3, <1>13 DEF TypeOK
  <2>3. uid'[c] \in Uids BY <1>1, <1>2, <1>3 DEF TypeOK
  <2> QED BY <1>3, <1>4, <2>1, <2>2, <2>3, SnapshotTold
<1>15. ASSUME NEW d \in clients \cup Entering, d # c PROVE Agrees(d)' /\ IsTold(d)'
  <2>1. d \in Conns BY <1>1 DEF TypeOK, Entering
  <2>2. view'[d] = told[d] /\ uid'[d] = uid[d]
    BY <1>1, <1>2, <1>13, <1>15, <2>1 DEF TypeOK
  <2>3. told[d] \in {view[d], Remove(view[d], token[c])} BY <2>1, TellLogoutViews
  <2> QED BY <1>9, <2>2, <2>3, AnnouncedTold
<1>16. EveryoneTold' BY <1>7, <1>12, <1>14, <1>15 DEF EveryoneTold
<1> QED BY <1>10, <1>11, <1>16 DEF ViewsInv

\* A client enters with the list it was sent: no other one was half-way in, so
\* that nobody has entered since, and everybody else is told of it.
LEMMA JoinMemberViews ==
  ASSUME ViewsInv, DirectoryInv', ListsStep, NEW t \in Threads, JoinMember(t)
  PROVE  ViewsInv'
<1>0. PICK c, v, tok : c = Head(queue[t]).c /\ v = Head(queue[t]).uid /\ tok = Head(queue[t]).tok
  OBVIOUS
<1>1. MembersInv /\ TypeOK /\ TasksNamed /\ CacheSound
  BY DEF ViewsInv, DirectoryInv, MembersInv
<1>2. /\ JoinHead(t) /\ c \in cache
      /\ members' = Add(members, v, tok)
      /\ clients' = clients \cup {c} /\ cache' = cache \ {c}
      /\ view' = TellLogin(clients \ {c}, v, tok)
      /\ queue[t] # <<>> /\ queue' = Done(t)
      /\ UNCHANGED <<token, uid, orphans, issued, conn>>
  BY <1>0 DEF JoinMember, Runs, JoinHead
<1>3. c \in Conns /\ v \in Uids /\ tok \in Tokens /\ token[c] = tok /\ thread[c] = t
  BY <1>0, <1>1, <1>2, JoinHeadSound DEF Tasks
<1>4. uid[c] = v
  BY <1>0, <1>1, <1>2, HeadSound DEF MembersInv, TaskSound, JoinHead
<1>5. members.tokens[tok] = NoUid BY <1>0, <1>2 DEF ViewsInv, JoinsUnknown
<1>6. members \in MemberLists /\ NoUid \notin Uids BY <1>1, NoUidAssumption DEF TypeOK
<1>7. /\ \A s \in Tokens : members'.tokens[s] = IF s = tok THEN v ELSE members.tokens[s]
      /\ \A u \in Uids : members'.users[u] = IF u = v THEN tok ELSE members.users[u]
  BY <1>2, <1>3, <1>6, AddNames
<1>8. ~JoinHead(t)' /\ \A s \in Threads \ {t} : SameHead(s) /\ queue'[s] = queue[s]
  BY <1>1, <1>2, DoneHeads, OthersStay
<1>9. \A d \in Conns \ {c} : token[d] # tok
  BY <1>1, <1>3 DEF MembersInv, TokensDistinct, Tokens, NoToken
<1>10. TokensIssued'
  <2>1. tok <= issued BY <1>1, <1>3 DEF MembersInv, TokensDistinct
  <2> QED BY <1>2, <1>7, <2>1 DEF ViewsInv, TokensIssued
<1>11. JoinsUnknown'
  <2> SUFFICES ASSUME NEW s \in Threads, JoinHead(s)'
               PROVE  members'.tokens[Head(queue'[s]).tok] = NoUid
    BY DEF JoinsUnknown
  <2>1. s # t /\ JoinHead(s) /\ Head(queue'[s]) = Head(queue[s]) BY <1>8 DEF SameHead
  <2>2. members.tokens[Head(queue[s]).tok] = NoUid BY <2>1 DEF ViewsInv, JoinsUnknown
  <2>3. /\ Head(queue[s]).c \in Conns /\ thread[Head(queue[s]).c] = s
        /\ token[Head(queue[s]).c] = Head(queue[s]).tok /\ Head(queue[s]).tok \in Tokens
    BY <1>1, <2>1, JoinHeadSound DEF Tasks
  <2>4. Head(queue[s]).tok # tok BY <1>3, <1>9, <2>1, <2>3
  <2> QED BY <1>7, <2>1, <2>2, <2>3, <2>4
<1>12. OrphansUnknown'
  <2> SUFFICES ASSUME NEW o \in orphans
               PROVE  /\ conn[o] = "client" /\ o \notin cache'
                      /\ token[o] \in Tokens => members'.tokens[token[o]] = NoUid
    BY <1>2 DEF OrphansUnknown
  <2>1. /\ o \in Conns /\ conn[o] = "client" /\ o \notin cache
        /\ token[o] \in Tokens => members.tokens[token[o]] = NoUid
    BY <1>1 DEF TypeOK, ViewsInv, OrphansUnknown
  <2>2. token[o] # tok BY <1>2, <1>9, <2>1
  <2> QED BY <1>2, <1>7, <2>1, <2>2
<1>13. LeavesAdmitted' BY <1>1, <1>2, DoneQueued, LeavesKept DEF ViewsInv
<1>14. Entering' = {}
  <2> SUFFICES ASSUME NEW d \in cache', NEW s \in Threads, JoinHead(s)', Head(queue'[s]).c = d
               PROVE  FALSE
    BY DEF Entering
  <2>1. s # t /\ JoinHead(s) /\ Head(queue[s]).c = d BY <1>8 DEF SameHead
  <2>2. thread[d] = s BY <1>1, <2>1, JoinHeadSound
  <2>3. thread[d] = roomThread /\ thread[c] = roomThread BY <1>1, <1>2 DEF CacheSound
  <2> QED BY <1>3, <2>1, <2>2, <2>3
<1>15. ASSUME NEW u \in Uids, GoingName(u) PROVE GoingName(u)'
  <2>1. PICK s \in Threads : /\ LeaveHead(s) /\ token[Head(queue[s]).c] \in Tokens
                             /\ members.tokens[token[Head(queue[s]).c]] = u
    BY <1>15 DEF GoingName
  <2>2. s # t /\ queue'[s] = queue[s] BY <1>2, <1>8, <2>1 DEF LeaveHead, JoinHead
  <2>3. members'.tokens[token[Head(queue[s]).c]] = u BY <1>5, <1>6, <1>7, <2>1
  <2> QED BY <1>2, <2>1, <2>2, <2>3 DEF GoingName, LeaveHead
<1>16. Agrees(c)' /\ IsTold(c)'
  <2>1. c \in Entering BY <1>0, <1>2 DEF Entering
  <2>2. Agrees(c) /\ IsTold(c) BY <2>1 DEF ViewsInv, EveryoneTold
  <2>3. view'[c] = view[c] /\ uid'[c] = uid[c] BY <1>2, <1>3 DEF TellLogin
  <2>4. Agrees(c)' BY <1>5, <1>6, <1>7, <2>2, <2>3 DEF Agrees
  <2>5. IsTold(c)' BY <1>4, <1>7, <1>15, <2>2, <2>3 DEF IsTold
  <2> QED BY <2>4, <2>5
<1>17. ASSUME NEW d \in clients PROVE Agrees(d)' /\ IsTold(d)'
  <2>1. d \in Conns /\ d # c /\ Agrees(d) /\ IsTold(d)
    BY <1>1, <1>2 DEF TypeOK, MembersInv, AdmittedOnce, ViewsInv, EveryoneTold
  <2>2. view'[d] = Add(view[d], v, tok) /\ uid'[d] = uid[d]
    BY <1>2, <2>1 DEF TellLogin
  <2>3. view[d] \in MemberLists BY <1>1, <2>1 DEF TypeOK
  <2>4. /\ \A s \in Tokens : view'[d].tokens[s] = IF s = tok THEN v ELSE view[d].tokens[s]
        /\ \A u \in Uids : view'[d].users[u] = IF u = v THEN tok ELSE view[d].users[u]
    BY <1>3, <2>2, <2>3, AddNames
  <2>5. Agrees(d)' BY <1>7, <2>1, <2>2, <2>4 DEF Agrees
  <2>6. IsTold(d)' BY <1>7, <1>15, <2>1, <2>2, <2>4 DEF IsTold
  <2> QED BY <2>5, <2>6
<1>18. EveryoneTold' BY <1>2, <1>14, <1>16, <1>17 DEF EveryoneTold
<1> QED BY <1>10, <1>11, <1>12, <1>13, <1>18 DEF ViewsInv

-----------------------------------------------------------------------------
(* All steps *)

LEMMA RoomStepViews ==
  ASSUME ViewsInv, DirectoryInv', ListsStep, NEW t \in Threads, RoomStep(t)
  PROVE  ViewsInv'
<1> DEFINE task == Head(queue[t])
<1>1. MembersInv /\ TypeOK BY DEF ViewsInv, DirectoryInv, MembersInv
<1>2. queue[t] # <<>>
  BY DEF RoomStep, ErrorIgnored, LeaveBegin, LeaveEnd, LoginAgain, LoginBegin, JoinMember,
         JoinRefused, LogoutDenied, Logout, UpdateDenied, UpdateBegin, UpdateEnd, KickOff,
         LostOnFreedRoom, CrashOnFreedRoom, Runs
<1>3. TaskSound(t, 1, task) BY <1>1, <1>2, HeadSound DEF MembersInv
<1>4. ASSUME queue' = Done(t), task.kind # "leave" \/ task.c \in orphans,
             UNCHANGED <<view, members, clients, token, uid, issued, orphans>>
      PROVE  ViewsInv'
  BY <1>2, <1>4, DoneStill
<1>5. CASE ErrorIgnored(t) BY <1>4, <1>5 DEF ErrorIgnored, Runs
<1>6. CASE JoinRefused(t) BY <1>4, <1>6 DEF JoinRefused, Runs
<1>7. CASE LogoutDenied(t) BY <1>4, <1>7 DEF LogoutDenied, Runs
<1>8. CASE UpdateDenied(t) BY <1>4, <1>8 DEF UpdateDenied, Runs
<1>9. CASE UpdateBegin(t) BY <1>3, <1>9 DEF UpdateBegin, TaskSound
<1>10. CASE UpdateEnd(t) BY <1>3, <1>10 DEF UpdateEnd, Runs, TaskSound
<1>11. CASE LostOnFreedRoom(t) BY <1>4, <1>11 DEF LostOnFreedRoom, OnFreedRoom
<1>12. CASE CrashOnFreedRoom(t)
  <2>1. UNCHANGED <<queue, view, members, clients, token, uid, issued, orphans>>
    BY <1>12 DEF CrashOnFreedRoom
  <2>2. Still BY <2>1 DEF Still, JoinHead, LeaveHead
  <2>3. LeavesAdmitted' BY <1>1, <2>1, LeavesKept DEF ViewsInv, Queued
  <2> QED BY <2>2, <2>3, StillKeeps
<1> QED BY <1>5, <1>6, <1>7, <1>8, <1>9, <1>10, <1>11, <1>12, LeaveBeginViews,
           LeaveEndViews, LoginAgainViews, LoginBeginViews, JoinMemberViews, LogoutViews,
           KickOffViews
        DEF RoomStep

\* A room that is deleted has nobody left to be told anything; those that outlive
\* it are clients the next room knows nothing of.
LEMMA CheckRoomViews ==
  ASSUME ViewsInv, DirectoryInv', ListsStep, CheckRoom
  PROVE  ViewsInv'
<1>1. MembersInv /\ TypeOK BY DEF ViewsInv, DirectoryInv, MembersInv
<1>2. /\ clients' = {} /\ cache = {} /\ cache' = {} /\ clients = {} /\ members' = NoMembers
      /\ orphans' = orphans \cup {c \in Conns : Held(c)}
      /\ UNCHANGED <<queue, token, conn, issued>>
  BY DEF CheckRoom
<1>3. \A t \in Tokens : members'.tokens[t] = NoUid BY <1>2 DEF NoMembers
<1>4. TokensIssued' BY <1>3, NoUidAssumption DEF TokensIssued
<1>5. JoinsUnknown'
  <2>1. \A t \in Threads : JoinHead(t) => Head(queue[t]).tok \in Tokens
    BY <1>1, JoinHeadSound DEF ViewsInv, DirectoryInv, Tasks
  <2> QED BY <1>2, <1>3, <2>1 DEF JoinsUnknown, JoinHead
<1>6. ASSUME NEW c \in Conns, Held(c) PROVE conn[c] = "client"
  <2>1. PICK t \in Threads : \E i \in 1 .. Len(queue[t]) :
           queue[t][i].c = c /\ queue[t][i].kind \in ClientKinds
    BY <1>2, <1>6 DEF Held
  <2>2. PICK i \in 1 .. Len(queue[t]) :
           queue[t][i].c = c /\ queue[t][i].kind \in ClientKinds
    BY <2>1
  <2>3. TaskSound(t, i, queue[t][i]) BY <1>1 DEF MembersInv, TasksSound
  <2>4. queue[t][i].kind = "leave" => conn[queue[t][i].c] = "client"
    BY DEF ViewsInv, LeavesAdmitted
  <2> QED BY <2>2, <2>3, <2>4 DEF TaskSound, ClientKinds
<1>7. OrphansUnknown' BY <1>2, <1>3, <1>6 DEF ViewsInv, OrphansUnknown
<1>8. LeavesAdmitted' BY <1>2 DEF ViewsInv, LeavesAdmitted
<1>9. EveryoneTold' BY <1>2 DEF EveryoneTold, Entering
<1> QED BY <1>4, <1>5, <1>7, <1>8, <1>9 DEF ViewsInv

LEMMA InitViews == Init => ViewsInv
<1> SUFFICES ASSUME Init PROVE ViewsInv
  OBVIOUS
<1>1. DirectoryInv BY InitDirectory
<1>2. /\ \A t \in Threads : queue[t] = <<>>
      /\ clients = {} /\ cache = {} /\ orphans = {} /\ members = NoMembers
  BY DEF Init
<1>3. TokensIssued BY <1>2, NoUidAssumption DEF TokensIssued, NoMembers
<1>4. JoinsUnknown /\ LeavesAdmitted BY <1>2 DEF JoinsUnknown, JoinHead, LeavesAdmitted
<1>5. OrphansUnknown /\ EveryoneTold BY <1>2 DEF OrphansUnknown, EveryoneTold, Entering
<1> QED BY <1>1, <1>3, <1>4, <1>5 DEF ViewsInv

\* ViewsInv is inductive beside DirectoryInv.
THEOREM ViewsInvariant ==
  ASSUME Requests \cap {"extend", "state"} = {}
  PROVE  Spec => []ViewsInv
<1>1. ViewsInv /\ DirectoryInv' /\ [Next]_vars => ViewsInv'
  <2> SUFFICES ASSUME ViewsInv, DirectoryInv', [Next]_vars PROVE ViewsInv'
    OBVIOUS
  <2>1. ListsStep BY NextLists DEF ViewsInv, DirectoryInv, MembersInv
  <2>2. CASE Network BY <2>1, <2>2, NetworkViews
  <2>3. ASSUME NEW t \in Threads, Step(t) PROVE ViewsInv'
    BY <2>1, <2>3, StepCases, ConnThreadViews, RoomStepViews
  <2>4. CASE CheckRoom BY <2>1, <2>4, CheckRoomViews
  <2>5. CASE UNCHANGED vars
    <3>1. Still BY <2>5 DEF Still, JoinHead, LeaveHead
    <3>2. LeavesAdmitted' BY <2>5 DEF ViewsInv, LeavesAdmitted
    <3> QED BY <2>1, <3>1, <3>2, StillKeeps
  <2> QED BY <2>2, <2>3, <2>4, <2>5 DEF Next
<1> QED BY <1>1, InitViews, DirectoryInvariant, PTL DEF Spec

\* While nobody is half-way out, every client in a room knows every other member:
\* the list sent with the answer to a login and the notifications after it leave no
\* gap, whatever the threads do with logins under the same or a new name, logouts,
\* kicks, lost connections, and clients that have outlived an earlier room, as long
\* as no client updates its extension or its state.
THEOREM NobodyIsMissed ==
  ASSUME Requests \cap {"extend", "state"} = {}
  PROVE  Spec => []NoMissedMember
<1>1. ViewsInv => NoMissedMember
  <2> SUFFICES ASSUME ViewsInv, ~Leaving, NEW c \in clients, NEW u \in Uids, u # uid[c]
               PROVE  members.users[u] \in {NoToken, view[c].users[u]}
    BY DEF NoMissedMember
  <2>1. ~GoingName(u) BY DEF GoingName, LeaveHead, Leaving
  <2> QED BY <2>1 DEF ViewsInv, EveryoneTold, IsTold
<1> QED BY <1>1, ViewsInvariant, PTL
=============================================================================

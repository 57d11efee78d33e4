-------------------------- MODULE RoomServerProofs --------------------------
(***************************************************************************)
(* Proofs about the room server, for any number of connections, user ids,  *)
(* packets and tokens.                                                     *)
(***************************************************************************)
EXTENDS RoomServer, TLAPS

\* The member list keeps its type: what GetMember, Add, Remove and Snapshot
\* return for arguments of the right type.
LEMMA GetMemberType ==
  ASSUME NEW list \in MemberLists, NEW t
  PROVE  GetMember(list, t) \in Tokens \cup {NoToken}
BY DEF GetMember, MemberLists

LEMMA AddType ==
  ASSUME NEW list \in MemberLists, NEW u \in Uids \cup {NoUid},
         NEW t \in Tokens \cup {NoToken}
  PROVE  Add(list, u, t) \in MemberLists
BY DEF Add, MemberLists

LEMMA RemoveType ==
  ASSUME NEW list \in MemberLists, NEW t
  PROVE  Remove(list, t) \in MemberLists
BY DEF Remove, GetMember, MemberLists

LEMMA UpdateListType ==
  ASSUME NEW users \in [Uids -> Tokens \cup {NoToken}]
  PROVE  UpdateList(users) \in MemberLists
BY DEF UpdateList, MemberLists

LEMMA SnapshotType ==
  ASSUME NEW list \in MemberLists, NEW u \in Uids \cup {NoUid},
         NEW t \in Tokens \cup {NoToken}
  PROVE  Snapshot(list.users, u, t) \in MemberLists
BY UpdateListType, AddType DEF Snapshot, MemberLists

LEMMA NoMembersType == NoMembers \in MemberLists
BY DEF NoMembers, MemberLists

\* Messages change the views within their type.
LEMMA TellLogoutType ==
  ASSUME TypeOK, NEW to, NEW t
  PROVE  TellLogout(to, t) \in [Conns -> MemberLists]
BY RemoveType DEF TellLogout, TypeOK

LEMMA TellLoginType ==
  ASSUME TypeOK, NEW to, NEW u \in Uids \cup {NoUid},
         NEW t \in Tokens \cup {NoToken}
  PROVE  TellLogin(to, u, t) \in [Conns -> MemberLists]
BY AddType DEF TellLogin, TypeOK

\* The queues keep their type when a thread takes or replaces its first task.
LEMMA QueueType ==
  ASSUME TypeOK, NEW t \in Threads, queue[t] # <<>>
  PROVE  /\ Head(queue[t]) \in Tasks
         /\ Done(t) \in [Threads -> Seq(Tasks)]
         /\ \A k \in Tasks : GoOn(t, k) \in [Threads -> Seq(Tasks)]
<1>1. queue[t] \in Seq(Tasks) BY DEF TypeOK
<1>2. Head(queue[t]) \in Tasks /\ Tail(queue[t]) \in Seq(Tasks) BY <1>1
<1>3. \A k \in Tasks : <<k>> \o Tail(queue[t]) \in Seq(Tasks) BY <1>2
<1> QED BY <1>2, <1>3 DEF TypeOK, Done, GoOn

-----------------------------------------------------------------------------
(* Type correctness *)

LEMMA InitType == Init => TypeOK
BY NoMembersType, MaxTokenAssumption, MaxReadsAssumption
   DEF Init, TypeOK, Threads, NoToken

USE DEF vars, connVars, clientVars, roomVars

\* Reading from a socket, or failing to.
LEMMA NetworkType == TypeOK /\ Network => TypeOK'
<1> SUFFICES ASSUME TypeOK, Network PROVE TypeOK'
  OBVIOUS
<1>1. ASSUME NEW c \in Conns, NEW req \in AllRequests, NEW u \in Uids \cup {NoUid},
             NEW t \in Tokens \cup {NoToken}, ReadPacket(c, req, u, t)
      PROVE  TypeOK'
  <2> DEFINE k == [kind |-> "packet", c |-> c, req |-> req, uid |-> u, tok |-> t]
  <2>1. k \in Tasks BY DEF Tasks
  <2>2. Append(queue["conn"], k) \in Seq(Tasks) BY <2>1 DEF TypeOK, Threads
  <2>3. queue' \in [Threads -> Seq(Tasks)] BY <1>1, <2>2 DEF ReadPacket, TypeOK
  <2>4. reads' \in 0 .. MaxReads BY <1>1, MaxReadsAssumption DEF ReadPacket, TypeOK
  <2> QED BY <1>1, <2>3, <2>4 DEF ReadPacket, TypeOK
<1>2. ASSUME NEW c \in Conns, LoginPackets(c) PROVE TypeOK'
  BY <1>1, <1>2, RequestsAssumption DEF LoginPackets
<1>3. ASSUME NEW c \in Conns, OwnTokenPackets(c) PROVE TypeOK'
  BY <1>1, <1>3, RequestsAssumption DEF OwnTokenPackets, TypeOK
<1>4. ASSUME NEW c \in Conns, OtherTokenPackets(c) PROVE TypeOK'
  BY <1>1, <1>4, RequestsAssumption DEF OtherTokenPackets
<1>5. ASSUME NEW c \in Conns PROVE ErrorTask(c) \in Tasks
  BY DEF ErrorTask, Tasks
<1>6. ASSUME NEW c \in Conns, ReadError(c) PROVE TypeOK'
  <2>1. Append(queue["conn"], ErrorTask(c)) \in Seq(Tasks)
    BY <1>5 DEF TypeOK, Threads
  <2> QED BY <1>6, <2>1 DEF ReadError, TypeOK
<1>7. ASSUME NEW c \in Conns, WriteError(c) PROVE TypeOK'
  <2>1. <<ErrorTask(c)>> \in Seq(Tasks) BY <1>5
  <2> QED BY <1>7, <2>1 DEF WriteError, TypeOK
<1> QED BY <1>2, <1>3, <1>4, <1>6, <1>7 DEF Network

\* Parsing and admission, on the thread of the connections.
LEMMA ConnThreadType == TypeOK /\ ConnThread => TypeOK'
<1> SUFFICES ASSUME TypeOK, ConnThread PROVE TypeOK'
  OBVIOUS
<1> DEFINE task == Head(queue["conn"])
<1>1. queue["conn"] # <<>> /\ "conn" \in Threads
  BY DEF ConnThread, DropPacket, RejectFirst, RefuseDuplicate, PassPacket, AdmitFirst,
         Runs, Threads
<1>2. task \in Tasks /\ Done("conn") \in [Threads -> Seq(Tasks)]
  BY <1>1, QueueType
<1>3. task.c \in Conns /\ [task EXCEPT !.kind = "handle"] \in Tasks
  BY <1>2 DEF Tasks, ClientKinds
<1>4. ASSUME NEW th \in Threads \cup {"none"}
      PROVE  [Done("conn") EXCEPT ![th] = Append(@, [task EXCEPT !.kind = "handle"])]
               \in [Threads -> Seq(Tasks)]
  <2>1. CASE th \in Threads
    <3>1. Append(Done("conn")[th], [task EXCEPT !.kind = "handle"]) \in Seq(Tasks)
      BY <1>2, <1>3, <2>1
    <3> QED BY <1>2, <2>1, <3>1
  <2>2. CASE th \notin Threads BY <1>2, <2>2
  <2> QED BY <2>1, <2>2
<1>5. CASE DropPacket BY <1>2, <1>5 DEF DropPacket, TypeOK
<1>6. CASE RejectFirst BY <1>2, <1>3, <1>6 DEF RejectFirst, TypeOK
<1>7. CASE RefuseDuplicate BY <1>2, <1>3, <1>7 DEF RefuseDuplicate, TypeOK
<1>8. CASE PassPacket
  <2>1. thread[task.c] \in Threads \cup {"none"}
    BY <1>3 DEF TypeOK, PoolThreads, Threads
  <2> QED BY <1>4, <1>8, <2>1 DEF PassPacket, TypeOK
<1>9. ASSUME NEW th \in PoolThreads, AdmitFirst(th) PROVE TypeOK'
  <2>1. th \in Threads BY DEF PoolThreads, Threads
  <2> QED BY <1>3, <1>4, <1>9, <2>1 DEF AdmitFirst, TypeOK
<1> QED BY <1>5, <1>6, <1>7, <1>8, <1>9 DEF ConnThread

\* A thread of the room, and the errors: everything in Step that is not the
\* thread of the connections.
RoomStep(t) ==
  \/ ErrorIgnored(t) \/ LeaveBegin(t) \/ LeaveEnd(t)
  \/ LoginAgain(t) \/ LoginBegin(t) \/ JoinMember(t) \/ JoinRefused(t)
  \/ LogoutDenied(t) \/ Logout(t)
  \/ UpdateDenied(t) \/ UpdateBegin(t) \/ UpdateEnd(t)
  \/ KickOff(t)
  \/ LostOnFreedRoom(t) \/ CrashOnFreedRoom(t)

LEMMA StepCases == ASSUME NEW t \in Threads, Step(t) PROVE ConnThread \/ RoomStep(t)
BY DEF Step, RoomStep

LEMMA LeaveMemberType ==
  ASSUME TypeOK, NEW c \in Conns, LeaveMember(c)
  PROVE  clients' \subseteq Conns /\ members' \in MemberLists
BY RemoveType DEF LeaveMember, TypeOK

LEMMA RoomStepType ==
  ASSUME TypeOK, NEW t \in Threads, RoomStep(t)
  PROVE  TypeOK'
<1> DEFINE task == Head(queue[t])
<1>1. queue[t] # <<>>
  BY DEF RoomStep, ErrorIgnored, LeaveBegin, LeaveEnd, LoginAgain, LoginBegin, JoinMember,
         JoinRefused, LogoutDenied, Logout, UpdateDenied, UpdateBegin, UpdateEnd, KickOff,
         LostOnFreedRoom, CrashOnFreedRoom, Runs
<1>2. /\ task \in Tasks
      /\ Done(t) \in [Threads -> Seq(Tasks)]
      /\ \A k \in Tasks : GoOn(t, k) \in [Threads -> Seq(Tasks)]
  BY <1>1, QueueType
<1>3. /\ task.c \in Conns
      /\ task.uid \in Uids \cup {NoUid}
      /\ task.tok \in Tokens \cup {NoToken}
      /\ [task EXCEPT !.kind = "leave"] \in Tasks
  BY <1>2 DEF Tasks, ClientKinds
<1>4. CASE ErrorIgnored(t) BY <1>2, <1>4 DEF ErrorIgnored, TypeOK
<1>5. CASE LeaveBegin(t)
  <2>1. view' \in [Conns -> MemberLists] BY <1>5, TellLogoutType DEF LeaveBegin
  <2>2. queue' \in [Threads -> Seq(Tasks)] BY <1>2, <1>3, <1>5 DEF LeaveBegin
  <2> QED BY <1>5, <2>1, <2>2 DEF LeaveBegin, TypeOK
<1>6. CASE LeaveEnd(t)
  <2>1. members' \in MemberLists BY <1>6, RemoveType DEF LeaveEnd, TypeOK
  <2> QED BY <1>2, <1>6, <2>1 DEF LeaveEnd, TypeOK
<1>7. CASE LoginAgain(t)
  <2>1. token[task.c] \in Tokens \cup {NoToken} /\ members \in MemberLists
    BY <1>3 DEF TypeOK
  <2>2. Snapshot(members.users, task.uid, token[task.c]) \in MemberLists
    BY <1>3, <2>1, SnapshotType
  <2>3. view' \in [Conns -> MemberLists] BY <1>7, <2>2 DEF LoginAgain, TypeOK
  <2> QED BY <1>2, <1>7, <2>3 DEF LoginAgain, TypeOK
<1>8. CASE LoginBegin(t)
  <2>1. issued' \in 0 .. MaxToken /\ issued + 1 \in Tokens
    BY <1>8, MaxTokenAssumption DEF LoginBegin, TypeOK, Tokens
  <2>2. clients' \subseteq Conns /\ members' \in MemberLists
    BY <1>3, <1>8, LeaveMemberType DEF LoginBegin
  <2>3. Snapshot(members'.users, task.uid, issued + 1) \in MemberLists
    BY <1>3, <2>1, <2>2, SnapshotType
  <2>4. view' \in [Conns -> MemberLists]
    <3>1. TellLogout(clients \ {task.c}, token[task.c]) \in [Conns -> MemberLists]
      BY TellLogoutType
    <3> QED BY <1>8, <2>3, <3>1 DEF LoginBegin, TypeOK
  <2>5. [task EXCEPT !.kind = "join", !.tok = issued + 1] \in Tasks
    BY <1>2, <2>1 DEF Tasks, ClientKinds
  <2>6. queue' \in [Threads -> Seq(Tasks)] BY <1>2, <1>8, <2>5 DEF LoginBegin
  <2>7. token' \in [Conns -> Tokens \cup {NoToken}] /\ uid' \in [Conns -> Uids \cup {NoUid}]
    BY <1>3, <1>8, <2>1 DEF LoginBegin, TypeOK
  <2> QED BY <1>8, <2>1, <2>2, <2>4, <2>6, <2>7 DEF LoginBegin, TypeOK
<1>9. CASE JoinMember(t)
  <2>1. members' \in MemberLists
    BY <1>3, <1>9, AddType DEF JoinMember, TypeOK
  <2>2. view' \in [Conns -> MemberLists]
    BY <1>3, <1>9, TellLoginType DEF JoinMember
  <2> QED BY <1>2, <1>3, <1>9, <2>1, <2>2 DEF JoinMember, TypeOK
<1>10. CASE JoinRefused(t) BY <1>2, <1>10 DEF JoinRefused, TypeOK
<1>11. CASE LogoutDenied(t) BY <1>2, <1>11 DEF LogoutDenied, TypeOK
<1>12. CASE Logout(t)
  <2>1. clients' \subseteq Conns /\ members' \in MemberLists
    BY <1>3, <1>12, LeaveMemberType DEF Logout
  <2>2. view' \in [Conns -> MemberLists]
    BY <1>12, TellLogoutType DEF Logout, TypeOK
  <2>3. token' \in [Conns -> Tokens \cup {NoToken}] BY <1>12 DEF Logout, TypeOK
  <2> QED BY <1>2, <1>12, <2>1, <2>2, <2>3 DEF Logout, TypeOK
<1>13. CASE UpdateDenied(t) BY <1>2, <1>13 DEF UpdateDenied, TypeOK
<1>14. CASE UpdateBegin(t)
  <2> DEFINE found == GetMember(members, token[task.c])
             k == [task EXCEPT !.kind = "update", !.tok = found,
                               !.uid = members.tokens[token[task.c]]]
  <2>1. CASE found = NoToken BY <1>2, <1>14, <2>1 DEF UpdateBegin, TypeOK
  <2>2. CASE found # NoToken
    <3>1. token[task.c] \in Tokens /\ found \in Tokens \cup {NoToken}
      BY <2>2, GetMemberType DEF GetMember, TypeOK
    <3>2. members.tokens[token[task.c]] \in Uids \cup {NoUid}
      BY <3>1 DEF TypeOK, MemberLists
    <3>3. k \in Tasks BY <1>2, <3>1, <3>2 DEF Tasks, ClientKinds
    <3>4. queue' = GoOn(t, k) BY <1>14, <2>2 DEF UpdateBegin
    <3>5. queue' \in [Threads -> Seq(Tasks)] BY <1>2, <3>3, <3>4
    <3> QED BY <1>14, <3>5 DEF UpdateBegin, TypeOK
  <2> QED BY <2>1, <2>2
<1>15. CASE UpdateEnd(t)
  <2>1. members' \in MemberLists BY <1>3, <1>15, AddType DEF UpdateEnd, TypeOK
  <2> QED BY <1>2, <1>15, <2>1 DEF UpdateEnd, TypeOK
<1>16. CASE KickOff(t)
  <2>1. members' \in MemberLists BY <1>16, RemoveType DEF KickOff, TypeOK
  <2>2. view' \in [Conns -> MemberLists] BY <1>16, TellLogoutType DEF KickOff
  <2> QED BY <1>2, <1>16, <2>1, <2>2 DEF KickOff, TypeOK
<1>17. CASE LostOnFreedRoom(t) BY <1>2, <1>17 DEF LostOnFreedRoom, TypeOK
<1>18. CASE CrashOnFreedRoom(t) BY <1>18 DEF CrashOnFreedRoom, TypeOK
<1> QED BY <1>4, <1>5, <1>6, <1>7, <1>8, <1>9, <1>10, <1>11, <1>12, <1>13, <1>14,
           <1>15, <1>16, <1>17, <1>18 DEF RoomStep

\* The variables of the room server have the types the code declares, in
\* every behaviour: the queues hold tasks, the tables map user ids to tokens.
THEOREM TypeCorrect == Spec => []TypeOK
<1>1. TypeOK /\ [Next]_vars => TypeOK'
  <2> SUFFICES ASSUME TypeOK, [Next]_vars PROVE TypeOK'
    OBVIOUS
  <2>1. CASE Network BY <2>1, NetworkType
  <2>2. ASSUME NEW t \in Threads, Step(t) PROVE TypeOK'
    BY <2>2, StepCases, ConnThreadType, RoomStepType
  <2>3. CASE CheckRoom
    BY <2>3, NoMembersType DEF CheckRoom, TypeOK
  <2>4. CASE UNCHANGED vars BY <2>4 DEF TypeOK
  <2> QED BY <2>1, <2>2, <2>3, <2>4 DEF Next
<1> QED BY <1>1, InitType, PTL DEF Spec

-----------------------------------------------------------------------------
(* Who is in the lists of the room, with updates or without *)

\* How one step changes the lists: connections that have sent nothing become
\* clients that wait, clients that wait enter, and clients leave.
ListsStep ==
  /\ cache' \ cache \subseteq {c \in Conns : conn[c] = "first" /\ conn'[c] = "client"}
  /\ clients' \ clients \subseteq cache \ cache'
  /\ \A c \in Conns : conn[c] # "first" => conn'[c] = conn[c]

LEMMA ConnThreadLists == ASSUME TypeOK, ConnThread PROVE ListsStep
<1> DEFINE task == Head(queue["conn"])
<1>1. "conn" \in Threads /\ queue["conn"] # <<>>
  BY DEF ConnThread, DropPacket, RejectFirst, RefuseDuplicate, PassPacket, AdmitFirst,
         Runs, Threads
<1>2. task.c \in Conns
  <2>1. task \in Tasks BY <1>1, QueueType
  <2> QED BY <2>1 DEF Tasks
<1>3. conn \in [Conns -> {"first", "rejected", "ignored", "client"}] BY DEF TypeOK
<1>4. CASE DropPacket \/ PassPacket BY <1>4 DEF DropPacket, PassPacket, ListsStep
<1>5. CASE RejectFirst BY <1>2, <1>3, <1>5 DEF RejectFirst, ListsStep
<1>6. CASE RefuseDuplicate BY <1>2, <1>3, <1>6 DEF RefuseDuplicate, ListsStep
<1>7. ASSUME NEW th \in PoolThreads, AdmitFirst(th) PROVE ListsStep
  <2>1. /\ conn[task.c] = "first" /\ conn' = [conn EXCEPT ![task.c] = "client"]
        /\ cache' = cache \cup {task.c} /\ clients' = clients
    BY <1>7 DEF AdmitFirst
  <2> QED BY <1>2, <1>3, <2>1 DEF ListsStep
<1> QED BY <1>4, <1>5, <1>6, <1>7 DEF ConnThread

LEMMA RoomStepLists == ASSUME TypeOK, NEW t \in Threads, RoomStep(t) PROVE ListsStep
<1>1. conn' = conn
  BY DEF RoomStep, ErrorIgnored, LeaveBegin, LeaveEnd, LoginAgain, LoginBegin, JoinMember,
         JoinRefused, LogoutDenied, Logout, UpdateDenied, UpdateBegin, UpdateEnd, KickOff,
         LostOnFreedRoom, CrashOnFreedRoom
<1>2. CASE JoinMember(t) BY <1>1, <1>2 DEF JoinMember, ListsStep
<1>3. CASE LeaveEnd(t) \/ KickOff(t)
  BY <1>1, <1>3 DEF LeaveEnd, KickOff, ListsStep
<1>4. CASE LoginBegin(t) \/ Logout(t)
  BY <1>1, <1>4 DEF LoginBegin, Logout, LeaveMember, ListsStep
<1>5. CASE UNCHANGED <<cache, clients>> BY <1>1, <1>5 DEF ListsStep
<1>6. CASE ~(JoinMember(t) \/ LeaveEnd(t) \/ KickOff(t) \/ LoginBegin(t) \/ Logout(t))
  BY <1>5, <1>6
     DEF RoomStep, ErrorIgnored, LeaveBegin, LoginAgain, JoinRefused, LogoutDenied,
         UpdateDenied, UpdateBegin, UpdateEnd, LostOnFreedRoom, CrashOnFreedRoom
<1> QED BY <1>2, <1>3, <1>4, <1>6

LEMMA NextLists == ASSUME TypeOK, [Next]_vars PROVE ListsStep
<1>1. CASE Network
  BY <1>1 DEF Network, LoginPackets, OwnTokenPackets, OtherTokenPackets, ReadPacket,
              ReadError, WriteError, ListsStep
<1>2. ASSUME NEW t \in Threads, Step(t) PROVE ListsStep
  BY <1>2, StepCases, ConnThreadLists, RoomStepLists
<1>3. CASE CheckRoom BY <1>3 DEF CheckRoom, ListsStep
<1>4. CASE UNCHANGED vars BY <1>4 DEF ListsStep
<1> QED BY <1>1, <1>2, <1>3, <1>4 DEF Next

\* A client is in one list at most, and nobody else is in any, for every set of
\* requests: JoinMember and LeaveMember never leave a client in both.
THEOREM OneListAtMost == Spec => []AdmittedOnce
<1>1. Init => AdmittedOnce BY DEF Init, AdmittedOnce
<1>2. TypeOK /\ AdmittedOnce /\ [Next]_vars => AdmittedOnce'
  <2> SUFFICES ASSUME TypeOK, AdmittedOnce, [Next]_vars PROVE AdmittedOnce'
    OBVIOUS
  <2>1. ListsStep BY NextLists
  <2>2. cache \subseteq Conns /\ clients \subseteq Conns BY DEF TypeOK
  <2> QED BY <2>1, <2>2 DEF ListsStep, AdmittedOnce
<1> QED BY <1>1, <1>2, TypeCorrect, PTL DEF Spec

\* A client that has left both lists never comes back, for every set of requests:
\* a later login of the same connection is refused by JoinMember.
THEOREM ClientsStayOut == Spec => NeverBack
<1> DEFINE A == \A c \in Conns : conn[c] = "client" /\ c \notin cache \cup clients
                                   => c \notin cache' \cup clients'
<1>1. TypeOK /\ [Next]_vars => [A]_vars
  <2> SUFFICES ASSUME TypeOK, [Next]_vars PROVE A
    OBVIOUS
  <2>1. ListsStep BY NextLists
  <2> QED BY <2>1 DEF ListsStep
<1> QED BY <1>1, TypeCorrect, PTL DEF Spec, NeverBack

-----------------------------------------------------------------------------
(***************************************************************************)
(* Whoever the table shows is in the room.  An update of a member adds it  *)
(* again after the lock was released, and by then its client may have left *)
(* (the run room_phantom shows it).  The theorem is therefore about rooms  *)
(* in which no client changes its extension or its state.                  *)
(***************************************************************************)

\* Task k, the i-th of thread t: a request waits on the thread of its client,
\* a half-done login is at the head of its queue and has the token and the
\* user id of its client, and nothing is an update.
TaskSound(t, i, k) ==
  /\ k.kind \in {"handle", "join"} => thread[k.c] = t /\ conn[k.c] = "client"
  /\ k.kind = "join" => i = 1 /\ token[k.c] = k.tok /\ uid[k.c] = k.uid
  /\ k.kind # "update" /\ k.req \notin {"extend", "state"}

TasksSound == \A t \in Threads : \A i \in 1 .. Len(queue[t]) : TaskSound(t, i, queue[t][i])

\* The token of a member leads back to the user id it is stored under.
TokensFound ==
  \A u \in Uids : members.users[u] # NoToken => members.tokens[members.users[u]] = u

\* No two clients have the same token, and none has one not handed out yet.
TokensDistinct ==
  /\ \A c \in Conns : token[c] <= issued
  /\ \A c, d \in Conns : token[c] = token[d] /\ token[c] # NoToken => c = d

MembersInv == /\ TypeOK /\ AdmittedOnce /\ TokensDistinct
              /\ TasksSound /\ TokensFound /\ MemberHasClient

\* What is in the queues after a task was done, replaced, or added.
LEMMA DoneTasks ==
  ASSUME TypeOK, NEW t \in Threads, queue[t] # <<>>,
         NEW s \in Threads, NEW i \in 1 .. Len(Done(t)[s])
  PROVE  IF s = t THEN i + 1 \in 1 .. Len(queue[s]) /\ Done(t)[s][i] = queue[s][i + 1]
                  ELSE i \in 1 .. Len(queue[s]) /\ Done(t)[s][i] = queue[s][i]
<1>1. queue[t] \in Seq(Tasks) BY DEF TypeOK
<1>2. CASE s = t
  <2>1. Done(t)[s] = Tail(queue[t]) BY <1>2 DEF Done, TypeOK
  <2> QED BY <1>1, <1>2, <2>1
<1>3. CASE s # t BY <1>3 DEF Done, TypeOK
<1> QED BY <1>2, <1>3

LEMMA GoOnTasks ==
  ASSUME TypeOK, NEW t \in Threads, queue[t] # <<>>, NEW k \in Tasks,
         NEW s \in Threads, NEW i \in 1 .. Len(GoOn(t, k)[s])
  PROVE  /\ i \in 1 .. Len(queue[s])
         /\ GoOn(t, k)[s][i] = IF s = t /\ i = 1 THEN k ELSE queue[s][i]
<1>1. queue[t] \in Seq(Tasks) BY DEF TypeOK
<1>2. CASE s = t
  <2>1. GoOn(t, k)[s] = <<k>> \o Tail(queue[t]) BY <1>2 DEF GoOn, TypeOK
  <2>2. Tail(queue[t]) \in Seq(Tasks) /\ Len(Tail(queue[t])) = Len(queue[t]) - 1
    BY <1>1
  <2>3. Len(GoOn(t, k)[s]) = Len(queue[t]) BY <1>1, <2>1, <2>2
  <2>4. i = 1 => GoOn(t, k)[s][i] = k BY <2>1, <2>2
  <2>5. i # 1 => GoOn(t, k)[s][i] = Tail(queue[t])[i - 1] BY <2>1, <2>2, <2>3
  <2>6. i # 1 => Tail(queue[t])[i - 1] = queue[t][i] BY <1>1, <1>2, <2>3
  <2> QED BY <1>2, <2>3, <2>4, <2>5, <2>6
<1>3. CASE s # t BY <1>3 DEF GoOn, TypeOK
<1> QED BY <1>2, <1>3

\* A step that finishes a task keeps the others sound, if it takes no client
\* from its thread and gives no new token or name to a client other than that
\* of the request it handles.
LEMMA DoneSound ==
  ASSUME TypeOK, TasksSound, NEW t \in Threads, queue[t] # <<>>, queue' = Done(t),
         \A c \in Conns : conn[c] = "client" => conn'[c] = "client" /\ thread'[c] = thread[c],
         \A c \in Conns : \/ token'[c] = token[c] /\ uid'[c] = uid[c]
                          \/ c = Head(queue[t]).c /\ Head(queue[t]).kind = "handle"
  PROVE  TasksSound'
<1> SUFFICES ASSUME NEW s \in Threads, NEW i \in 1 .. Len(Done(t)[s])
             PROVE  TaskSound(s, i, queue[s][i])'
  BY DEF TasksSound
<1> DEFINE j == IF s = t THEN i + 1 ELSE i
<1>1. j \in 1 .. Len(queue[s]) /\ queue'[s][i] = queue[s][j]
  BY DoneTasks
<1>2. TaskSound(s, j, queue[s][j]) /\ queue[s][j].c \in Conns
  <2>1. queue[s] \in Seq(Tasks) BY DEF TypeOK
  <2>2. queue[s][j] \in Tasks BY <1>1, <2>1
  <2> QED BY <1>1, <2>2 DEF TasksSound, Tasks
<1>3. Head(queue[t]) = queue[t][1] /\ 1 \in 1 .. Len(queue[t])
  <2>1. queue[t] \in Seq(Tasks) BY DEF TypeOK
  <2> QED BY <2>1
<1>4. Head(queue[t]).kind = "handle" => thread[Head(queue[t]).c] = t
  BY <1>3 DEF TasksSound, TaskSound
<1>5. queue[s][j].kind = "join" => s # t /\ i = 1
  BY <1>1, <1>2 DEF TaskSound
<1> QED BY <1>1, <1>2, <1>4, <1>5 DEF TaskSound

\* The same for a step that replaces the first task by the sound task k.
LEMMA GoOnSound ==
  ASSUME TypeOK, TasksSound, NEW t \in Threads, queue[t] # <<>>,
         NEW k \in Tasks, queue' = GoOn(t, k),
         conn' = conn, thread' = thread,
         \A c \in Conns : \/ token'[c] = token[c] /\ uid'[c] = uid[c]
                          \/ c = Head(queue[t]).c /\ Head(queue[t]).kind = "handle",
         k.kind \in {"handle", "join"} => thread[k.c] = t /\ conn[k.c] = "client",
         k.kind = "join" => token'[k.c] = k.tok /\ uid'[k.c] = k.uid,
         k.kind # "update" /\ k.req \notin {"extend", "state"}
  PROVE  TasksSound'
<1> SUFFICES ASSUME NEW s \in Threads, NEW i \in 1 .. Len(GoOn(t, k)[s])
             PROVE  TaskSound(s, i, queue[s][i])'
  BY DEF TasksSound
<1>1. /\ i \in 1 .. Len(queue[s])
      /\ queue'[s][i] = IF s = t /\ i = 1 THEN k ELSE queue[s][i]
  BY GoOnTasks
<1>2. CASE s = t /\ i = 1 BY <1>1, <1>2 DEF TaskSound
<1>3. CASE ~(s = t /\ i = 1)
  <2>1. TaskSound(s, i, queue[s][i]) /\ queue[s][i].c \in Conns
    <3>1. queue[s] \in Seq(Tasks) BY DEF TypeOK
    <3>2. queue[s][i] \in Tasks BY <1>1, <3>1
    <3> QED BY <1>1, <3>2 DEF TasksSound, Tasks
  <2>2. Head(queue[t]).kind = "handle" => thread[Head(queue[t]).c] = t
    <3>1. queue[t] \in Seq(Tasks) BY DEF TypeOK
    <3>2. Head(queue[t]) = queue[t][1] /\ 1 \in 1 .. Len(queue[t]) BY <3>1
    <3> QED BY <3>2 DEF TasksSound, TaskSound
  <2>3. queue[s][i].kind = "join" => s # t /\ i = 1
    BY <1>3, <2>1 DEF TaskSound
  <2> QED BY <1>1, <1>3, <2>1, <2>2, <2>3 DEF TaskSound
<1> QED BY <1>2, <1>3

\* The same for a step that appends the sound task k to one of the queues q.
LEMMA AppendSound ==
  ASSUME TypeOK, TasksSound, NEW t \in Threads, NEW k \in Tasks,
         NEW q \in [Threads -> Seq(Tasks)],
         \A s \in Threads : \A i \in 1 .. Len(q[s]) : TaskSound(s, i, q[s][i]),
         queue' = [q EXCEPT ![t] = Append(@, k)],
         \A c \in Conns : conn[c] = "client" => conn'[c] = "client" /\ thread'[c] = thread[c],
         token' = token, uid' = uid,
         k.kind \in {"packet", "error", "handle"},
         k.kind = "handle" => thread'[k.c] = t /\ conn'[k.c] = "client",
         k.req \notin {"extend", "state"}
  PROVE  TasksSound'
<1> SUFFICES ASSUME NEW s \in Threads, NEW i \in 1 .. Len(queue'[s])
             PROVE  TaskSound(s, i, queue[s][i])'
  BY DEF TasksSound
<1>1. q[s] \in Seq(Tasks) /\ q[t] \in Seq(Tasks) OBVIOUS
<1>2. CASE i \in 1 .. Len(q[s])
  <2>1. queue'[s][i] = q[s][i] BY <1>1, <1>2
  <2>2. q[s][i] \in Tasks BY <1>1, <1>2
  <2>3. q[s][i].c \in Conns BY <2>2 DEF Tasks
  <2>4. TaskSound(s, i, q[s][i]) BY <1>2
  <2> QED BY <2>1, <2>3, <2>4 DEF TaskSound
<1>3. CASE i \notin 1 .. Len(q[s])
  <2>1. s = t BY <1>3
  <2>2. i = Len(q[t]) + 1 /\ queue'[s][i] = k BY <1>1, <1>3, <2>1
  <2> QED BY <2>1, <2>2 DEF TaskSound
<1> QED BY <1>2, <1>3

\* Removing a token erases the member it leads to, and nothing else.
LEMMA RemoveErases ==
  ASSUME TypeOK, NEW t \in Tokens \cup {NoToken}
  PROVE  /\ Remove(members, t).tokens = members.tokens
         /\ \A u \in Uids : Remove(members, t).users[u] \in {NoToken, members.users[u]}
         /\ TokensFound => \A u \in Uids : members.users[u] = t =>
                               Remove(members, t).users[u] = NoToken
<1>1. CASE GetMember(members, t) = NoToken
  <2>1. Remove(members, t) = members BY <1>1 DEF Remove
  <2>2. ASSUME TokensFound, NEW u \in Uids, members.users[u] = t, t # NoToken PROVE FALSE
    <3>1. members.tokens[t] = u /\ t \in Tokens BY <2>2 DEF TokensFound
    <3> QED BY <1>1, <2>2, <3>1 DEF GetMember
  <2> QED BY <2>1, <2>2
<1>2. CASE GetMember(members, t) # NoToken
  <2>1. t \in Tokens /\ members.tokens[t] \in Uids BY <1>2 DEF GetMember
  <2>2. Remove(members, t) =
          [members EXCEPT !.users = [members.users EXCEPT ![members.tokens[t]] = NoToken]]
    BY <1>2 DEF Remove
  <2>3. /\ Remove(members, t).tokens = members.tokens
        /\ Remove(members, t).users = [members.users EXCEPT ![members.tokens[t]] = NoToken]
    BY <2>2 DEF TypeOK, MemberLists
  <2>4. \A u \in Uids : Remove(members, t).users[u] \in {NoToken, members.users[u]}
    BY <2>1, <2>3 DEF TypeOK, MemberLists
  <2>5. ASSUME TokensFound, NEW u \in Uids, members.users[u] = t
        PROVE  Remove(members, t).users[u] = NoToken
    <3>1. t # NoToken BY <2>1, MaxTokenAssumption DEF Tokens, NoToken
    <3>2. members.tokens[t] = u BY <2>5, <3>1 DEF TokensFound
    <3> QED BY <2>1, <2>3, <3>2 DEF TypeOK, MemberLists
  <2> QED BY <2>3, <2>4, <2>5
<1> QED BY <1>1, <1>2

\* When a token is removed, the clients with another token stay: then whoever
\* the table still shows is in the room.
LEMMA RemovalKeeps ==
  ASSUME TypeOK, TokensFound, MemberHasClient, NEW t \in Tokens \cup {NoToken},
         members' = Remove(members, t),
         \A d \in clients : token[d] # t =>
           d \in clients' /\ token'[d] = token[d] /\ uid'[d] = uid[d]
  PROVE  TokensFound' /\ MemberHasClient'
<1>1. TokensFound' BY RemoveErases DEF TokensFound
<1>2. ASSUME NEW u \in Uids, members'.users[u] # NoToken
      PROVE  \E c \in clients' : token'[c] = members'.users[u] /\ uid'[c] = u
  <2>1. members'.users[u] = members.users[u] /\ members.users[u] # t
    BY <1>2, RemoveErases
  <2>2. PICK c \in clients : token[c] = members.users[u] /\ uid[c] = u
    BY <1>2, <2>1 DEF MemberHasClient
  <2> QED BY <2>1, <2>2
<1> QED BY <1>1, <1>2 DEF MemberHasClient

LEMMA InitMembers == Init => MembersInv
<1> SUFFICES ASSUME Init PROVE MembersInv
  OBVIOUS
<1>1. TypeOK BY InitType
<1>2. AdmittedOnce BY DEF Init, AdmittedOnce
<1>3. TokensDistinct BY DEF Init, TokensDistinct, NoToken
<1>4. TasksSound BY DEF Init, TasksSound
<1>5. TokensFound /\ MemberHasClient
  BY DEF Init, TokensFound, MemberHasClient, NoMembers
<1> QED BY <1>1, <1>2, <1>3, <1>4, <1>5 DEF MembersInv

\* The steps of the network only add packets and errors to the queues.
LEMMA NetworkMembers ==
  ASSUME MembersInv, Network, Requests \cap {"extend", "state"} = {}
  PROVE  MembersInv'
<1>1. TypeOK /\ TypeOK' BY NetworkType DEF MembersInv
<1>2. /\ UNCHANGED <<conn, thread, token, uid, cache, clients, members, issued>>
      /\ TasksSound'
  <2>1. ASSUME NEW c \in Conns, NEW req \in Requests, NEW u \in Uids \cup {NoUid},
               NEW t \in Tokens \cup {NoToken}, ReadPacket(c, req, u, t)
        PROVE  TasksSound'
    <3> DEFINE k == [kind |-> "packet", c |-> c, req |-> req, uid |-> u, tok |-> t]
    <3>1. k \in Tasks BY RequestsAssumption DEF Tasks
    <3>2. /\ queue' = [queue EXCEPT !["conn"] = Append(@, k)]
          /\ UNCHANGED <<conn, thread, token, uid>>
      BY <2>1 DEF ReadPacket
    <3>3. queue \in [Threads -> Seq(Tasks)] /\ "conn" \in Threads
      BY <1>1 DEF TypeOK, Threads
    <3>4. \A s \in Threads : \A i \in 1 .. Len(queue[s]) : TaskSound(s, i, queue[s][i])
      BY DEF MembersInv, TasksSound
    <3>5. k.kind = "packet" /\ k.req \notin {"extend", "state"} OBVIOUS
    <3> HIDE DEF k
    <3> QED BY <1>1, <3>1, <3>2, <3>3, <3>4, <3>5, AppendSound DEF MembersInv
  <2>2. ASSUME NEW c \in Conns, ReadError(c) PROVE TasksSound'
    <3> DEFINE k == ErrorTask(c)
    <3>1. k \in Tasks /\ k.kind = "error" /\ k.req \notin {"extend", "state"}
      BY DEF ErrorTask, Tasks
    <3>2. /\ queue' = [queue EXCEPT !["conn"] = Append(@, k)]
          /\ UNCHANGED <<conn, thread, token, uid>>
      BY <2>2 DEF ReadError
    <3>3. queue \in [Threads -> Seq(Tasks)] /\ "conn" \in Threads
      BY <1>1 DEF TypeOK, Threads
    <3>4. \A s \in Threads : \A i \in 1 .. Len(queue[s]) : TaskSound(s, i, queue[s][i])
      BY DEF MembersInv, TasksSound
    <3> HIDE DEF k
    <3> QED BY <1>1, <3>1, <3>2, <3>3, <3>4, AppendSound DEF MembersInv
  <2>3. ASSUME NEW c \in Conns, WriteError(c) PROVE TasksSound'
    <3>1. /\ queue' = [queue EXCEPT !["io"] = <<ErrorTask(c)>>]
          /\ UNCHANGED <<conn, thread, token, uid>>
      BY <2>3 DEF WriteError
    <3>2. ASSUME NEW s \in Threads, NEW i \in 1 .. Len(queue'[s])
          PROVE  TaskSound(s, i, queue[s][i])'
      <4>1. CASE s = "io"
        <5>1. queue'[s] = <<ErrorTask(c)>> BY <1>1, <3>1, <4>1 DEF TypeOK, Threads
        <5> QED BY <5>1 DEF TaskSound, ErrorTask
      <4>2. CASE s # "io"
        <5>1. queue'[s] = queue[s] BY <1>1, <3>1, <4>2 DEF TypeOK
        <5>2. TaskSound(s, i, queue[s][i]) BY <5>1 DEF MembersInv, TasksSound
        <5> QED BY <3>1, <5>1, <5>2 DEF TaskSound
      <4> QED BY <4>1, <4>2
    <3> QED BY <3>2 DEF TasksSound
  <2>4. \A c \in Conns : token[c] \in Tokens \cup {NoToken} BY <1>1 DEF TypeOK
  <2> QED BY <2>1, <2>2, <2>3, <2>4
          DEF Network, LoginPackets, OwnTokenPackets, OtherTokenPackets, ReadPacket,
              ReadError, WriteError
<1> QED BY <1>1, <1>2
        DEF MembersInv, AdmittedOnce, TokensDistinct, TokensFound, MemberHasClient

\* Admission: a connection that has sent nothing has no task of a client yet,
\* so that it can be given a thread and a place among the waiting clients.
LEMMA ConnThreadMembers ==
  ASSUME MembersInv, ConnThread
  PROVE  MembersInv'
<1> DEFINE task == Head(queue["conn"])
           k == [task EXCEPT !.kind = "handle"]
<1>1. TypeOK /\ TypeOK' BY ConnThreadType DEF MembersInv
<1>2. queue["conn"] # <<>> /\ "conn" \in Threads
  BY DEF ConnThread, DropPacket, RejectFirst, RefuseDuplicate, PassPacket, AdmitFirst,
         Runs, Threads
<1>3. task \in Tasks /\ Done("conn") \in [Threads -> Seq(Tasks)]
  BY <1>1, <1>2, QueueType
<1>4. /\ task.c \in Conns /\ k \in Tasks /\ k.c = task.c /\ k.kind = "handle"
      /\ k.req = task.req
  BY <1>3 DEF Tasks, ClientKinds
<1>5. task.req \notin {"extend", "state"}
  <2>1. queue["conn"] \in Seq(Tasks) BY <1>1, <1>2 DEF TypeOK
  <2>2. task = queue["conn"][1] /\ 1 \in 1 .. Len(queue["conn"]) BY <1>2, <2>1
  <2> QED BY <1>2, <2>2 DEF MembersInv, TasksSound, TaskSound
<1>6. ASSUME NEW s \in Threads, NEW i \in 1 .. Len(Done("conn")[s])
      PROVE  TaskSound(s, i, Done("conn")[s][i])
  <2>1. IF s = "conn"
          THEN i + 1 \in 1 .. Len(queue[s]) /\ Done("conn")[s][i] = queue[s][i + 1]
          ELSE i \in 1 .. Len(queue[s]) /\ Done("conn")[s][i] = queue[s][i]
    BY <1>1, <1>2, DoneTasks
  <2> QED BY <2>1 DEF MembersInv, TasksSound, TaskSound
<1>7. UNCHANGED <<token, uid, clients, members, issued>>
  BY DEF ConnThread, DropPacket, RejectFirst, RefuseDuplicate, PassPacket, AdmitFirst
<1>8. ASSUME queue' = Done("conn"), UNCHANGED thread,
             \A c \in Conns : conn[c] = "client" => conn'[c] = "client"
      PROVE  TasksSound'
  BY <1>1, <1>2, <1>7, <1>8, DoneSound DEF MembersInv
<1>9. TasksSound' /\ AdmittedOnce'
  <2>1. CASE DropPacket
    BY <1>8, <2>1 DEF DropPacket, MembersInv, AdmittedOnce
  <2>2. CASE RejectFirst
    BY <1>1, <1>4, <1>8, <2>2 DEF RejectFirst, MembersInv, AdmittedOnce, TypeOK
  <2>3. CASE RefuseDuplicate
    BY <1>1, <1>4, <1>8, <2>3 DEF RefuseDuplicate, MembersInv, AdmittedOnce, TypeOK
  <2>4. CASE PassPacket
    <3>1. /\ queue' = [Done("conn") EXCEPT ![thread[task.c]] = Append(@, k)]
          /\ conn[task.c] = "client"
          /\ UNCHANGED <<conn, thread, cache>>
      BY <2>4 DEF PassPacket, HasHandler
    <3>2. CASE thread[task.c] \in Threads
      <4> HIDE DEF k, task
      <4>1. TasksSound'
        BY <1>1, <1>3, <1>4, <1>5, <1>6, <1>7, <3>1, <3>2, AppendSound DEF MembersInv
      <4> QED BY <1>7, <3>1, <4>1 DEF MembersInv, AdmittedOnce
    <3>3. CASE thread[task.c] \notin Threads
      <4>1. queue' = Done("conn") BY <1>3, <3>1, <3>3
      <4> QED BY <1>7, <1>8, <3>1, <4>1 DEF MembersInv, AdmittedOnce
    <3> QED BY <3>2, <3>3
  <2>5. ASSUME NEW th \in PoolThreads, AdmitFirst(th) PROVE TasksSound' /\ AdmittedOnce'
    <3>1. /\ queue' = [Done("conn") EXCEPT ![th] = Append(@, k)]
          /\ conn[task.c] = "first"
          /\ conn' = [conn EXCEPT ![task.c] = "client"]
          /\ thread' = [thread EXCEPT ![task.c] = th]
          /\ cache' = cache \cup {task.c}
      BY <2>5 DEF AdmitFirst
    <3>2. th \in Threads BY DEF PoolThreads, Threads
    <3>3. \A c \in Conns : conn[c] = "client" => conn'[c] = "client" /\ thread'[c] = thread[c]
      BY <1>1, <1>4, <3>1 DEF TypeOK
    <3>4. thread'[k.c] = th /\ conn'[k.c] = "client"
      BY <1>1, <1>4, <3>1 DEF TypeOK
    <3>5. AdmittedOnce'
      BY <1>1, <1>4, <1>7, <3>1 DEF MembersInv, AdmittedOnce, TypeOK
    <3>6. k \in Tasks /\ k.kind = "handle" /\ k.req \notin {"extend", "state"}
      BY <1>4, <1>5
    <3>7. TypeOK /\ TasksSound BY DEF MembersInv
    <3>8. token' = token /\ uid' = uid /\ queue' = [Done("conn") EXCEPT ![th] = Append(@, k)]
      BY <1>7, <3>1
    <3> HIDE DEF k
    <3>9. TasksSound'
      BY <1>3, <1>6, <3>2, <3>3, <3>4, <3>6, <3>7, <3>8, AppendSound
    <3> QED BY <3>5, <3>9
  <2> QED BY <2>1, <2>2, <2>3, <2>4, <2>5 DEF ConnThread
<1> QED BY <1>1, <1>7, <1>9
        DEF MembersInv, TokensDistinct, TokensFound, MemberHasClient

\* LeaveMember removes the token of its client from the table, also when it
\* finds nothing to do, and removes no other client.
LEMMA LeaveMemberRemoves ==
  ASSUME NEW c, LeaveMember(c)
  PROVE  members' = Remove(members, token[c]) /\ clients \ {c} \subseteq clients'
                                             /\ clients' \subseteq clients
BY DEF LeaveMember, Remove

\* The first task of a thread is sound.
LEMMA HeadSound ==
  ASSUME TypeOK, TasksSound, NEW t \in Threads, queue[t] # <<>>
  PROVE  Head(queue[t]) \in Tasks /\ TaskSound(t, 1, Head(queue[t]))
<1>1. queue[t] \in Seq(Tasks) BY DEF TypeOK
<1>2. Head(queue[t]) = queue[t][1] /\ 1 \in 1 .. Len(queue[t]) BY <1>1
<1> QED BY <1>1, <1>2 DEF TasksSound

LEMMA RoomStepMembers ==
  ASSUME MembersInv, NEW t \in Threads, RoomStep(t)
  PROVE  MembersInv'
<1> DEFINE task == Head(queue[t])
           c == task.c
<1>1. TypeOK /\ TypeOK' BY RoomStepType DEF MembersInv
<1>2. queue[t] # <<>>
  BY DEF RoomStep, ErrorIgnored, LeaveBegin, LeaveEnd, LoginAgain, LoginBegin, JoinMember,
         JoinRefused, LogoutDenied, Logout, UpdateDenied, UpdateBegin, UpdateEnd, KickOff,
         LostOnFreedRoom, CrashOnFreedRoom, Runs
<1>3. /\ task \in Tasks /\ TaskSound(t, 1, task)
      /\ c \in Conns /\ task.tok \in Tokens \cup {NoToken}
      /\ task.uid \in Uids \cup {NoUid}
  <2>1. task \in Tasks /\ TaskSound(t, 1, task) BY <1>1, <1>2, HeadSound DEF MembersInv
  <2> QED BY <2>1 DEF Tasks
<1>4. token \in [Conns -> Tokens \cup {NoToken}] /\ clients \subseteq Conns
  BY <1>1 DEF TypeOK
<1>5. conn' = conn /\ thread' = thread
  BY DEF RoomStep, ErrorIgnored, LeaveBegin, LeaveEnd, LoginAgain, LoginBegin, JoinMember,
         JoinRefused, LogoutDenied, Logout, UpdateDenied, UpdateBegin, UpdateEnd, KickOff,
         LostOnFreedRoom, CrashOnFreedRoom
\* Steps that leave the room as it is.
<1>6. ASSUME UNCHANGED <<token, uid, members, clients, cache, issued>>, TasksSound'
      PROVE  MembersInv'
  BY <1>1, <1>5, <1>6
     DEF MembersInv, AdmittedOnce, TokensDistinct, TokensFound, MemberHasClient
<1>7. ASSUME queue' = Done(t),
             \A d \in Conns : \/ token'[d] = token[d] /\ uid'[d] = uid[d]
                              \/ d = c /\ task.kind = "handle"
      PROVE  TasksSound'
  BY <1>1, <1>2, <1>5, <1>7, DoneSound DEF MembersInv
<1>8. ASSUME queue' = Done(t), UNCHANGED <<token, uid, members, clients, cache, issued>>
      PROVE  MembersInv'
  BY <1>6, <1>7, <1>8
<1>9. CASE ErrorIgnored(t) BY <1>8, <1>9 DEF ErrorIgnored
<1>10. CASE LeaveBegin(t)
  <2> DEFINE k == [task EXCEPT !.kind = "leave"]
  <2>1. k \in Tasks /\ k.kind = "leave" /\ k.req = task.req
    BY <1>3 DEF Tasks, ClientKinds
  <2>2. k.req \notin {"extend", "state"} BY <1>3, <2>1 DEF TaskSound
  <2>3. /\ queue' = GoOn(t, k)
        /\ UNCHANGED <<token, uid, members, clients, cache, issued>>
    BY <1>10 DEF LeaveBegin
  <2> HIDE DEF k
  <2>4. TypeOK /\ TasksSound BY DEF MembersInv
  <2>5. TasksSound' BY <1>2, <1>5, <2>1, <2>2, <2>3, <2>4, GoOnSound
  <2> QED BY <1>6, <2>3, <2>5
<1>11. CASE LeaveEnd(t)
  <2>1. /\ members' = Remove(members, token[c]) /\ clients' = clients \ {c}
        /\ queue' = Done(t)
        /\ UNCHANGED <<token, uid, cache, issued>>
    BY <1>11 DEF LeaveEnd
  <2>2. TasksSound' BY <1>7, <2>1
  <2>3. TokensFound' /\ MemberHasClient'
    BY <1>1, <1>3, <1>4, <2>1, RemovalKeeps DEF MembersInv
  <2>4. AdmittedOnce' /\ TokensDistinct'
    BY <1>5, <2>1 DEF MembersInv, AdmittedOnce, TokensDistinct
  <2> QED BY <1>1, <2>2, <2>3, <2>4 DEF MembersInv
<1>12. CASE LoginAgain(t) BY <1>8, <1>12 DEF LoginAgain
<1>13. CASE LoginBegin(t)
  <2> DEFINE k == [task EXCEPT !.kind = "join", !.tok = issued + 1]
  <2>1. /\ LeaveMember(c) /\ task.kind = "handle"
        /\ token' = [token EXCEPT ![c] = issued + 1]
        /\ uid' = [uid EXCEPT ![c] = task.uid]
        /\ issued' = issued + 1 /\ issued < MaxToken
        /\ queue' = GoOn(t, k)
        /\ UNCHANGED cache
    BY <1>13 DEF LoginBegin, Runs
  <2>2. /\ issued \in Nat /\ issued + 1 \in Tokens
        /\ \A d \in Conns : token[d] \in Nat
        /\ uid \in [Conns -> Uids \cup {NoUid}]
    BY <1>1, <1>4, <2>1, MaxTokenAssumption DEF TypeOK, Tokens, NoToken
  <2>3. /\ k \in Tasks /\ k.kind = "join" /\ k.c = c /\ k.tok = issued + 1
        /\ k.uid = task.uid /\ k.req = task.req
    BY <1>3, <2>2 DEF Tasks, ClientKinds
  <2>4. thread[k.c] = t /\ conn[k.c] = "client" /\ k.req \notin {"extend", "state"}
    BY <1>3, <2>1, <2>3 DEF TaskSound
  <2>5. /\ token'[c] = issued + 1 /\ uid'[c] = task.uid
        /\ \A d \in Conns \ {c} : token'[d] = token[d] /\ uid'[d] = uid[d]
    BY <1>3, <1>4, <2>1, <2>2
  <2>6. TasksSound'
    <3> HIDE DEF k
    <3>1. TypeOK /\ TasksSound BY DEF MembersInv
    <3>2. queue' = GoOn(t, k) BY <2>1
    <3>3. token'[k.c] = k.tok /\ uid'[k.c] = k.uid BY <2>3, <2>5
    <3>4. \A d \in Conns : \/ token'[d] = token[d] /\ uid'[d] = uid[d]
                           \/ d = Head(queue[t]).c /\ Head(queue[t]).kind = "handle"
      BY <2>1, <2>5
    <3> QED BY <1>2, <1>5, <2>3, <2>4, <3>1, <3>2, <3>3, <3>4, GoOnSound
  <2>7. /\ members' = Remove(members, token[c])
        /\ clients \ {c} \subseteq clients' /\ clients' \subseteq clients
    BY <2>1, LeaveMemberRemoves
  <2>8. TokensFound' /\ MemberHasClient'
    <3>1. \A d \in clients : token[d] # token[c] =>
             d \in clients' /\ token'[d] = token[d] /\ uid'[d] = uid[d]
      BY <1>4, <2>5, <2>7
    <3> QED BY <1>1, <1>3, <1>4, <2>7, <3>1, RemovalKeeps DEF MembersInv
  <2>9. AdmittedOnce' BY <1>5, <2>1, <2>7 DEF MembersInv, AdmittedOnce
  <2>10. TokensDistinct'
    <3>1. \A d \in Conns : token[d] <= issued BY DEF MembersInv, TokensDistinct
    <3>2. \A d \in Conns : token'[d] <= issued'
      BY <2>1, <2>2, <2>5, <3>1
    <3>3. \A d \in Conns \ {c} : token'[d] # token'[c]
      BY <2>2, <2>5, <3>1
    <3>4. \A d, e \in Conns : token'[d] = token'[e] /\ token'[d] # NoToken => d = e
      BY <2>5, <3>3 DEF MembersInv, TokensDistinct
    <3> QED BY <3>2, <3>4 DEF TokensDistinct
  <2> QED BY <1>1, <2>6, <2>8, <2>9, <2>10 DEF MembersInv
<1>14. CASE JoinMember(t)
  <2>1. /\ c \in cache /\ task.kind = "join"
        /\ members' = Add(members, task.uid, task.tok)
        /\ clients' = clients \cup {c} /\ cache' = cache \ {c}
        /\ queue' = Done(t)
        /\ UNCHANGED <<token, uid, issued>>
    BY <1>14 DEF JoinMember, Runs
  <2>2. TasksSound' BY <1>7, <2>1
  <2>3. token[c] = task.tok /\ uid[c] = task.uid /\ conn[c] = "client"
    BY <1>3, <2>1 DEF TaskSound
  <2>4. AdmittedOnce' /\ TokensDistinct'
    BY <1>5, <2>1, <2>3 DEF MembersInv, AdmittedOnce, TokensDistinct
  <2>5. /\ members'.users = [members.users EXCEPT ![task.uid] = task.tok]
        /\ members'.tokens = [members.tokens EXCEPT ![task.tok] = task.uid]
        /\ members.users \in [Uids -> Tokens \cup {NoToken}]
        /\ members.tokens \in [Tokens -> Uids \cup {NoUid}]
    BY <1>1, <2>1 DEF Add, TypeOK, MemberLists
  <2>6. ASSUME NEW u \in Uids, members'.users[u] # NoToken
        PROVE  /\ members'.tokens[members'.users[u]] = u
               /\ \E d \in clients' : token'[d] = members'.users[u] /\ uid'[d] = u
    <3>1. CASE u = task.uid
      <4>1. members'.users[u] = task.tok /\ task.tok \in Tokens
        BY <1>3, <2>5, <2>6, <3>1
      <4> QED BY <2>1, <2>3, <2>5, <3>1, <4>1
    <3>2. CASE u # task.uid
      <4>1. members'.users[u] = members.users[u] BY <2>5, <3>2
      <4>2. /\ members.tokens[members.users[u]] = u
            /\ members.users[u] \in Tokens
        BY <2>5, <2>6, <4>1 DEF MembersInv, TokensFound
      <4>3. PICK d \in clients : token[d] = members.users[u] /\ uid[d] = u
        BY <2>6, <4>1 DEF MembersInv, MemberHasClient
      <4>4. d # c BY <2>1, <4>3 DEF MembersInv, AdmittedOnce
      <4>5. members.users[u] # task.tok
        BY <1>3, <1>4, <2>3, <2>6, <4>1, <4>3, <4>4 DEF MembersInv, TokensDistinct
      <4>6. members'.tokens[members.users[u]] = u BY <2>5, <4>2, <4>5
      <4> QED BY <2>1, <4>1, <4>3, <4>6
    <3> QED BY <3>1, <3>2
  <2>7. TokensFound' /\ MemberHasClient' BY <2>6 DEF TokensFound, MemberHasClient
  <2> QED BY <1>1, <2>2, <2>4, <2>7 DEF MembersInv
<1>15. CASE JoinRefused(t) BY <1>8, <1>15 DEF JoinRefused
<1>16. CASE LogoutDenied(t) BY <1>8, <1>16 DEF LogoutDenied
<1>17. CASE Logout(t)
  <2>1. /\ LeaveMember(c) /\ task.kind = "handle"
        /\ token' = [token EXCEPT ![c] = NoToken]
        /\ queue' = Done(t)
        /\ UNCHANGED <<uid, cache, issued>>
    BY <1>17 DEF Logout, Runs
  <2>2. /\ token'[c] = NoToken
        /\ \A d \in Conns \ {c} : token'[d] = token[d]
    BY <1>3, <1>4, <2>1
  <2>3. TasksSound' BY <1>7, <2>1, <2>2
  <2>4. /\ members' = Remove(members, token[c])
        /\ clients \ {c} \subseteq clients' /\ clients' \subseteq clients
    BY <2>1, LeaveMemberRemoves
  <2>5. TokensFound' /\ MemberHasClient'
    <3>1. \A d \in clients : token[d] # token[c] =>
             d \in clients' /\ token'[d] = token[d] /\ uid'[d] = uid[d]
      BY <1>4, <2>1, <2>2, <2>4
    <3> QED BY <1>1, <1>3, <1>4, <2>4, <3>1, RemovalKeeps DEF MembersInv
  <2>6. AdmittedOnce' BY <1>5, <2>1, <2>4 DEF MembersInv, AdmittedOnce
  <2>7. TokensDistinct'
    <3>1. issued \in Nat /\ NoToken = 0 BY <1>1 DEF TypeOK, NoToken
    <3>2. \A d \in Conns : token'[d] <= issued'
      BY <2>1, <2>2, <3>1 DEF MembersInv, TokensDistinct
    <3>3. \A d, e \in Conns : token'[d] = token'[e] /\ token'[d] # NoToken => d = e
      BY <2>2 DEF MembersInv, TokensDistinct
    <3> QED BY <3>2, <3>3 DEF TokensDistinct
  <2> QED BY <1>1, <2>3, <2>5, <2>6, <2>7 DEF MembersInv
<1>18. CASE UpdateDenied(t) BY <1>8, <1>18 DEF UpdateDenied
<1>19. CASE UpdateBegin(t) BY <1>3, <1>19 DEF UpdateBegin, TaskSound
<1>20. CASE UpdateEnd(t) BY <1>3, <1>20 DEF UpdateEnd, Runs, TaskSound
<1>21. CASE KickOff(t)
  <2>1. /\ members' = Remove(members, task.tok)
        /\ clients' = clients \ {d \in clients : token[d] = task.tok}
        /\ queue' = Done(t)
        /\ UNCHANGED <<token, uid, cache, issued>>
    BY <1>21 DEF KickOff
  <2>2. TasksSound' BY <1>7, <2>1
  <2>3. TokensFound' /\ MemberHasClient'
    BY <1>1, <1>3, <2>1, RemovalKeeps DEF MembersInv
  <2>4. AdmittedOnce' /\ TokensDistinct'
    BY <1>5, <2>1 DEF MembersInv, AdmittedOnce, TokensDistinct
  <2> QED BY <1>1, <2>2, <2>3, <2>4 DEF MembersInv
<1>22. CASE LostOnFreedRoom(t) BY <1>8, <1>22 DEF LostOnFreedRoom
<1>23. CASE CrashOnFreedRoom(t)
  <2>1. UNCHANGED <<queue, token, uid, members, clients, cache, issued>>
    BY <1>23 DEF CrashOnFreedRoom
  <2>2. TasksSound' BY <1>5, <2>1 DEF MembersInv, TasksSound, TaskSound
  <2> QED BY <1>6, <2>1, <2>2
<1> QED BY <1>9, <1>10, <1>11, <1>12, <1>13, <1>14, <1>15, <1>16, <1>17, <1>18, <1>19,
           <1>20, <1>21, <1>22, <1>23 DEF RoomStep

\* MembersInv is inductive for rooms without updates.
THEOREM MembersInvariant ==
  ASSUME Requests \cap {"extend", "state"} = {}
  PROVE  Spec => []MembersInv
<1>1. MembersInv /\ [Next]_vars => MembersInv'
  <2> SUFFICES ASSUME MembersInv, [Next]_vars PROVE MembersInv'
    OBVIOUS
  <2>1. CASE Network BY <2>1, NetworkMembers
  <2>2. ASSUME NEW t \in Threads, Step(t) PROVE MembersInv'
    BY <2>2, StepCases, ConnThreadMembers, RoomStepMembers
  <2>3. CASE CheckRoom
    <3>1. TypeOK' BY <2>3, NoMembersType DEF CheckRoom, MembersInv, TypeOK
    <3>2. UNCHANGED <<queue, conn, thread, token, uid, clients, cache, issued>>
      BY <2>3 DEF CheckRoom
    <3>3. TasksSound' BY <3>2 DEF MembersInv, TasksSound, TaskSound
    <3>4. TokensFound' /\ MemberHasClient'
      BY <2>3 DEF CheckRoom, NoMembers, TokensFound, MemberHasClient
    <3> QED BY <3>1, <3>2, <3>3, <3>4 DEF MembersInv, AdmittedOnce, TokensDistinct
  <2>4. CASE UNCHANGED vars
    BY <2>4 DEF MembersInv, TypeOK, AdmittedOnce, TokensDistinct, TasksSound, TaskSound,
                TokensFound, MemberHasClient
  <2> QED BY <2>1, <2>2, <2>3, <2>4 DEF Next
<1> QED BY <1>1, InitMembers, PTL DEF Spec

\* Whoever the table of the room shows is in the room, whatever the threads
\* do with logins, logouts, kicks, lost connections and deleted rooms, as long
\* as no client updates its extension or state.
THEOREM MembersArePresent ==
  ASSUME Requests \cap {"extend", "state"} = {}
  PROVE  Spec => []MemberHasClient
<1>1. MembersInv => MemberHasClient BY DEF MembersInv
<1> QED BY <1>1, MembersInvariant, PTL

\* CheckRoom, which looks at the lists of clients only, deletes no room whose
\* table still shows a member.
THEOREM DeletedRoomsAreEmpty ==
  ASSUME Requests \cap {"extend", "state"} = {}
  PROVE  Spec => DeletedRoomHadNoMember
<1> DEFINE A == roomThread # "none" /\ roomThread' = "none"
                  => \A u \in Uids : members.users[u] = NoToken
<1>1. MembersInv /\ [Next]_vars => [A]_vars
  <2> SUFFICES ASSUME MembersInv, Next, roomThread # "none", roomThread' = "none"
               PROVE  CheckRoom
    BY DEF MembersInv, CheckRoom, MemberHasClient
  <2>1. CASE Network
    BY <2>1 DEF Network, LoginPackets, OwnTokenPackets, OtherTokenPackets, ReadPacket,
                ReadError, WriteError
  <2>2. ASSUME NEW t \in Threads, Step(t) PROVE FALSE
    <3>1. CASE ConnThread
      BY <3>1 DEF ConnThread, DropPacket, RejectFirst, RefuseDuplicate, PassPacket,
                  AdmitFirst, PoolThreads
    <3>2. CASE RoomStep(t)
      BY <3>2 DEF RoomStep, ErrorIgnored, LeaveBegin, LeaveEnd, LoginAgain, LoginBegin,
                  JoinMember, JoinRefused, LogoutDenied, Logout, UpdateDenied, UpdateBegin,
                  UpdateEnd, KickOff, LostOnFreedRoom, CrashOnFreedRoom
    <3> QED BY <2>2, <3>1, <3>2, StepCases
  <2> QED BY <2>1, <2>2 DEF Next
<1> QED BY <1>1, MembersInvariant, PTL DEF Spec, DeletedRoomHadNoMember
-----------------------------------------------------------------------------
(* After a kick, for every set of requests *)

\* Only clients were ever detached: NotifyKickOff goes through _clients.
DetachedAdmitted == \A c \in detached : conn[c] = "client"

\* A step that only ends tasks leaves no new request of c in the queues; nor
\* does one that replaces or adds a task that is no request of c.
LEMMA DonePending ==
  ASSUME TypeOK, NEW t \in Threads, queue[t] # <<>>, queue' = Done(t),
         NEW c \in Conns, HasPending(c)'
  PROVE  HasPending(c)
<1>1. PICK s \in Threads : \E i \in 1 .. Len(Done(t)[s]) :
         Done(t)[s][i].c = c /\ Done(t)[s][i].kind = "handle"
  BY DEF HasPending
<1>2. PICK i \in 1 .. Len(Done(t)[s]) :
         Done(t)[s][i].c = c /\ Done(t)[s][i].kind = "handle"
  BY <1>1
<1>3. IF s = t THEN i + 1 \in 1 .. Len(queue[s]) /\ Done(t)[s][i] = queue[s][i + 1]
               ELSE i \in 1 .. Len(queue[s]) /\ Done(t)[s][i] = queue[s][i]
  BY DoneTasks
<1> QED BY <1>2, <1>3 DEF HasPending

LEMMA GoOnPending ==
  ASSUME TypeOK, NEW t \in Threads, queue[t] # <<>>,
         NEW k \in Tasks, k.kind # "handle", queue' = GoOn(t, k),
         NEW c \in Conns, HasPending(c)'
  PROVE  HasPending(c)
<1>1. PICK s \in Threads : \E i \in 1 .. Len(GoOn(t, k)[s]) :
         GoOn(t, k)[s][i].c = c /\ GoOn(t, k)[s][i].kind = "handle"
  BY DEF HasPending
<1>2. PICK i \in 1 .. Len(GoOn(t, k)[s]) :
         GoOn(t, k)[s][i].c = c /\ GoOn(t, k)[s][i].kind = "handle"
  BY <1>1
<1>3. /\ i \in 1 .. Len(queue[s])
      /\ GoOn(t, k)[s][i] = IF s = t /\ i = 1 THEN k ELSE queue[s][i]
  BY GoOnTasks
<1> QED BY <1>2, <1>3 DEF HasPending

LEMMA AppendPending ==
  ASSUME NEW t \in Threads, NEW k \in Tasks, NEW q \in [Threads -> Seq(Tasks)],
         queue' = [q EXCEPT ![t] = Append(@, k)],
         NEW c \in Conns, k.kind # "handle" \/ k.c # c, HasPending(c)'
  PROVE  \E s \in Threads : \E i \in 1 .. Len(q[s]) :
           q[s][i].c = c /\ q[s][i].kind = "handle"
<1>1. PICK s \in Threads : \E i \in 1 .. Len(queue'[s]) :
         queue'[s][i].c = c /\ queue'[s][i].kind = "handle"
  BY DEF HasPending
<1>2. PICK i \in 1 .. Len(queue'[s]) :
         queue'[s][i].c = c /\ queue'[s][i].kind = "handle"
  BY <1>1
<1>3. q[s] \in Seq(Tasks) OBVIOUS
<1>4. CASE s = t
  <2>1. queue'[s] = Append(q[s], k) BY <1>4
  <2>2. i \in 1 .. Len(q[s]) \/ i = Len(q[s]) + 1 BY <1>3, <2>1
  <2>3. i # Len(q[s]) + 1 BY <1>2, <1>3, <2>1
  <2>4. i \in 1 .. Len(q[s]) /\ queue'[s][i] = q[s][i] BY <1>3, <2>1, <2>2, <2>3
  <2> QED BY <1>2, <2>4
<1>5. CASE s # t BY <1>2, <1>5
<1> QED BY <1>4, <1>5

\* The threads and the network ask nothing in the name of a detached client.
LEMMA NetworkSilent ==
  ASSUME TypeOK, Network, NEW c \in Conns, HasPending(c)'
  PROVE  HasPending(c)
<1>1. queue \in [Threads -> Seq(Tasks)] /\ "conn" \in Threads BY DEF TypeOK, Threads
<1>2. ASSUME NEW k \in Tasks, k.kind # "handle",
             queue' = [queue EXCEPT !["conn"] = Append(@, k)]
      PROVE  HasPending(c)
  BY <1>1, <1>2, AppendPending DEF HasPending
<1>3. ASSUME NEW d \in Conns, NEW req \in AllRequests, NEW u \in Uids \cup {NoUid},
             NEW t \in Tokens \cup {NoToken}, ReadPacket(d, req, u, t)
      PROVE  HasPending(c)
  <2> DEFINE k == [kind |-> "packet", c |-> d, req |-> req, uid |-> u, tok |-> t]
  <2>1. k \in Tasks /\ k.kind # "handle" BY DEF Tasks
  <2>2. queue' = [queue EXCEPT !["conn"] = Append(@, k)] BY <1>3 DEF ReadPacket
  <2> HIDE DEF k
  <2> QED BY <1>2, <2>1, <2>2
<1>4. ASSUME NEW d \in Conns, ReadError(d) PROVE HasPending(c)
  <2>1. ErrorTask(d) \in Tasks /\ ErrorTask(d).kind # "handle" BY DEF ErrorTask, Tasks
  <2>2. queue' = [queue EXCEPT !["conn"] = Append(@, ErrorTask(d))]
    BY <1>4 DEF ReadError
  <2> QED BY <1>2, <2>1, <2>2
<1>5. ASSUME NEW d \in Conns, WriteError(d) PROVE HasPending(c)
  <2>1. queue' = [queue EXCEPT !["io"] = <<ErrorTask(d)>>] BY <1>5 DEF WriteError
  <2>2. PICK s \in Threads : \E i \in 1 .. Len(queue'[s]) :
           queue'[s][i].c = c /\ queue'[s][i].kind = "handle"
    BY DEF HasPending
  <2>3. s # "io"
    <3> SUFFICES ASSUME s = "io" PROVE FALSE
      OBVIOUS
    <3>1. queue'[s] = <<ErrorTask(d)>> BY <1>1, <2>1
    <3> QED BY <2>2, <3>1 DEF ErrorTask
  <2>4. queue'[s] = queue[s] BY <1>1, <2>1, <2>3
  <2> QED BY <2>2, <2>4 DEF HasPending
<1>6. \A d \in Conns : token[d] \in Tokens \cup {NoToken} BY DEF TypeOK
<1> QED BY <1>3, <1>4, <1>5, <1>6, RequestsAssumption
        DEF Network, LoginPackets, OwnTokenPackets, OtherTokenPackets

LEMMA ConnThreadSilent ==
  ASSUME TypeOK, DetachedAdmitted, ConnThread, NEW c \in detached, HasPending(c)'
  PROVE  HasPending(c)
<1> DEFINE task == Head(queue["conn"])
           k == [task EXCEPT !.kind = "handle"]
<1>1. queue["conn"] # <<>> /\ "conn" \in Threads
  BY DEF ConnThread, DropPacket, RejectFirst, RefuseDuplicate, PassPacket, AdmitFirst,
         Runs, Threads
<1>2. task \in Tasks /\ Done("conn") \in [Threads -> Seq(Tasks)] BY <1>1, QueueType
<1>3. task.c \in Conns /\ k \in Tasks /\ k.c = task.c BY <1>2 DEF Tasks, ClientKinds
<1>4. c \in Conns /\ conn[c] = "client" BY DEF TypeOK, DetachedAdmitted
<1>5. ASSUME NEW th \in Threads, task.c # c,
             queue' = [Done("conn") EXCEPT ![th] = Append(@, k)]
      PROVE  HasPending(c)
  <2>1. k.kind # "handle" \/ k.c # c BY <1>3, <1>5
  <2>2. k \in Tasks BY <1>3
  <2>3. Done("conn") \in [Threads -> Seq(Tasks)] BY <1>2
  <2>4. queue' = [Done("conn") EXCEPT ![th] = Append(@, k)] BY <1>5
  <2> HIDE DEF k
  <2>5. PICK s \in Threads : \E i \in 1 .. Len(Done("conn")[s]) :
          Done("conn")[s][i].c = c /\ Done("conn")[s][i].kind = "handle"
    BY <1>4, <2>1, <2>2, <2>3, <2>4, AppendPending
  <2>6. PICK i \in 1 .. Len(Done("conn")[s]) :
          Done("conn")[s][i].c = c /\ Done("conn")[s][i].kind = "handle"
    BY <2>5
  <2>7. IF s = "conn"
          THEN i + 1 \in 1 .. Len(queue[s]) /\ Done("conn")[s][i] = queue[s][i + 1]
          ELSE i \in 1 .. Len(queue[s]) /\ Done("conn")[s][i] = queue[s][i]
    BY <1>1, DoneTasks
  <2> QED BY <2>6, <2>7 DEF HasPending
<1>6. CASE DropPacket \/ RejectFirst \/ RefuseDuplicate
  <2>1. queue' = Done("conn") BY <1>6 DEF DropPacket, RejectFirst, RefuseDuplicate
  <2> QED BY <1>1, <1>4, <2>1, DonePending
<1>7. CASE PassPacket
  <2>1. /\ task.c # c
        /\ queue' = [Done("conn") EXCEPT ![thread[task.c]] = Append(@, k)]
    BY <1>7 DEF PassPacket, HasHandler
  <2>2. CASE thread[task.c] \in Threads BY <1>5, <2>1, <2>2
  <2>3. CASE thread[task.c] \notin Threads
    <3>1. queue' = Done("conn") BY <1>2, <2>1, <2>3
    <3> QED BY <1>1, <1>4, <3>1, DonePending
  <2> QED BY <2>2, <2>3
<1>8. ASSUME NEW th \in PoolThreads, AdmitFirst(th) PROVE HasPending(c)
  <2>1. /\ conn[task.c] = "first"
        /\ queue' = [Done("conn") EXCEPT ![th] = Append(@, k)]
    BY <1>8 DEF AdmitFirst
  <2>2. th \in Threads /\ task.c # c BY <1>4, <2>1 DEF PoolThreads, Threads
  <2> QED BY <1>5, <2>1, <2>2
<1> QED BY <1>6, <1>7, <1>8 DEF ConnThread

LEMMA RoomStepSilent ==
  ASSUME TypeOK, NEW t \in Threads, RoomStep(t), NEW c \in Conns, HasPending(c)'
  PROVE  HasPending(c)
<1> DEFINE task == Head(queue[t])
           found == GetMember(members, token[task.c])
<1>1. queue[t] # <<>>
  BY DEF RoomStep, ErrorIgnored, LeaveBegin, LeaveEnd, LoginAgain, LoginBegin, JoinMember,
         JoinRefused, LogoutDenied, Logout, UpdateDenied, UpdateBegin, UpdateEnd, KickOff,
         LostOnFreedRoom, CrashOnFreedRoom, Runs
<1>2. task \in Tasks /\ task.c \in Conns
  <2>1. task \in Tasks BY <1>1, QueueType
  <2> QED BY <2>1 DEF Tasks
<1>3. CASE LeaveBegin(t)
  <2> DEFINE k == [task EXCEPT !.kind = "leave"]
  <2>1. k \in Tasks /\ k.kind # "handle" BY <1>2 DEF Tasks, ClientKinds
  <2>2. queue' = GoOn(t, k) BY <1>3 DEF LeaveBegin
  <2> HIDE DEF k
  <2> QED BY <1>1, <2>1, <2>2, GoOnPending
<1>4. CASE LoginBegin(t)
  <2> DEFINE k == [task EXCEPT !.kind = "join", !.tok = issued + 1]
  <2>1. issued + 1 \in Tokens
    BY <1>4, MaxTokenAssumption DEF LoginBegin, TypeOK, Tokens
  <2>2. k \in Tasks /\ k.kind # "handle" BY <1>2, <2>1 DEF Tasks, ClientKinds
  <2>3. queue' = GoOn(t, k) BY <1>4 DEF LoginBegin
  <2> HIDE DEF k
  <2> QED BY <1>1, <2>2, <2>3, GoOnPending
<1>5. CASE UpdateBegin(t) /\ found # NoToken
  <2> DEFINE k == [task EXCEPT !.kind = "update", !.tok = found,
                               !.uid = members.tokens[token[task.c]]]
  <2>1. found \in Tokens \cup {NoToken} BY GetMemberType DEF TypeOK
  <2>2. token[task.c] \in Tokens /\ members.tokens[token[task.c]] \in Uids
    BY <1>5 DEF GetMember
  <2>3. k \in Tasks /\ k.kind # "handle" BY <1>2, <2>1, <2>2 DEF Tasks, ClientKinds
  <2>4. queue' = GoOn(t, k) BY <1>5 DEF UpdateBegin
  <2> HIDE DEF k
  <2> QED BY <1>1, <2>3, <2>4, GoOnPending
<1>6. CASE CrashOnFreedRoom(t) BY <1>6 DEF CrashOnFreedRoom, HasPending
<1>7. CASE queue' = Done(t) BY <1>1, <1>7, DonePending
<1> QED BY <1>3, <1>4, <1>5, <1>6, <1>7
        DEF RoomStep, ErrorIgnored, LeaveEnd, LoginAgain, JoinMember, JoinRefused,
            LogoutDenied, Logout, UpdateDenied, UpdateBegin, UpdateEnd, KickOff,
            LostOnFreedRoom

\* Who is kicked was in _clients.
LEMMA NextDetached ==
  ASSUME TypeOK, AdmittedOnce, DetachedAdmitted, [Next]_vars
  PROVE  DetachedAdmitted'
<1>1. ListsStep BY NextLists
<1>2. detached' \subseteq detached \cup clients
  <2>1. CASE Network
    BY <2>1 DEF Network, LoginPackets, OwnTokenPackets, OtherTokenPackets, ReadPacket,
                ReadError, WriteError
  <2>2. ASSUME NEW t \in Threads, Step(t) PROVE detached' \subseteq detached \cup clients
    <3>1. CASE ConnThread
      BY <3>1 DEF ConnThread, DropPacket, RejectFirst, RefuseDuplicate, PassPacket,
                  AdmitFirst
    <3>2. CASE RoomStep(t)
      BY <3>2 DEF RoomStep, ErrorIgnored, LeaveBegin, LeaveEnd, LoginAgain, LoginBegin,
                  JoinMember, JoinRefused, LogoutDenied, Logout, UpdateDenied, UpdateBegin,
                  UpdateEnd, KickOff, LostOnFreedRoom, CrashOnFreedRoom
    <3> QED BY <2>2, <3>1, <3>2, StepCases
  <2>3. CASE CheckRoom BY <2>3 DEF CheckRoom
  <2>4. CASE UNCHANGED vars BY <2>4
  <2> QED BY <2>1, <2>2, <2>3, <2>4 DEF Next
<1>3. \A c \in detached \cup clients : c \in Conns /\ conn[c] = "client"
  BY DEF TypeOK, AdmittedOnce, DetachedAdmitted
<1> QED BY <1>1, <1>2, <1>3 DEF ListsStep, DetachedAdmitted

\* After HandleKickOff has detached a client, no packet of its connection is
\* passed to the room any more, whatever was read before and whatever is still
\* queued, for every set of requests.
THEOREM KickedAreSilent == Spec => KickedIsSilent
<1> DEFINE A == \A c \in detached : HasPending(c)' => HasPending(c)
           I == TypeOK /\ AdmittedOnce /\ DetachedAdmitted
<1>1. Init => DetachedAdmitted BY DEF Init, DetachedAdmitted
<1>2. I /\ [Next]_vars => DetachedAdmitted' BY NextDetached
<1>3. I /\ [Next]_vars => [A]_vars
  <2> SUFFICES ASSUME I, Next, NEW c \in detached, HasPending(c)' PROVE HasPending(c)
    OBVIOUS
  <2>1. c \in Conns BY DEF TypeOK
  <2>2. CASE Network BY <2>1, <2>2, NetworkSilent
  <2>3. ASSUME NEW t \in Threads, Step(t) PROVE HasPending(c)
    BY <2>1, <2>3, StepCases, ConnThreadSilent, RoomStepSilent
  <2>4. CASE CheckRoom BY <2>4 DEF CheckRoom, HasPending
  <2> QED BY <2>2, <2>3, <2>4 DEF Next
<1> QED BY <1>1, <1>2, <1>3, TypeCorrect, OneListAtMost, PTL DEF Spec, KickedIsSilent
=============================================================================

------------------------- MODULE RoomDirectoryProofs -------------------------
(***************************************************************************)
(* Proof that the room server implements RoomDirectory, for any number of  *)
(* connections, user ids, packets and tokens, as long as no client updates *)
(* its extension or its state.                                             *)
(*                                                                         *)
(* What has to be seen is that a login enters in the place of older ones   *)
(* only.  Tokens are handed out in one step and used in a later one, and a *)
(* client that has outlived its room may log in on another thread between  *)
(* the two.  But such a client is not among the waiting ones any more; all *)
(* that are wait on the thread of the room, one login at a time.           *)
(***************************************************************************)
EXTENDS RoomServerProofs

\* Thread t is between the two halves of a login.
JoinHead(t) == queue[t] # <<>> /\ Head(queue[t]).kind = "join"

\* The clients that wait to be let in are clients of the room there is.
CacheSound == \A c \in cache : roomThread # "none" /\ thread[c] = roomThread

\* A waiting client that has its token will be the latest to enter.
JoinsNewer ==
  \A t \in Threads : JoinHead(t) /\ Head(queue[t]).c \in cache
    => \A u \in Uids : members.users[u] < Head(queue[t]).tok

\* Only logins are done in two halves, with a token; every login gives a name.
Named(k) == /\ k.req \in {"login", "badlogin"} => k.uid \in Uids
            /\ k.kind = "join" => k.req \in {"login", "badlogin"} /\ k.tok # NoToken

TasksNamed == \A t \in Threads : \A i \in 1 .. Len(queue[t]) : Named(queue[t][i])

DirectoryInv == MembersInv /\ CacheSound /\ JoinsNewer /\ TasksNamed

-----------------------------------------------------------------------------
(* How the steps change the heads of the queues *)

USE DEF vars, connVars, clientVars, roomVars

SameHead(s) == /\ JoinHead(s)' <=> JoinHead(s)
               /\ JoinHead(s) => Head(queue'[s]) = Head(queue[s])

\* After a task is done, no login is left half-way on its thread.
LEMMA DoneHeads ==
  ASSUME MembersInv, NEW t \in Threads, queue[t] # <<>>, queue' = Done(t)
  PROVE  ~JoinHead(t)' /\ \A s \in Threads \ {t} : SameHead(s)
<1>1. queue \in [Threads -> Seq(Tasks)] BY DEF MembersInv, TypeOK
<1>2. \A s \in Threads \ {t} : SameHead(s) BY <1>1 DEF Done, SameHead, JoinHead
<1>3. ~JoinHead(t)'
  <2> SUFFICES ASSUME JoinHead(t)' PROVE FALSE
    OBVIOUS
  <2>1. queue'[t] = Tail(queue[t]) BY <1>1 DEF Done
  <2>2. Tail(queue[t]) # <<>> BY <2>1 DEF JoinHead
  <2>3. 2 \in 1 .. Len(queue[t]) /\ Head(Tail(queue[t])) = queue[t][2]
    BY <1>1, <2>2
  <2>4. queue[t][2].kind = "join" BY <2>1, <2>3 DEF JoinHead
  <2> QED BY <2>3, <2>4 DEF MembersInv, TasksSound, TaskSound
<1> QED BY <1>2, <1>3

LEMMA GoOnHeads ==
  ASSUME MembersInv, NEW t \in Threads, queue[t] # <<>>, NEW k \in Tasks,
         queue' = GoOn(t, k)
  PROVE  /\ queue'[t] # <<>> /\ Head(queue'[t]) = k
         /\ \A s \in Threads \ {t} : SameHead(s)
<1>1. queue \in [Threads -> Seq(Tasks)] BY DEF MembersInv, TypeOK
<1>2. \A s \in Threads \ {t} : SameHead(s) BY <1>1 DEF GoOn, SameHead, JoinHead
<1>3. queue'[t] = <<k>> \o Tail(queue[t]) BY <1>1 DEF GoOn
<1>4. Tail(queue[t]) \in Seq(Tasks) BY <1>1
<1> QED BY <1>2, <1>3, <1>4

\* A task that is appended to the queues q is no login half-way.
LEMMA AppendHeads ==
  ASSUME NEW q \in [Threads -> Seq(Tasks)], NEW t \in Threads, NEW k \in Tasks,
         k.kind # "join", queue' = [q EXCEPT ![t] = Append(@, k)],
         NEW s \in Threads
  PROVE  /\ JoinHead(s)' <=> (q[s] # <<>> /\ Head(q[s]).kind = "join")
         /\ q[s] # <<>> => Head(queue'[s]) = Head(q[s])
<1>1. CASE s # t BY <1>1 DEF JoinHead
<1>2. CASE s = t
  <2>1. queue'[s] = Append(q[s], k) /\ q[s] \in Seq(Tasks) BY <1>2
  <2>2. q[s] # <<>> => Head(queue'[s]) = Head(q[s]) BY <2>1
  <2>3. q[s] = <<>> => Head(queue'[s]) = k BY <2>1
  <2>4. queue'[s] # <<>> BY <2>1
  <2> QED BY <2>2, <2>3, <2>4 DEF JoinHead
<1> QED BY <1>1, <1>2

-----------------------------------------------------------------------------
(* Every task has its name, whatever is done, replaced or appended. *)

LEMMA DoneNamed ==
  ASSUME MembersInv, TasksNamed, NEW t \in Threads, queue[t] # <<>>, queue' = Done(t)
  PROVE  TasksNamed'
<1> SUFFICES ASSUME NEW s \in Threads, NEW i \in 1 .. Len(Done(t)[s])
             PROVE  Named(Done(t)[s][i])
  BY DEF TasksNamed, Named
<1>1. TypeOK BY DEF MembersInv
<1>2. \E j \in 1 .. Len(queue[s]) : Done(t)[s][i] = queue[s][j]
  BY <1>1, DoneTasks
<1> QED BY <1>2 DEF TasksNamed

LEMMA GoOnNamed ==
  ASSUME MembersInv, TasksNamed, NEW t \in Threads, queue[t] # <<>>,
         NEW k \in Tasks, Named(k), queue' = GoOn(t, k)
  PROVE  TasksNamed'
<1> SUFFICES ASSUME NEW s \in Threads, NEW i \in 1 .. Len(GoOn(t, k)[s])
             PROVE  Named(GoOn(t, k)[s][i])
  BY DEF TasksNamed, Named
<1>1. TypeOK BY DEF MembersInv
<1>2. /\ i \in 1 .. Len(queue[s])
      /\ GoOn(t, k)[s][i] = IF s = t /\ i = 1 THEN k ELSE queue[s][i]
  BY <1>1, GoOnTasks
<1> QED BY <1>2 DEF TasksNamed

LEMMA AppendNamed ==
  ASSUME NEW q \in [Threads -> Seq(Tasks)], NEW t \in Threads, NEW k \in Tasks, Named(k),
         \A s \in Threads : \A i \in 1 .. Len(q[s]) : Named(q[s][i]),
         queue' = [q EXCEPT ![t] = Append(@, k)]
  PROVE  TasksNamed'
<1> SUFFICES ASSUME NEW s \in Threads, NEW i \in 1 .. Len(queue'[s])
             PROVE  Named(queue'[s][i])
  BY DEF TasksNamed, Named
<1>1. q[s] \in Seq(Tasks) /\ q[t] \in Seq(Tasks) OBVIOUS
<1>2. CASE i \in 1 .. Len(q[s])
  <2>1. queue'[s][i] = q[s][i] BY <1>1, <1>2
  <2> QED BY <1>2, <2>1
<1>3. CASE i \notin 1 .. Len(q[s])
  <2>1. s = t BY <1>3
  <2>2. queue'[s][i] = k BY <1>1, <1>3, <2>1
  <2> QED BY <2>2
<1> QED BY <1>2, <1>3

-----------------------------------------------------------------------------
(* The kinds of step as the directory sees them *)

\* A table from which at most one name is removed.
LEMMA RemoveRemoves ==
  ASSUME TypeOK, NEW t
  PROVE  \/ Remove(members, t).users = members.users
         \/ \E u \in Uids : Remove(members, t).users = [members.users EXCEPT ![u] = NoToken]
<1>1. CASE GetMember(members, t) = NoToken BY <1>1 DEF Remove
<1>2. CASE GetMember(members, t) # NoToken
  <2>1. members.tokens[t] \in Uids BY <1>2 DEF GetMember
  <2>2. Remove(members, t) =
          [members EXCEPT !.users = [members.users EXCEPT ![members.tokens[t]] = NoToken]]
    BY <1>2 DEF Remove
  <2>3. Remove(members, t).users = [members.users EXCEPT ![members.tokens[t]] = NoToken]
    BY <2>2 DEF TypeOK, MemberLists
  <2> QED BY <2>1, <2>3
<1> QED BY <1>1, <1>2

NameRemoved == \/ members'.users = members.users
               \/ \E u \in Uids : members'.users = [members.users EXCEPT ![u] = NoToken]

\* What stays the same in most steps.
CacheStays == cache' = cache /\ roomThread' = roomThread /\ thread' = thread

\* Names that are removed leave the waiting logins the latest.
LEMMA RemovalNewer ==
  ASSUME TypeOK, NameRemoved, NEW k \in Nat \ {0}, \A u \in Uids : members.users[u] < k
  PROVE  \A u \in Uids : members'.users[u] < k
<1>1. members.users \in [Uids -> Tokens \cup {NoToken}] BY DEF TypeOK, MemberLists
<1>2. \A u \in Uids : members'.users[u] \in {NoToken, members.users[u]}
  BY <1>1 DEF NameRemoved
<1>3. NoToken < k BY DEF NoToken
<1> QED BY <1>2, <1>3

\* A half-done login has its client, its token and its name, and it is the only
\* one with that token.
Login(t) == [uid |-> Head(queue[t]).uid, tok |-> Head(queue[t]).tok]

LEMMA JoinHeadSound ==
  ASSUME MembersInv, TasksNamed, NEW t \in Threads, JoinHead(t)
  PROVE  LET k == Head(queue[t])
         IN  /\ k \in Tasks /\ thread[k.c] = t /\ conn[k.c] = "client"
             /\ token[k.c] = k.tok /\ k.tok # NoToken /\ k.uid \in Uids
<1>1. TypeOK /\ TasksSound BY DEF MembersInv
<1>2. queue[t] \in Seq(Tasks) /\ queue[t] # <<>> BY <1>1 DEF TypeOK, JoinHead
<1>3. Head(queue[t]) = queue[t][1] /\ 1 \in 1 .. Len(queue[t]) BY <1>2
<1>4. Named(Head(queue[t])) BY <1>3 DEF TasksNamed
<1>5. Head(queue[t]) \in Tasks /\ TaskSound(t, 1, Head(queue[t]))
  BY <1>1, <1>2, HeadSound
<1> QED BY <1>4, <1>5 DEF JoinHead, Named, TaskSound

\* Answered as the logins at the heads of the queues.
LEMMA AnsweredSame ==
  ASSUME \A s \in Threads : SameHead(s)
  PROVE  Answered' = Answered
BY DEF Answered, SameHead, JoinHead

LEMMA AnsweredLess ==
  ASSUME MembersInv, TasksNamed, NEW t \in Threads, JoinHead(t), ~JoinHead(t)',
         \A s \in Threads \ {t} : SameHead(s)
  PROVE  Login(t) \in Answered /\ Answered' = Answered \ {Login(t)}
<1>1. Answered = {Login(s) : s \in {x \in Threads : JoinHead(x)}}
  BY DEF Answered, Login, JoinHead
<1>2. Answered' = {Login(s) : s \in {x \in Threads \ {t} : JoinHead(x)}}
  <2>1. \A s \in Threads \ {t} : JoinHead(s) => Head(queue'[s]) = Head(queue[s])
    BY DEF SameHead
  <2>2. \A s \in Threads : JoinHead(s)' <=> s # t /\ JoinHead(s) BY DEF SameHead
  <2>3. Answered' = {[uid |-> Head(queue'[s]).uid, tok |-> Head(queue'[s]).tok] :
                       s \in {x \in Threads : x # t /\ JoinHead(x)}}
    BY <2>2 DEF Answered, JoinHead
  <2> QED BY <2>1, <2>3 DEF Login
<1>3. ASSUME NEW s \in Threads \ {t}, JoinHead(s) PROVE Login(s) # Login(t)
  <2>1. SUFFICES ASSUME Head(queue[s]).tok = Head(queue[t]).tok PROVE FALSE
    BY DEF Login
  <2>2. /\ Head(queue[s]).c \in Conns /\ Head(queue[t]).c \in Conns
        /\ Head(queue[s]).tok \in Tokens \cup {NoToken}
        /\ token[Head(queue[s]).c] = token[Head(queue[t]).c]
        /\ token[Head(queue[s]).c] # NoToken
        /\ thread[Head(queue[s]).c] = s /\ thread[Head(queue[t]).c] = t
    BY <1>3, <2>1, JoinHeadSound DEF Tasks
  <2> QED BY <2>2 DEF MembersInv, TokensDistinct
<1> QED BY <1>1, <1>2, <1>3

LEMMA AnsweredMore ==
  ASSUME NEW t \in Threads, ~JoinHead(t), JoinHead(t)',
         \A s \in Threads \ {t} : SameHead(s)
  PROVE  Answered' = Answered \cup {Login(t)'}
<1>1. Answered = {Login(s) : s \in {x \in Threads \ {t} : JoinHead(x)}}
  <2>1. {x \in Threads : JoinHead(x)} = {x \in Threads \ {t} : JoinHead(x)} OBVIOUS
  <2> QED BY <2>1 DEF Answered, Login, JoinHead
<1>2. \A s \in Threads \ {t} : JoinHead(s) => Head(queue'[s]) = Head(queue[s])
  BY DEF SameHead
<1>3. \A s \in Threads : JoinHead(s)' <=> s = t \/ JoinHead(s) BY DEF SameHead
<1>4. Answered' = {[uid |-> Head(queue'[s]).uid, tok |-> Head(queue'[s]).tok] :
                     s \in {x \in Threads : x = t \/ JoinHead(x)}}
  BY <1>3 DEF Answered, JoinHead
<1> QED BY <1>1, <1>2, <1>4 DEF Login

\* The heads of all queues stay, or are no half-done logins, and at most one name
\* is removed: the directory is left by that name, or unchanged.
QuietStep == /\ \A s \in Threads : SameHead(s)
             /\ NameRemoved /\ CacheStays /\ issued' = issued

LEMMA QuietKeeps ==
  ASSUME DirectoryInv, MembersInv', TasksNamed', QuietStep
  PROVE  DirectoryInv' /\ [Directory!Next]_(Directory!vars)
<1>1. TypeOK BY DEF DirectoryInv, MembersInv
<1>2. CacheSound' BY DEF QuietStep, CacheStays, DirectoryInv, CacheSound
<1>3. ASSUME NEW t \in Threads, JoinHead(t)', Head(queue'[t]).c \in cache'
      PROVE  \A u \in Uids : members'.users[u] < Head(queue'[t]).tok
  <2>1. JoinHead(t) /\ Head(queue'[t]) = Head(queue[t]) /\ Head(queue[t]).c \in cache
    BY <1>3 DEF QuietStep, SameHead, CacheStays
  <2>2. \A u \in Uids : members.users[u] < Head(queue[t]).tok
    BY <2>1 DEF DirectoryInv, JoinsNewer
  <2>3. Head(queue[t]).tok \in Nat \ {0}
    BY <2>1, JoinHeadSound, MaxTokenAssumption DEF DirectoryInv, Tasks, Tokens, NoToken
  <2> QED BY <1>1, <2>1, <2>2, <2>3, RemovalNewer DEF QuietStep
<1>4. Answered' = Answered BY AnsweredSame DEF QuietStep
<1>5. [Directory!Next]_(Directory!vars)
  BY <1>4 DEF QuietStep, NameRemoved, Directory!Next, Directory!vars, Directory!Leave,
              Directory!Without, NoToken
<1> QED BY <1>2, <1>3, <1>5 DEF DirectoryInv, JoinsNewer

\* A half-done login ends without entering.
LEMMA ForgetKeeps ==
  ASSUME DirectoryInv, MembersInv', TasksNamed', NEW t \in Threads,
         JoinHead(t), ~JoinHead(t)', \A s \in Threads \ {t} : SameHead(s),
         members' = members, issued' = issued, CacheStays
  PROVE  DirectoryInv' /\ [Directory!Next]_(Directory!vars)
<1>1. CacheSound' BY DEF CacheStays, DirectoryInv, CacheSound
<1>2. JoinsNewer'
  <2>1. \A s \in Threads : JoinHead(s)' => JoinHead(s) /\ Head(queue'[s]) = Head(queue[s])
    BY DEF SameHead
  <2> QED BY <2>1 DEF DirectoryInv, JoinsNewer, CacheStays, JoinHead
<1>3. Login(t) \in Answered /\ Answered' = Answered \ {Login(t)}
  BY AnsweredLess DEF DirectoryInv
<1>4. [Directory!Next]_(Directory!vars) BY <1>3 DEF Directory!Next, Directory!Forget
<1> QED BY <1>1, <1>2, <1>4 DEF DirectoryInv

\* A step that finishes a task other than the second half of a login.
LEMMA DoneKeeps ==
  ASSUME DirectoryInv, MembersInv', NEW t \in Threads, queue[t] # <<>>, queue' = Done(t),
         Head(queue[t]).kind # "join", NameRemoved, CacheStays, issued' = issued
  PROVE  DirectoryInv' /\ [Directory!Next]_(Directory!vars)
<1>1. TasksNamed' BY DoneNamed DEF DirectoryInv
<1>2. \A s \in Threads : SameHead(s)
  BY DoneHeads DEF DirectoryInv, SameHead, JoinHead
<1> QED BY <1>1, <1>2, QuietKeeps DEF QuietStep

-----------------------------------------------------------------------------
(* The steps *)

LEMMA NetworkDirectory ==
  ASSUME DirectoryInv, MembersInv', Network
  PROVE  DirectoryInv' /\ [Directory!Next]_(Directory!vars)
<1>1. queue \in [Threads -> Seq(Tasks)] /\ "conn" \in Threads /\ "io" \in Threads
  BY DEF DirectoryInv, MembersInv, TypeOK, Threads
<1>2. UNCHANGED <<members, cache, roomThread, thread, issued>>
  BY DEF Network, LoginPackets, OwnTokenPackets, OtherTokenPackets, ReadPacket, ReadError,
         WriteError
<1>3. ASSUME NEW k \in Tasks, k.kind # "join", Named(k),
             queue' = [queue EXCEPT !["conn"] = Append(@, k)]
      PROVE  (\A s \in Threads : SameHead(s)) /\ TasksNamed'
  <2>1. \A s \in Threads : SameHead(s)
    BY <1>1, <1>3, AppendHeads DEF SameHead, JoinHead
  <2>2. TasksNamed' BY <1>1, <1>3, AppendNamed DEF DirectoryInv, TasksNamed
  <2> QED BY <2>1, <2>2
<1>4. ASSUME NEW c \in Conns, NEW req \in AllRequests, NEW u \in Uids \cup {NoUid},
             NEW t \in Tokens \cup {NoToken}, ReadPacket(c, req, u, t),
             req \in {"login", "badlogin"} => u \in Uids
      PROVE  (\A s \in Threads : SameHead(s)) /\ TasksNamed'
  <2> DEFINE k == [kind |-> "packet", c |-> c, req |-> req, uid |-> u, tok |-> t]
  <2>1. k \in Tasks /\ k.kind # "join" /\ Named(k) BY <1>4 DEF Tasks, Named
  <2>2. queue' = [queue EXCEPT !["conn"] = Append(@, k)] BY <1>4 DEF ReadPacket
  <2> HIDE DEF k
  <2> QED BY <1>3, <2>1, <2>2
<1>5. ASSUME NEW c \in Conns, ReadError(c)
      PROVE  (\A s \in Threads : SameHead(s)) /\ TasksNamed'
  <2>1. ErrorTask(c) \in Tasks /\ ErrorTask(c).kind # "join" /\ Named(ErrorTask(c))
    BY DEF Tasks, Named, ErrorTask
  <2> QED BY <1>3, <1>5, <2>1 DEF ReadError
<1>6. ASSUME NEW c \in Conns, WriteError(c)
      PROVE  (\A s \in Threads : SameHead(s)) /\ TasksNamed'
  <2>1. queue["io"] = <<>> /\ queue' = [queue EXCEPT !["io"] = <<ErrorTask(c)>>]
    BY <1>6 DEF WriteError
  <2>2. queue'["io"] = <<ErrorTask(c)>> /\ \A s \in Threads \ {"io"} : queue'[s] = queue[s]
    BY <1>1, <2>1
  <2>3. \A s \in Threads : SameHead(s)
    BY <2>1, <2>2 DEF SameHead, JoinHead, ErrorTask
  <2>4. ASSUME NEW s \in Threads, NEW i \in 1 .. Len(queue'[s]) PROVE Named(queue'[s][i])
    <3>1. CASE s = "io" BY <2>2, <3>1 DEF Named, ErrorTask
    <3>2. CASE s # "io" BY <2>2, <3>2 DEF DirectoryInv, TasksNamed
    <3> QED BY <3>1, <3>2
  <2> QED BY <2>3, <2>4 DEF TasksNamed, Named
<1>7. (\A s \in Threads : SameHead(s)) /\ TasksNamed'
  <2>1. \A c \in Conns : token[c] \in Tokens \cup {NoToken}
    BY DEF DirectoryInv, MembersInv, TypeOK
  <2>2. ASSUME NEW c \in Conns, LoginPackets(c)
        PROVE  (\A s \in Threads : SameHead(s)) /\ TasksNamed'
    BY <1>4, <2>2, RequestsAssumption DEF LoginPackets
  <2>3. ASSUME NEW c \in Conns, OwnTokenPackets(c)
        PROVE  (\A s \in Threads : SameHead(s)) /\ TasksNamed'
    BY <1>4, <2>1, <2>3, RequestsAssumption DEF OwnTokenPackets
  <2>4. ASSUME NEW c \in Conns, OtherTokenPackets(c)
        PROVE  (\A s \in Threads : SameHead(s)) /\ TasksNamed'
    BY <1>4, <2>4, RequestsAssumption DEF OtherTokenPackets
  <2> QED BY <1>5, <1>6, <2>2, <2>3, <2>4 DEF Network
<1> QED BY <1>2, <1>7, QuietKeeps DEF QuietStep, NameRemoved, CacheStays

\* The first task of a thread has its name.
LEMMA HeadNamed ==
  ASSUME MembersInv, TasksNamed, NEW t \in Threads, queue[t] # <<>>
  PROVE  Head(queue[t]) \in Tasks /\ Named(Head(queue[t]))
<1>1. queue[t] \in Seq(Tasks) BY DEF MembersInv, TypeOK
<1>2. Head(queue[t]) = queue[t][1] /\ 1 \in 1 .. Len(queue[t]) BY <1>1
<1> QED BY <1>1, <1>2 DEF TasksNamed

\* Admission puts a client among the waiting ones that had no task of its own yet,
\* on the thread of the room.
LEMMA ConnThreadDirectory ==
  ASSUME DirectoryInv, MembersInv', ConnThread
  PROVE  DirectoryInv' /\ [Directory!Next]_(Directory!vars)
<1> DEFINE task == Head(queue["conn"])
           k == [task EXCEPT !.kind = "handle"]
<1>1. MembersInv /\ TasksNamed /\ TypeOK /\ "conn" \in Threads
  BY DEF DirectoryInv, MembersInv, Threads
<1>2. queue["conn"] # <<>> /\ task.kind = "packet"
  BY DEF ConnThread, DropPacket, RejectFirst, RefuseDuplicate, PassPacket, AdmitFirst, Runs
<1>3. task \in Tasks /\ Named(task) /\ Done("conn") \in [Threads -> Seq(Tasks)]
  BY <1>1, <1>2, QueueType, HeadNamed
<1>4. k \in Tasks /\ k.kind = "handle" /\ Named(k) /\ k.c = task.c /\ task.c \in Conns
  BY <1>3 DEF Tasks, ClientKinds, Named
<1>5. members' = members /\ issued' = issued
  BY DEF ConnThread, DropPacket, RejectFirst, RefuseDuplicate, PassPacket, AdmitFirst
<1>6. ASSUME NEW th \in Threads, queue' = [Done("conn") EXCEPT ![th] = Append(@, k)]
      PROVE  (\A s \in Threads : SameHead(s)) /\ TasksNamed'
  <2> HIDE DEF k
  <2>1. \A s \in Threads : \A i \in 1 .. Len(Done("conn")[s]) : Named(Done("conn")[s][i])
    <3>1. \A s \in Threads : \A i \in 1 .. Len(Done("conn")[s]) :
            \E j \in 1 .. Len(queue[s]) : Done("conn")[s][i] = queue[s][j]
      BY <1>1, <1>2, DoneTasks
    <3> QED BY <1>1, <3>1 DEF TasksNamed
  <2>2. TasksNamed' BY <1>3, <1>4, <1>6, <2>1, AppendNamed
  <2>3. ASSUME NEW s \in Threads PROVE SameHead(s)
    <3>1. /\ JoinHead(s)' <=> Done("conn")[s] # <<>> /\ Head(Done("conn")[s]).kind = "join"
          /\ Done("conn")[s] # <<>> => Head(queue'[s]) = Head(Done("conn")[s])
      BY <1>3, <1>4, <1>6, AppendHeads
    <3>2. CASE s = "conn"
      <4>1. Done("conn")[s] # <<>> =>
              /\ 1 \in 1 .. Len(Done("conn")[s])
              /\ Head(Done("conn")[s]) = Done("conn")[s][1]
        <5>1. Done("conn")[s] \in Seq(Tasks) BY <1>3
        <5> QED BY <5>1
      <4>2. Done("conn")[s] # <<>> => /\ 2 \in 1 .. Len(queue[s])
                                     /\ Head(Done("conn")[s]) = queue[s][2]
        BY <1>1, <1>2, <3>2, <4>1, DoneTasks
      <4>3. ~JoinHead(s)' BY <3>1, <4>2 DEF MembersInv, DirectoryInv, TasksSound, TaskSound
      <4> QED BY <1>2, <3>2, <4>3 DEF SameHead, JoinHead
    <3>3. CASE s # "conn"
      <4>1. Done("conn")[s] = queue[s] BY <1>1, <3>3 DEF Done, TypeOK
      <4> QED BY <3>1, <4>1 DEF SameHead, JoinHead
    <3> QED BY <3>2, <3>3
  <2> QED BY <2>2, <2>3
<1>7. ASSUME queue' = Done("conn"), CacheStays
      PROVE  DirectoryInv' /\ [Directory!Next]_(Directory!vars)
  BY <1>1, <1>2, <1>5, <1>7, DoneKeeps DEF NameRemoved
<1>8. CASE DropPacket BY <1>7, <1>8 DEF DropPacket, CacheStays
<1>9. CASE RejectFirst BY <1>7, <1>9 DEF RejectFirst, CacheStays
<1>10. CASE RefuseDuplicate BY <1>7, <1>10 DEF RefuseDuplicate, CacheStays
<1>11. CASE PassPacket
  <2>1. /\ queue' = [Done("conn") EXCEPT ![thread[task.c]] = Append(@, k)]
        /\ CacheStays
    BY <1>11 DEF PassPacket, CacheStays
  <2>2. CASE thread[task.c] \in Threads
    BY <1>5, <1>6, <2>1, <2>2, QuietKeeps DEF QuietStep, NameRemoved
  <2>3. CASE thread[task.c] \notin Threads
    <3>1. queue' = Done("conn") BY <1>3, <2>1, <2>3
    <3> QED BY <1>7, <2>1, <3>1
  <2> QED BY <2>2, <2>3
<1>12. ASSUME NEW th \in PoolThreads, AdmitFirst(th)
       PROVE  DirectoryInv' /\ [Directory!Next]_(Directory!vars)
  <2>1. /\ queue' = [Done("conn") EXCEPT ![th] = Append(@, k)]
        /\ conn[task.c] = "first"
        /\ thread' = [thread EXCEPT ![task.c] = th]
        /\ cache' = cache \cup {task.c}
        /\ roomThread # "none" => th = roomThread
        /\ roomThread' = th
    BY <1>12 DEF AdmitFirst
  <2>2. th \in Threads /\ th # "none" BY DEF PoolThreads, Threads
  <2>3. (\A s \in Threads : SameHead(s)) /\ TasksNamed' BY <1>6, <2>1, <2>2
  <2>4. CacheSound'
    BY <1>1, <1>4, <2>1, <2>2 DEF DirectoryInv, CacheSound, TypeOK
  <2>5. ASSUME NEW t \in Threads, JoinHead(t)', Head(queue'[t]).c \in cache'
        PROVE  \A u \in Uids : members'.users[u] < Head(queue'[t]).tok
    <3>1. JoinHead(t) /\ Head(queue'[t]) = Head(queue[t]) BY <2>3, <2>5 DEF SameHead
    <3>2. Head(queue[t]).c # task.c BY <1>1, <2>1, <3>1, JoinHeadSound
    <3> HIDE DEF k, task
    <3>3. Head(queue[t]).c \in cache BY <2>1, <2>5, <3>1, <3>2
    <3>4. \A u \in Uids : members.users[u] < Head(queue[t]).tok
      BY <3>1, <3>3 DEF DirectoryInv, JoinsNewer
    <3> QED BY <1>5, <3>1, <3>4
  <2>6. Answered' = Answered BY <2>3, AnsweredSame
  <2> QED BY <1>5, <2>3, <2>4, <2>5, <2>6 DEF DirectoryInv, JoinsNewer, Directory!vars
<1> QED BY <1>8, <1>9, <1>10, <1>11, <1>12 DEF ConnThread

\* No member has a token that was not handed out.
LEMMA MembersIssued ==
  ASSUME MembersInv, NEW u \in Uids
  PROVE  members.users[u] <= issued
<1>1. issued \in Nat /\ clients \subseteq Conns BY DEF MembersInv, TypeOK
<1>2. CASE members.users[u] = NoToken BY <1>1, <1>2 DEF NoToken
<1>3. CASE members.users[u] # NoToken
  BY <1>1, <1>3 DEF MembersInv, MemberHasClient, TokensDistinct
<1> QED BY <1>2, <1>3

LEMMA LoginBeginDirectory ==
  ASSUME DirectoryInv, MembersInv', NEW t \in Threads, LoginBegin(t)
  PROVE  DirectoryInv' /\ [Directory!Next]_(Directory!vars)
<1> DEFINE task == Head(queue[t])
           c == task.c
           k == [task EXCEPT !.kind = "join", !.tok = issued + 1]
<1>1. MembersInv /\ TasksNamed /\ TypeOK BY DEF DirectoryInv, MembersInv
<1>2. /\ queue[t] # <<>> /\ task.kind = "handle" /\ LeaveMember(c)
      /\ task.req \in {"login", "badlogin"}
      /\ issued' = issued + 1 /\ issued < MaxToken
      /\ queue' = GoOn(t, k) /\ CacheStays
  BY DEF LoginBegin, Runs, CacheStays
<1>3. task \in Tasks /\ task.uid \in Uids BY <1>1, <1>2, HeadNamed DEF Named
<1>4. issued \in Nat /\ issued + 1 \in Tokens /\ issued + 1 # NoToken
  BY <1>1, <1>2, MaxTokenAssumption DEF TypeOK, Tokens, NoToken
<1>5. /\ k \in Tasks /\ k.kind = "join" /\ k.c = c /\ k.tok = issued + 1
      /\ k.uid = task.uid /\ k.req = task.req
  BY <1>3, <1>4 DEF Tasks, ClientKinds
<1>6. Named(k) BY <1>2, <1>3, <1>4, <1>5 DEF Named
<1> HIDE DEF k
<1>7. /\ queue'[t] # <<>> /\ Head(queue'[t]) = k
      /\ \A s \in Threads \ {t} : SameHead(s)
  BY <1>1, <1>2, <1>5, GoOnHeads
<1>8. JoinHead(t)' /\ ~JoinHead(t) BY <1>2, <1>5, <1>7 DEF JoinHead
<1>9. TasksNamed' BY <1>1, <1>2, <1>5, <1>6, GoOnNamed
<1>10. members' = Remove(members, token[c]) BY <1>2, LeaveMemberRemoves
<1>11. NameRemoved BY <1>1, <1>10, RemoveRemoves DEF NameRemoved
<1>12. CacheSound' BY <1>2 DEF DirectoryInv, CacheSound, CacheStays
<1>13. ASSUME NEW s \in Threads, JoinHead(s)', Head(queue'[s]).c \in cache'
       PROVE  \A u \in Uids : members'.users[u] < Head(queue'[s]).tok
  <2>1. CASE s = t
    <3>1. \A u \in Uids : members.users[u] < issued + 1
      BY <1>1, <1>4, MembersIssued DEF TypeOK, MemberLists, Tokens, NoToken
    <3> QED BY <1>1, <1>4, <1>5, <1>7, <1>11, <2>1, <3>1, RemovalNewer
  <2>2. CASE s # t
    <3>1. /\ JoinHead(s) /\ Head(queue'[s]) = Head(queue[s])
          /\ Head(queue[s]).c \in cache
      BY <1>2, <1>7, <1>13, <2>2 DEF SameHead, CacheStays
    <3>2. \A u \in Uids : members.users[u] < Head(queue[s]).tok
      BY <3>1 DEF DirectoryInv, JoinsNewer
    <3>3. Head(queue[s]).tok \in Nat \ {0}
      BY <1>1, <3>1, JoinHeadSound, MaxTokenAssumption DEF Tasks, Tokens, NoToken
    <3> QED BY <1>1, <1>11, <3>1, <3>2, <3>3, RemovalNewer
  <2> QED BY <2>1, <2>2
<1>14. Answered' = Answered \cup {[uid |-> task.uid, tok |-> issued']}
  BY <1>2, <1>5, <1>7, <1>8, AnsweredMore DEF Login
<1>15. Directory!Answer(task.uid)
  BY <1>2, <1>11, <1>14 DEF Directory!Answer, Directory!Without, NameRemoved, NoToken
<1> QED BY <1>1, <1>3, <1>9, <1>12, <1>13, <1>15
        DEF DirectoryInv, JoinsNewer, Directory!Next

\* The login that enters is the latest, and no other waits for this room.
LEMMA JoinMemberDirectory ==
  ASSUME DirectoryInv, MembersInv', NEW t \in Threads, JoinMember(t)
  PROVE  DirectoryInv' /\ [Directory!Next]_(Directory!vars)
<1> DEFINE task == Head(queue[t])
           c == task.c
<1>1. MembersInv /\ TasksNamed /\ TypeOK BY DEF DirectoryInv, MembersInv
<1>2. /\ queue[t] # <<>> /\ task.kind = "join" /\ c \in cache
      /\ members' = Add(members, task.uid, task.tok)
      /\ cache' = cache \ {c} /\ issued' = issued
      /\ queue' = Done(t)
      /\ roomThread' = roomThread /\ thread' = thread
  BY DEF JoinMember, Runs
<1>3. JoinHead(t) BY <1>2 DEF JoinHead
<1>4. /\ task \in Tasks /\ thread[c] = t /\ task.uid \in Uids
      /\ \A u \in Uids : members.users[u] < task.tok
  BY <1>1, <1>2, <1>3, JoinHeadSound DEF DirectoryInv, JoinsNewer
<1>5. ~JoinHead(t)' /\ \A s \in Threads \ {t} : SameHead(s)
  BY <1>1, <1>2, DoneHeads
<1>6. TasksNamed' BY <1>1, <1>2, DoneNamed
<1>7. CacheSound' BY <1>2 DEF DirectoryInv, CacheSound
<1>8. ASSUME NEW s \in Threads, JoinHead(s)', Head(queue'[s]).c \in cache'
      PROVE  FALSE
  <2>1. s # t /\ JoinHead(s) /\ Head(queue'[s]) = Head(queue[s])
    BY <1>5, <1>8 DEF SameHead
  <2>2. Head(queue[s]).c \in cache /\ thread[Head(queue[s]).c] = s
    BY <1>1, <1>2, <1>8, <2>1, JoinHeadSound
  <2> QED BY <1>2, <1>4, <2>1, <2>2 DEF DirectoryInv, CacheSound
<1>9. Login(t) \in Answered /\ Answered' = Answered \ {Login(t)}
  BY <1>1, <1>3, <1>5, AnsweredLess
<1>10. members'.users = [members.users EXCEPT ![task.uid] = task.tok]
  BY <1>2 DEF Add
<1>11. Directory!Enter(Login(t))
  BY <1>2, <1>4, <1>9, <1>10 DEF Directory!Enter, Login
<1> QED BY <1>1, <1>6, <1>7, <1>8, <1>9, <1>11
        DEF DirectoryInv, JoinsNewer, Directory!Next

LEMMA RoomStepDirectory ==
  ASSUME DirectoryInv, MembersInv', NEW t \in Threads, RoomStep(t)
  PROVE  DirectoryInv' /\ [Directory!Next]_(Directory!vars)
<1> DEFINE task == Head(queue[t])
           c == task.c
<1>1. MembersInv /\ TasksNamed /\ TypeOK BY DEF DirectoryInv, MembersInv
<1>2. queue[t] # <<>>
  BY DEF RoomStep, ErrorIgnored, LeaveBegin, LeaveEnd, LoginAgain, LoginBegin, JoinMember,
         JoinRefused, LogoutDenied, Logout, UpdateDenied, UpdateBegin, UpdateEnd, KickOff,
         LostOnFreedRoom, CrashOnFreedRoom, Runs
<1>3. task \in Tasks /\ Named(task) /\ TaskSound(t, 1, task)
  BY <1>1, <1>2, HeadNamed, HeadSound DEF MembersInv
<1>4. ASSUME queue' = Done(t), task.kind # "join", issued' = issued, CacheStays,
             members' = members \/ \E x : members' = Remove(members, x)
      PROVE  DirectoryInv' /\ [Directory!Next]_(Directory!vars)
  <2>1. NameRemoved BY <1>1, <1>4, RemoveRemoves DEF NameRemoved
  <2> QED BY <1>2, <1>4, <2>1, DoneKeeps
<1>5. ASSUME queue' = Done(t), task.kind = "join", issued' = issued, CacheStays,
             members' = members
      PROVE  DirectoryInv' /\ [Directory!Next]_(Directory!vars)
  <2>1. JoinHead(t) BY <1>2, <1>5 DEF JoinHead
  <2>2. ~JoinHead(t)' /\ \A s \in Threads \ {t} : SameHead(s)
    BY <1>1, <1>2, <1>5, DoneHeads
  <2>3. TasksNamed' BY <1>1, <1>2, <1>5, DoneNamed
  <2> QED BY <1>5, <2>1, <2>2, <2>3, ForgetKeeps
<1>6. CASE ErrorIgnored(t) BY <1>4, <1>6 DEF ErrorIgnored, Runs, CacheStays
<1>7. CASE LeaveBegin(t)
  <2> DEFINE k == [task EXCEPT !.kind = "leave"]
  <2>1. k \in Tasks /\ k.kind = "leave" /\ Named(k)
    BY <1>3 DEF Tasks, ClientKinds, Named
  <2>2. /\ queue' = GoOn(t, k) /\ task.kind = "error"
        /\ members' = members /\ issued' = issued /\ CacheStays
    BY <1>7 DEF LeaveBegin, Runs, CacheStays
  <2> HIDE DEF k
  <2>3. TasksNamed' BY <1>1, <1>2, <2>1, <2>2, GoOnNamed
  <2>4. /\ queue'[t] # <<>> /\ Head(queue'[t]) = k
        /\ \A s \in Threads \ {t} : SameHead(s)
    BY <1>1, <1>2, <2>1, <2>2, GoOnHeads
  <2>5. SameHead(t) BY <2>1, <2>2, <2>4 DEF SameHead, JoinHead
  <2> QED BY <2>2, <2>3, <2>4, <2>5, QuietKeeps DEF QuietStep, NameRemoved
<1>8. CASE LeaveEnd(t) BY <1>4, <1>8 DEF LeaveEnd, Runs, CacheStays
<1>9. CASE LoginAgain(t) BY <1>4, <1>9 DEF LoginAgain, Runs, CacheStays
<1>10. CASE LoginBegin(t) BY <1>10, LoginBeginDirectory
<1>11. CASE JoinMember(t) BY <1>11, JoinMemberDirectory
<1>12. CASE JoinRefused(t) BY <1>5, <1>12 DEF JoinRefused, Runs, CacheStays
<1>13. CASE LogoutDenied(t) BY <1>4, <1>13 DEF LogoutDenied, Runs, CacheStays
<1>14. CASE Logout(t)
  <2>1. members' = Remove(members, token[c]) BY <1>14, LeaveMemberRemoves DEF Logout
  <2> QED BY <1>4, <1>14, <2>1 DEF Logout, Runs, CacheStays
<1>15. CASE UpdateDenied(t) BY <1>4, <1>15 DEF UpdateDenied, Runs, CacheStays
<1>16. CASE UpdateBegin(t) BY <1>3, <1>16 DEF UpdateBegin, TaskSound
<1>17. CASE UpdateEnd(t) BY <1>3, <1>17 DEF UpdateEnd, Runs, TaskSound
<1>18. CASE KickOff(t) BY <1>4, <1>18 DEF KickOff, Runs, CacheStays
<1>19. CASE LostOnFreedRoom(t) BY <1>4, <1>5, <1>19 DEF LostOnFreedRoom, CacheStays
<1>20. CASE CrashOnFreedRoom(t)
  <2>1. UNCHANGED <<queue, members, issued>> /\ CacheStays
    BY <1>20 DEF CrashOnFreedRoom, CacheStays
  <2>2. TasksNamed' /\ \A s \in Threads : SameHead(s)
    BY <1>1, <2>1 DEF TasksNamed, SameHead, JoinHead
  <2> QED BY <2>1, <2>2, QuietKeeps DEF QuietStep, NameRemoved
<1> QED BY <1>6, <1>7, <1>8, <1>9, <1>10, <1>11, <1>12, <1>13, <1>14, <1>15, <1>16, <1>17,
           <1>18, <1>19, <1>20 DEF RoomStep

\* A room that is deleted has no waiting client, and its table shows nobody.
LEMMA CheckRoomDirectory ==
  ASSUME DirectoryInv, MembersInv', CheckRoom
  PROVE  DirectoryInv' /\ [Directory!Next]_(Directory!vars)
<1>1. /\ clients = {} /\ cache' = {} /\ members' = NoMembers
      /\ queue' = queue /\ issued' = issued
  BY DEF CheckRoom
<1>2. members'.users = members.users
  <2>1. \A u \in Uids : members.users[u] = NoToken
    BY <1>1 DEF DirectoryInv, MembersInv, MemberHasClient
  <2>2. members.users \in [Uids -> Tokens \cup {NoToken}]
    BY DEF DirectoryInv, MembersInv, TypeOK, MemberLists
  <2> QED BY <1>1, <2>1, <2>2 DEF NoMembers
<1>3. TasksNamed' BY <1>1 DEF DirectoryInv, TasksNamed
<1>4. Answered' = Answered BY <1>1 DEF Answered
<1> QED BY <1>1, <1>2, <1>3, <1>4
        DEF DirectoryInv, CacheSound, JoinsNewer, Directory!vars

LEMMA InitDirectory == Init => DirectoryInv /\ Directory!Init
<1> SUFFICES ASSUME Init PROVE DirectoryInv /\ Directory!Init
  OBVIOUS
<1>1. MembersInv BY InitMembers
<1>2. \A t \in Threads : queue[t] = <<>> BY DEF Init
<1>3. CacheSound BY DEF Init, CacheSound
<1>4. JoinsNewer /\ TasksNamed BY <1>2 DEF JoinsNewer, JoinHead, TasksNamed
<1>5. Answered = {} BY <1>2 DEF Answered
<1> QED BY <1>1, <1>3, <1>4, <1>5
        DEF DirectoryInv, Init, Directory!Init, NoMembers, NoToken

LEMMA StepDirectory ==
  ASSUME DirectoryInv, MembersInv', [Next]_vars
  PROVE  DirectoryInv' /\ [Directory!Next]_(Directory!vars)
<1>1. CASE Network BY <1>1, NetworkDirectory
<1>2. ASSUME NEW t \in Threads, Step(t)
      PROVE  DirectoryInv' /\ [Directory!Next]_(Directory!vars)
  BY <1>2, StepCases, ConnThreadDirectory, RoomStepDirectory
<1>3. CASE CheckRoom BY <1>3, CheckRoomDirectory
<1>4. CASE UNCHANGED vars
  <2>1. TasksNamed' /\ CacheSound' /\ JoinsNewer'
    BY <1>4 DEF DirectoryInv, TasksNamed, CacheSound, JoinsNewer, JoinHead
  <2>2. Answered' = Answered BY <1>4 DEF Answered
  <2> QED BY <1>4, <2>1, <2>2 DEF DirectoryInv, Directory!vars
<1> QED BY <1>1, <1>2, <1>3, <1>4 DEF Next

\* DirectoryInv is inductive beside MembersInv.
THEOREM DirectoryInvariant ==
  ASSUME Requests \cap {"extend", "state"} = {}
  PROVE  Spec => []DirectoryInv
<1>1. DirectoryInv /\ MembersInv' /\ [Next]_vars => DirectoryInv'
  BY StepDirectory
<1>2. Init => DirectoryInv BY InitDirectory
<1> QED BY <1>1, <1>2, MembersInvariant, PTL DEF Spec

\* Logins, logouts, kicks, lost connections, clients that outlive their room and
\* rooms that are deleted and created again, on any number of connections, keep
\* what a directory promises, as long as no client updates its extension or state.
THEOREM RoomImplementsDirectory ==
  ASSUME Requests \cap {"extend", "state"} = {}
  PROVE  Spec => ImplementsDirectory
<1>1. DirectoryInv /\ MembersInv' /\ [Next]_vars => [Directory!Next]_(Directory!vars)
  BY StepDirectory
<1>2. Init => Directory!Init BY InitDirectory
<1> QED BY <1>1, <1>2, DirectoryInvariant, MembersInvariant, PTL
        DEF Spec, ImplementsDirectory, Directory!Spec

\* Without updates a user id never falls back to an older login even when clients
\* have outlived their room, which NewerTokenWins leaves out: the directory only
\* lets newer logins in.
THEOREM NamesGoForward ==
  ASSUME Requests \cap {"extend", "state"} = {}
  PROVE  Spec => [][\A u \in Uids :
                       members.users[u] # NoToken /\ members'.users[u] # NoToken
                         => members'.users[u] >= members.users[u]]_vars
<1> DEFINE A == \A u \in Uids :
                  members.users[u] # NoToken /\ members'.users[u] # NoToken
                    => members'.users[u] >= members.users[u]
<1>1. DirectoryInv /\ MembersInv' /\ [Next]_vars => [A]_vars
  <2> SUFFICES ASSUME DirectoryInv, MembersInv', [Next]_vars,
                      NEW u \in Uids, members.users[u] # NoToken, members'.users[u] # NoToken
               PROVE  members'.users[u] >= members.users[u]
    OBVIOUS
  <2>1. members.users \in [Uids -> Tokens \cup {NoToken}]
    BY DEF DirectoryInv, MembersInv, TypeOK, MemberLists
  <2>2. members.users[u] \in Nat BY <2>1 DEF Tokens, NoToken
  <2>3. [Directory!Next]_(Directory!vars) BY StepDirectory
  <2>4. CASE members'.users = members.users BY <2>2, <2>4
  <2>5. ASSUME NEW v \in Uids, members'.users = [members.users EXCEPT ![v] = 0]
        PROVE  members'.users[u] >= members.users[u]
    BY <2>1, <2>2, <2>5 DEF NoToken
  <2>6. ASSUME NEW p \in Answered, Directory!Enter(p)
        PROVE  members'.users[u] >= members.users[u]
    <3>1. PICK t \in Threads : JoinHead(t) /\ p = Login(t)
      BY DEF Answered, JoinHead, Login
    <3>2. p.tok \in Nat
      BY <3>1, JoinHeadSound, MaxTokenAssumption
         DEF DirectoryInv, Tasks, Tokens, NoToken, Login
    <3> QED BY <2>1, <2>2, <2>6, <3>2 DEF Directory!Enter
  <2> QED BY <2>3, <2>4, <2>5, <2>6
          DEF Directory!Next, Directory!vars, Directory!Answer, Directory!Leave,
              Directory!Without, Directory!Forget
<1> QED BY <1>1, DirectoryInvariant, MembersInvariant, PTL DEF Spec
=============================================================================

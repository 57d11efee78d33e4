-------------------------- MODULE RoomUpdatesProofs --------------------------
(***************************************************************************)
(* Proof that a user id never falls back to an older login, whatever the   *)
(* clients of the room ask for, updates of their members included, until a *)
(* client outlives its room (NewerTokenWins).                              *)
(*                                                                         *)
(* An update adds again what it has looked up before, and by then the      *)
(* member may be gone.  What the proof has to show is that no other login  *)
(* of that user id can have come in between: logins and updates of a room  *)
(* have one thread, which is at most half-way through one of them.         *)
(*                                                                         *)
(* And proof that the member an update adds again is a client in the room  *)
(* as long as no connection fails (PhantomsNeedErrors): only the error of  *)
(* a connection removes members on a thread other than the room's.         *)
(***************************************************************************)
EXTENDS RoomViewsProofs, FiniteSetTheorems

USE DEF vars, connVars, clientVars, roomVars

\* Task k, the i-th of thread t: a request and the second half of one are on the
\* thread of their client, and a second half is the first in its queue.
Placed(t, i, k) ==
  /\ k.kind \in {"handle", "join", "update"} => thread[k.c] = t /\ conn[k.c] = "client"
  /\ k.kind = "leave" => conn[k.c] = "client"
  /\ k.kind \in {"join", "update"} => i = 1 /\ k.tok <= issued

TasksPlaced == \A t \in Threads : \A i \in 1 .. Len(queue[t]) : Placed(t, i, queue[t][i])

\* Until a client outlives its room, all clients are on the thread of the room.
OneRoom ==
  orphans = {} => \A c \in Conns : Held(c) => roomThread # "none" /\ thread[c] = roomThread

MembersBehind == \A u \in Uids : members.users[u] <= issued

\* A half-done login is newer than every member, a half-done update adds what is
\* there or was removed.
Half(t) == queue[t] # <<>> /\ Head(queue[t]).kind \in {"join", "update"}
Timely(t) ==
  LET k == Head(queue[t])
  IN  IF k.kind = "join" THEN \A u \in Uids : members.users[u] < k.tok
                         ELSE \A u \in Uids : u = k.uid => members.users[u] \in {NoToken, k.tok}
HalvesTimely == orphans = {} => \A t \in Threads : Half(t) => Timely(t)

NamesInv == /\ TypeOK /\ AdmittedOnce
            /\ TasksPlaced /\ OneRoom /\ MembersBehind /\ HalvesTimely

-----------------------------------------------------------------------------
(* Tasks and threads *)

LEMMA HeadPlaced ==
  ASSUME TypeOK, TasksPlaced, NEW t \in Threads, queue[t] # <<>>
  PROVE  Head(queue[t]) \in Tasks /\ Placed(t, 1, Head(queue[t])) /\ Queued(Head(queue[t]))
<1>1. queue[t] \in Seq(Tasks) BY DEF TypeOK
<1>2. Head(queue[t]) = queue[t][1] /\ 1 \in 1 .. Len(queue[t]) BY <1>1
<1> QED BY <1>1, <1>2 DEF TasksPlaced, Queued

\* A client with a task is alive, and its requests run on the thread of the room.
LEMMA QueuedHeld ==
  ASSUME NEW k, Queued(k), k.kind \in ClientKinds
  PROVE  Held(k.c)
BY DEF Queued, Held

LEMMA OnRoomThread ==
  ASSUME NamesInv, orphans = {}, NEW t \in Threads, queue[t] # <<>>,
         Head(queue[t]).kind \in {"handle", "join", "update"}
  PROVE  t = roomThread
<1> DEFINE k == Head(queue[t])
<1>1. k \in Tasks /\ Placed(t, 1, k) /\ Queued(k) BY HeadPlaced DEF NamesInv
<1>2. k.c \in Conns /\ Held(k.c) BY <1>1, QueuedHeld DEF Tasks, ClientKinds
<1> QED BY <1>1, <1>2 DEF NamesInv, OneRoom, Placed

\* Tasks keep their place when one is done, replaced or added, as long as clients
\* keep their thread.
ClientsStay ==
  /\ \A c \in Conns : conn[c] = "client" => conn'[c] = "client" /\ thread'[c] = thread[c]
  /\ issued' \in {issued, issued + 1}

LEMMA PlacedStays ==
  ASSUME ClientsStay, issued \in Nat, NEW t \in Threads, NEW k \in Tasks,
         NEW i, Placed(t, i, k), NEW j, k.kind \in {"join", "update"} => j = i
  PROVE  Placed(t, j, k)'
<1>1. k.c \in Conns /\ k.tok \in Tokens \cup {NoToken} BY DEF Tasks
<1>2. k.tok \in Nat BY <1>1 DEF Tokens, NoToken
<1> QED BY <1>1, <1>2 DEF Placed, ClientsStay

LEMMA DonePlaced ==
  ASSUME TypeOK, TasksPlaced, ClientsStay, NEW t \in Threads, queue[t] # <<>>,
         NEW q, q = Done(t), NEW s \in Threads, NEW i \in 1 .. Len(q[s])
  PROVE  Placed(s, i, q[s][i])'
<1>1. PICK k : k = q[s][i] OBVIOUS
<1> DEFINE j == IF s = t THEN i + 1 ELSE i
<1>2. j \in 1 .. Len(queue[s]) /\ k = queue[s][j] BY <1>1, DoneTasks
<1>3. queue[s] \in Seq(Tasks) /\ issued \in Nat BY MaxTokenAssumption DEF TypeOK
<1>4. k \in Tasks /\ Placed(s, j, k) BY <1>2, <1>3 DEF TasksPlaced
<1>5. k.kind \in {"join", "update"} => i = j BY <1>2, <1>3, <1>4 DEF Placed
<1>6. Placed(s, i, k)'
  <2> HIDE DEF j
  <2> QED BY <1>3, <1>4, <1>5, PlacedStays
<1> QED BY <1>1, <1>6

LEMMA DoneAllPlaced ==
  ASSUME TypeOK, TasksPlaced, ClientsStay, NEW t \in Threads, queue[t] # <<>>, queue' = Done(t)
  PROVE  TasksPlaced'
<1>1. PICK q : q = Done(t) OBVIOUS
<1>2. \A s \in Threads : \A i \in 1 .. Len(q[s]) : Placed(s, i, q[s][i])'
  BY <1>1, DonePlaced
<1> QED BY <1>1, <1>2 DEF TasksPlaced, Placed

LEMMA GoOnAllPlaced ==
  ASSUME TypeOK, TasksPlaced, ClientsStay, NEW t \in Threads, queue[t] # <<>>,
         NEW k \in Tasks, Placed(t, 1, k)', queue' = GoOn(t, k)
  PROVE  TasksPlaced'
<1> SUFFICES ASSUME NEW s \in Threads, NEW i \in 1 .. Len(queue'[s])
             PROVE  Placed(s, i, queue[s][i])'
  BY DEF TasksPlaced
<1>1. PICK h : h = queue'[s][i] OBVIOUS
<1>2. /\ i \in 1 .. Len(queue[s])
      /\ h = IF s = t /\ i = 1 THEN k ELSE queue[s][i]
  BY <1>1, GoOnTasks
<1>3. Placed(s, i, h)'
  <2>1. CASE s = t /\ i = 1 BY <1>2, <2>1
  <2>2. CASE ~(s = t /\ i = 1)
    <3>1. queue[s] \in Seq(Tasks) /\ issued \in Nat BY MaxTokenAssumption DEF TypeOK
    <3>2. h \in Tasks /\ Placed(s, i, h) BY <1>2, <2>2, <3>1 DEF TasksPlaced
    <3> QED BY <3>1, <3>2, PlacedStays
  <2> QED BY <2>1, <2>2
<1> QED BY <1>1, <1>3 DEF Placed

LEMMA AppendAllPlaced ==
  ASSUME NEW t \in Threads, NEW k \in Tasks, NEW q \in [Threads -> Seq(Tasks)],
         \A s \in Threads : \A i \in 1 .. Len(q[s]) : Placed(s, i, q[s][i])',
         queue' = [q EXCEPT ![t] = Append(@, k)],
         k.kind \in {"packet", "error", "handle"},
         k.kind = "handle" => thread'[k.c] = t /\ conn'[k.c] = "client"
  PROVE  TasksPlaced'
<1> SUFFICES ASSUME NEW s \in Threads, NEW i \in 1 .. Len(queue'[s])
             PROVE  Placed(s, i, queue[s][i])'
  BY DEF TasksPlaced
<1>1. q[s] \in Seq(Tasks) /\ q[t] \in Seq(Tasks) OBVIOUS
<1>2. PICK h : h = queue'[s][i] OBVIOUS
<1>3. Placed(s, i, h)'
  <2>1. CASE i \in 1 .. Len(q[s])
    <3>1. h = q[s][i] BY <1>1, <1>2, <2>1
    <3> QED BY <2>1, <3>1
  <2>2. CASE i \notin 1 .. Len(q[s])
    <3>1. s = t BY <2>2
    <3>2. h = k BY <1>1, <1>2, <2>2, <3>1
    <3> QED BY <3>1, <3>2 DEF Placed
  <2> QED BY <2>1, <2>2
<1> QED BY <1>2, <1>3 DEF Placed

-----------------------------------------------------------------------------
(* Who is alive *)

\* A step takes in no client but, in its queues, those that are alive already.
NobodyNew ==
  /\ cache' \cup clients' \subseteq cache \cup clients
  /\ \A s \in Threads : \A i \in 1 .. Len(queue'[s]) :
       Queued(queue'[s][i]) \/ queue'[s][i].kind \notin ClientKinds \/ Held(queue'[s][i].c)

LEMMA NobodyNewHeld ==
  ASSUME NobodyNew, NEW c, Held(c)' PROVE Held(c)
<1>1. CASE c \in cache' \cup clients' BY <1>1 DEF NobodyNew, Held
<1>2. ASSUME NEW s \in Threads, NEW i \in 1 .. Len(queue'[s]),
             queue'[s][i].c = c, queue'[s][i].kind \in ClientKinds
      PROVE  Held(c)
  <2>1. Queued(queue'[s][i]) \/ Held(c) BY <1>2 DEF NobodyNew
  <2> QED BY <1>2, <2>1 DEF Queued, Held
<1> QED BY <1>1, <1>2 DEF Held

LEMMA OneRoomKept ==
  ASSUME NamesInv, NobodyNew, orphans \subseteq orphans',
         roomThread' = roomThread, ClientsStay,
         \A c \in Conns : thread'[c] = thread[c]
  PROVE  OneRoom'
<1> SUFFICES ASSUME orphans' = {}, NEW c \in Conns, Held(c)'
             PROVE  roomThread' # "none" /\ thread'[c] = roomThread'
  BY DEF OneRoom
<1>1. Held(c) BY NobodyNewHeld
<1> QED BY <1>1 DEF NamesInv, OneRoom

-----------------------------------------------------------------------------
(* Steps that at most remove members *)

OnlyRemoved == \A u \in Uids : members'.users[u] \in {NoToken, members.users[u]}

\* A half that is done elsewhere stays timely.
LEMMA StillTimely ==
  ASSUME NamesInv, OnlyRemoved, orphans = {}, NEW s \in Threads, Half(s),
         Head(queue'[s]) = Head(queue[s])
  PROVE  Timely(s)'
<1>1. Timely(s) BY DEF NamesInv, HalvesTimely
<1>2. \A u \in Uids : members.users[u] \in Nat
  BY DEF NamesInv, TypeOK, MemberLists, Tokens, NoToken
<1>3. Head(queue[s]) \in Tasks BY QueueType DEF NamesInv, Half
<1>4. Head(queue[s]).tok \in Nat BY <1>3 DEF Tasks, Tokens, NoToken
<1>5. CASE Head(queue[s]).kind = "join"
  <2>1. \A u \in Uids : members.users[u] < Head(queue[s]).tok BY <1>1, <1>5 DEF Timely
  <2>2. \A u \in Uids : members'.users[u] < Head(queue[s]).tok
    BY <1>2, <1>4, <2>1 DEF OnlyRemoved, NoToken
  <2> QED BY <1>5, <2>2 DEF Timely
<1>6. CASE Head(queue[s]).kind # "join"
  <2>1. \A u \in Uids : u = Head(queue[s]).uid =>
          members.users[u] \in {NoToken, Head(queue[s]).tok}
    BY <1>1, <1>6 DEF Timely
  <2> QED BY <1>6, <2>1 DEF Timely, OnlyRemoved
<1> QED BY <1>5, <1>6

\* Halves of requests stay where they were, or there are fewer of them.
LEMMA RemovedTimely ==
  ASSUME NamesInv, OnlyRemoved, orphans \subseteq orphans',
         \A s \in Threads : Half(s)' => Half(s) /\ Head(queue'[s]) = Head(queue[s])
  PROVE  HalvesTimely'
<1> SUFFICES ASSUME orphans' = {}, NEW s \in Threads, Half(s)'
             PROVE  Timely(s)'
  BY DEF HalvesTimely
<1>1. Half(s) /\ Head(queue'[s]) = Head(queue[s]) /\ orphans = {} OBVIOUS
<1> QED BY <1>1, StillTimely

LEMMA RemovedBehind ==
  ASSUME NamesInv, OnlyRemoved, issued' \in {issued, issued + 1}
  PROVE  MembersBehind'
<1>1. \A u \in Uids : members.users[u] \in Nat /\ members.users[u] <= issued
  BY DEF NamesInv, TypeOK, MemberLists, Tokens, NoToken, MembersBehind
<1>2. issued \in Nat BY MaxTokenAssumption DEF NamesInv, TypeOK
<1> QED BY <1>1, <1>2 DEF OnlyRemoved, MembersBehind, NoToken

\* Behind the task that is done there is no second half of one, and the other
\* queues stay.
LEMMA DoneFirst ==
  ASSUME TypeOK, TasksPlaced, NEW t \in Threads, queue[t] # <<>>, NEW q, q = Done(t),
         NEW s \in Threads, q[s] # <<>>, Head(q[s]).kind \in {"join", "update"}
  PROVE  s # t /\ queue[s] # <<>> /\ Head(q[s]) = Head(queue[s])
<1>1. q[s] \in Seq(Tasks) BY QueueType
<1>2. 1 \in 1 .. Len(q[s]) /\ Head(q[s]) = q[s][1] BY <1>1
<1>3. CASE s = t
  <2>1. 2 \in 1 .. Len(queue[t]) /\ q[t][1] = queue[t][2] BY <1>2, <1>3, DoneTasks
  <2> QED BY <1>2, <1>3, <2>1 DEF TasksPlaced, Placed
<1>4. CASE s # t
  <2>1. q[s] = queue[s] BY <1>4 DEF Done, TypeOK
  <2> QED BY <1>4, <2>1
<1> QED BY <1>3, <1>4

\* After a task is done no second half of one is left on its thread.
LEMMA DoneHalves ==
  ASSUME TypeOK, TasksPlaced, NEW t \in Threads, queue[t] # <<>>, queue' = Done(t)
  PROVE  /\ ~Half(t)'
         /\ \A s \in Threads : Half(s)' => Half(s) /\ Head(queue'[s]) = Head(queue[s])
<1>1. PICK q : q = Done(t) OBVIOUS
<1>2. \A s \in Threads : q[s] # <<>> /\ Head(q[s]).kind \in {"join", "update"}
                           => s # t /\ queue[s] # <<>> /\ Head(q[s]) = Head(queue[s])
  BY <1>1, DoneFirst
<1> QED BY <1>1, <1>2 DEF Half

\* A task is done, members are at most removed, nobody enters.
LEMMA DoneNames ==
  ASSUME NamesInv, TypeOK', AdmittedOnce', NEW t \in Threads, queue[t] # <<>>,
         queue' = Done(t), OnlyRemoved, ClientsStay,
         cache' \cup clients' \subseteq cache \cup clients,
         roomThread' = roomThread, thread' = thread, orphans' = orphans
  PROVE  NamesInv'
<1>1. TypeOK /\ TasksPlaced BY DEF NamesInv
<1>2. NobodyNew BY <1>1, DoneQueued DEF NobodyNew
<1>3. TasksPlaced' BY <1>1, DoneAllPlaced
<1>4. OneRoom' BY <1>2, OneRoomKept
<1>5. MembersBehind' BY RemovedBehind DEF ClientsStay
<1>6. HalvesTimely' BY <1>1, DoneHalves, RemovedTimely
<1> QED BY <1>3, <1>4, <1>5, <1>6 DEF NamesInv

-----------------------------------------------------------------------------
(* Steps that add a task *)

\* An appended task of another kind is no second half.
LEMMA AppendHalves ==
  ASSUME NEW t \in Threads, NEW k \in Tasks, k.kind \notin {"join", "update"},
         NEW q \in [Threads -> Seq(Tasks)], queue' = [q EXCEPT ![t] = Append(@, k)],
         \A s \in Threads : q[s] # <<>> /\ Head(q[s]).kind \in {"join", "update"}
                              => queue[s] # <<>> /\ Head(q[s]) = Head(queue[s]),
         NEW s \in Threads, Half(s)'
  PROVE  Half(s) /\ Head(queue'[s]) = Head(queue[s])
<1>1. CASE q[s] # <<>>
  <2>1. Head(queue'[s]) = Head(q[s]) BY <1>1, AppendFirst
  <2> QED BY <1>1, <2>1 DEF Half
<1>2. CASE q[s] = <<>>
  <2>1. s = t BY <1>2 DEF Half
  <2>2. queue'[s] = <<k>> BY <1>2, <2>1
  <2>3. Head(queue'[s]) = k BY <2>2
  <2> QED BY <2>3 DEF Half
<1> QED BY <1>1, <1>2

\* A packet, an error or a request is appended to queues q in which no second half
\* comes first that did not before.
LEMMA AppendNames ==
  ASSUME NamesInv, TypeOK', AdmittedOnce', NEW t \in Threads, NEW k \in Tasks,
         NEW q \in [Threads -> Seq(Tasks)], queue' = [q EXCEPT ![t] = Append(@, k)],
         k.kind \in {"packet", "error", "handle"},
         k.kind = "handle" => thread'[k.c] = t /\ conn'[k.c] = "client",
         \A s \in Threads : \A i \in 1 .. Len(q[s]) : Placed(s, i, q[s][i])',
         \A s \in Threads : q[s] # <<>> /\ Head(q[s]).kind \in {"join", "update"}
                              => queue[s] # <<>> /\ Head(q[s]) = Head(queue[s]),
         OneRoom', members' = members, issued' = issued, orphans' = orphans
  PROVE  NamesInv'
<1>1. TasksPlaced' BY AppendAllPlaced
<1>2. \A u \in Uids : members'.users[u] \in {NoToken, members.users[u]} OBVIOUS
<1>3. MembersBehind' BY <1>2, RemovedBehind DEF OnlyRemoved
<1>4. \A s \in Threads : Half(s)' => Half(s) /\ Head(queue'[s]) = Head(queue[s])
  BY AppendHalves
<1>5. HalvesTimely' BY <1>2, <1>4, RemovedTimely DEF OnlyRemoved
<1> QED BY <1>1, <1>3, <1>5 DEF NamesInv

\* Sockets only append packets and errors.
LEMMA NetworkNames ==
  ASSUME NamesInv, TypeOK', AdmittedOnce', Network
  PROVE  NamesInv'
<1>1. TypeOK /\ TasksPlaced BY DEF NamesInv
<1>2. queue \in [Threads -> Seq(Tasks)] /\ "conn" \in Threads /\ "io" \in Threads
  BY <1>1 DEF TypeOK, Threads
<1>3. UNCHANGED <<conn, thread, members, clients, cache, issued, orphans, roomThread>>
  BY DEF Network, LoginPackets, OwnTokenPackets, OtherTokenPackets, ReadPacket, ReadError,
         WriteError
<1>4. ASSUME NEW t \in Threads, NEW k \in Tasks, k.kind \in {"packet", "error"},
             queue' = [queue EXCEPT ![t] = Append(@, k)]
      PROVE  NamesInv'
  <2>1. PICK q : q = queue OBVIOUS
  <2>2. \A s \in Threads : \A i \in 1 .. Len(q[s]) : Queued(q[s][i])
    BY <2>1 DEF Queued
  <2>3. PICK r : r = [q EXCEPT ![t] = Append(@, k)] OBVIOUS
  <2>4. \A s \in Threads : \A i \in 1 .. Len(r[s]) : Queued(r[s][i]) \/ r[s][i] = k
    BY <1>2, <2>1, <2>2, <2>3, AppendQueued
  <2>5. NobodyNew
    BY <1>3, <1>4, <2>1, <2>3, <2>4 DEF NobodyNew, ClientKinds
  <2>6. ClientsStay BY <1>3 DEF ClientsStay
  <2>7. OneRoom' BY <1>3, <2>5, <2>6, OneRoomKept
  <2>8. \A s \in Threads : \A i \in 1 .. Len(q[s]) : Placed(s, i, q[s][i])'
    BY <1>1, <1>3, <2>1 DEF TasksPlaced, Placed
  <2>9. q \in [Threads -> Seq(Tasks)] /\ queue' = [q EXCEPT ![t] = Append(@, k)]
    BY <1>2, <1>4, <2>1
  <2> QED BY <1>3, <1>4, <2>1, <2>7, <2>8, <2>9, AppendNames
<1>5. ASSUME NEW c \in Conns, NEW req \in AllRequests, NEW u \in Uids \cup {NoUid},
             NEW t \in Tokens \cup {NoToken}, ReadPacket(c, req, u, t)
      PROVE  NamesInv'
  <2> DEFINE k == [kind |-> "packet", c |-> c, req |-> req, uid |-> u, tok |-> t]
  <2>1. k \in Tasks /\ k.kind = "packet" BY DEF Tasks
  <2>2. queue' = [queue EXCEPT !["conn"] = Append(@, k)] BY <1>5 DEF ReadPacket
  <2> HIDE DEF k
  <2> QED BY <1>2, <1>4, <2>1, <2>2
<1>6. ASSUME NEW c \in Conns, ReadError(c) \/ WriteError(c) PROVE NamesInv'
  <2>1. ErrorTask(c) \in Tasks /\ ErrorTask(c).kind = "error"
    BY DEF Tasks, ErrorTask
  <2>2. CASE ReadError(c) BY <1>2, <1>4, <2>1, <2>2 DEF ReadError
  <2>3. CASE WriteError(c)
    <3>1. queue["io"] = <<>> /\ queue' = [queue EXCEPT !["io"] = <<ErrorTask(c)>>]
      BY <2>3 DEF WriteError
    <3>2. queue' = [queue EXCEPT !["io"] = Append(@, ErrorTask(c))]
      BY <1>2, <3>1
    <3> QED BY <1>2, <1>4, <2>1, <3>2
  <2> QED BY <1>6, <2>2, <2>3
<1>7. \A c \in Conns : token[c] \in Tokens \cup {NoToken} BY <1>1 DEF TypeOK
<1>8. ASSUME NEW c \in Conns, LoginPackets(c) PROVE NamesInv'
  BY <1>5, <1>8, RequestsAssumption DEF LoginPackets
<1>9. ASSUME NEW c \in Conns, OwnTokenPackets(c) PROVE NamesInv'
  BY <1>5, <1>7, <1>9, RequestsAssumption DEF OwnTokenPackets
<1>10. ASSUME NEW c \in Conns, OtherTokenPackets(c) PROVE NamesInv'
  BY <1>5, <1>10, RequestsAssumption DEF OtherTokenPackets
<1> QED BY <1>6, <1>8, <1>9, <1>10 DEF Network

\* Admission creates the room if need be and puts the client on its thread.
LEMMA ConnThreadNames ==
  ASSUME NamesInv, TypeOK', AdmittedOnce', ConnThread
  PROVE  NamesInv'
<1> DEFINE task == Head(queue["conn"])
           k == [task EXCEPT !.kind = "handle"]
<1>1. TypeOK /\ TasksPlaced /\ "conn" \in Threads BY DEF NamesInv, Threads
<1>2. queue["conn"] # <<>> /\ task.kind = "packet"
  BY DEF ConnThread, DropPacket, RejectFirst, RefuseDuplicate, PassPacket, AdmitFirst, Runs
<1>3. task \in Tasks /\ Done("conn") \in [Threads -> Seq(Tasks)]
  BY <1>1, <1>2, QueueType
<1>4. /\ k \in Tasks /\ k.kind = "handle" /\ k.c = task.c
      /\ task.c \in Conns
  BY <1>3 DEF Tasks, ClientKinds
<1>5. /\ UNCHANGED <<members, clients, issued, orphans>>
      /\ \/ thread' = thread /\ cache' = cache /\ roomThread' = roomThread
         \/ \E th \in PoolThreads : AdmitFirst(th)
  BY DEF ConnThread, DropPacket, RejectFirst, RefuseDuplicate, PassPacket, AdmitFirst
<1>6. conn \in [Conns -> {"first", "rejected", "ignored", "client"}]
      /\ thread \in [Conns -> PoolThreads \cup {"none"}]
  BY <1>1 DEF TypeOK
<1>7. ClientsStay
  BY <1>4, <1>5, <1>6
     DEF ConnThread, DropPacket, RejectFirst, RefuseDuplicate, PassPacket, AdmitFirst,
         ClientsStay
<1>8. CASE DropPacket \/ RejectFirst \/ RefuseDuplicate
  <2>1. queue' = Done("conn") /\ UNCHANGED <<thread, cache, roomThread>>
    BY <1>8 DEF DropPacket, RejectFirst, RefuseDuplicate
  <2>2. OnlyRemoved BY <1>5 DEF OnlyRemoved
  <2> QED BY <1>1, <1>2, <1>5, <1>7, <2>1, <2>2, DoneNames
<1>9. ASSUME NEW th \in Threads, queue' = [Done("conn") EXCEPT ![th] = Append(@, k)],
             thread'[task.c] = th, conn'[task.c] = "client",
             cache' \cup clients' \subseteq cache \cup clients \cup {task.c},
             \/ Held(task.c) /\ thread' = thread /\ roomThread' = roomThread
             \/ /\ roomThread' = th /\ (roomThread # "none" => th = roomThread)
                /\ \A d \in Conns \ {task.c} : thread'[d] = thread[d]
      PROVE  NamesInv'
  <2>1. PICK q : q = Done("conn") OBVIOUS
  <2>2. \A s \in Threads : \A i \in 1 .. Len(q[s]) : Placed(s, i, q[s][i])'
    BY <1>1, <1>2, <1>7, <2>1, DonePlaced
  <2>5. \A s \in Threads : q[s] # <<>> /\ Head(q[s]).kind \in {"join", "update"}
                             => queue[s] # <<>> /\ Head(q[s]) = Head(queue[s])
    BY <1>1, <1>2, <2>1, DoneFirst
  <2>6. \A s \in Threads : \A i \in 1 .. Len(q[s]) : Queued(q[s][i])
    BY <1>1, <1>2, <2>1, DoneQueued
  <2>7. q \in [Threads -> Seq(Tasks)] /\ queue' = [q EXCEPT ![th] = Append(@, k)]
    BY <1>3, <1>9, <2>1
  <2>8. PICK r : r = [q EXCEPT ![th] = Append(@, k)] OBVIOUS
  <2>9. \A s \in Threads : \A i \in 1 .. Len(r[s]) : Queued(r[s][i]) \/ r[s][i] = k
    <3> HIDE DEF k
    <3> QED BY <1>4, <2>6, <2>7, <2>8, AppendQueued
  <2>10. \A s \in Threads : \A i \in 1 .. Len(queue'[s]) :
           Queued(queue'[s][i]) \/ queue'[s][i].c = task.c
    <3> HIDE DEF k
    <3> QED BY <1>4, <2>7, <2>8, <2>9
  <2>11. ASSUME NEW d \in Conns, Held(d)', d # task.c PROVE Held(d)
    <3>1. CASE d \in cache' \cup clients' BY <1>9, <2>11, <3>1 DEF Held
    <3>2. ASSUME NEW s \in Threads, NEW i \in 1 .. Len(queue'[s]),
                 queue'[s][i].c = d, queue'[s][i].kind \in ClientKinds
          PROVE  Held(d)
      <4>1. Queued(queue'[s][i]) BY <2>10, <2>11, <3>2
      <4> QED BY <3>2, <4>1 DEF Queued, Held
    <3> QED BY <2>11, <3>1, <3>2 DEF Held
  <2>12. OneRoom'
    <3> SUFFICES ASSUME orphans' = {}, NEW d \in Conns, Held(d)'
                 PROVE  roomThread' # "none" /\ thread'[d] = roomThread'
      BY DEF OneRoom
    <3>1. \A e \in Conns : Held(e) => roomThread # "none" /\ thread[e] = roomThread
      BY <1>5 DEF NamesInv, OneRoom
    <3>2. "none" \notin Threads BY DEF Threads
    <3>3. CASE d = task.c BY <1>4, <1>9, <3>1, <3>2, <3>3
    <3>4. CASE d # task.c
      <4>1. Held(d) BY <2>11, <3>4
      <4> QED BY <1>9, <3>1, <3>2, <3>4, <4>1
    <3> QED BY <3>3, <3>4
  <2>13. k.kind = "handle" => thread'[k.c] = th /\ conn'[k.c] = "client"
    BY <1>4, <1>9
  <2>14. k \in Tasks /\ k.kind \in {"packet", "error", "handle"} BY <1>4
  <2> HIDE DEF k
  <2> QED BY <1>5, <2>2, <2>5, <2>7, <2>12, <2>13, <2>14, AppendNames
<1>10. CASE PassPacket
  <2>1. /\ HasHandler(task.c) /\ queue' = [Done("conn") EXCEPT ![thread[task.c]] = Append(@, k)]
        /\ UNCHANGED <<conn, thread, cache, clients, roomThread>>
    BY <1>10 DEF PassPacket
  <2>2. Held(task.c) /\ conn[task.c] = "client" BY <2>1 DEF HasHandler
  <2>3. CASE thread[task.c] \in Threads BY <1>9, <2>1, <2>2, <2>3
  <2>4. CASE thread[task.c] \notin Threads
    <3>1. queue' = Done("conn") BY <1>3, <2>1, <2>4
    <3>2. OnlyRemoved BY <1>5 DEF OnlyRemoved
    <3> QED BY <1>1, <1>2, <1>5, <1>7, <2>1, <3>1, <3>2, DoneNames
  <2> QED BY <2>3, <2>4
<1>11. ASSUME NEW th \in PoolThreads, AdmitFirst(th) PROVE NamesInv'
  <2>1. /\ th \in Threads /\ queue' = [Done("conn") EXCEPT ![th] = Append(@, k)]
        /\ roomThread' = th /\ (roomThread # "none" => th = roomThread)
        /\ conn' = [conn EXCEPT ![task.c] = "client"]
        /\ thread' = [thread EXCEPT ![task.c] = th]
        /\ cache' = cache \cup {task.c} /\ clients' = clients
    BY <1>11 DEF AdmitFirst, PoolThreads, Threads
  <2>2. thread'[task.c] = th /\ conn'[task.c] = "client" BY <1>4, <1>6, <2>1
  <2>3. \A d \in Conns \ {task.c} : thread'[d] = thread[d] BY <1>6, <2>1
  <2> QED BY <1>9, <2>1, <2>2, <2>3
<1> QED BY <1>8, <1>10, <1>11 DEF ConnThread

-----------------------------------------------------------------------------
(* The requests *)

\* The first task of a thread is replaced by the second half of its handler.
LEMMA GoOnNames ==
  ASSUME NamesInv, TypeOK', AdmittedOnce', NEW t \in Threads, queue[t] # <<>>,
         NEW k \in Tasks, queue' = GoOn(t, k), Placed(t, 1, k)', Held(k.c),
         k.kind \in {"join", "update"} => Timely(t)',
         OnlyRemoved, ClientsStay,
         cache' \cup clients' \subseteq cache \cup clients,
         roomThread' = roomThread, thread' = thread, orphans' = orphans
  PROVE  NamesInv'
<1>1. TypeOK /\ TasksPlaced BY DEF NamesInv
<1>2. NobodyNew BY <1>1, GoOnQueued DEF NobodyNew
<1>3. TasksPlaced' BY <1>1, GoOnAllPlaced
<1>4. OneRoom' BY <1>2, OneRoomKept
<1>5. MembersBehind' BY RemovedBehind DEF ClientsStay
<1>6. queue'[t] # <<>> /\ Head(queue'[t]) = k
  BY <1>1 DEF GoOn, TypeOK
<1>7. \A s \in Threads \ {t} : queue'[s] = queue[s] BY <1>1, OthersStay
<1>8. HalvesTimely'
  <2> SUFFICES ASSUME orphans' = {}, NEW s \in Threads, Half(s)'
               PROVE  Timely(s)'
    BY DEF HalvesTimely
  <2>1. CASE s = t BY <1>6, <2>1 DEF Half
  <2>2. CASE s # t
    <3>1. Half(s) /\ Head(queue'[s]) = Head(queue[s]) BY <1>7, <2>2 DEF Half
    <3> QED BY <3>1, StillTimely
  <2> QED BY <2>1, <2>2
<1> QED BY <1>3, <1>4, <1>5, <1>8 DEF NamesInv

\* A second half that adds a member ends: it was the only one there was.
LEMMA AddedNames ==
  ASSUME NamesInv, TypeOK', AdmittedOnce', NEW t \in Threads, Half(t), queue' = Done(t),
         members' = Add(members, Head(queue[t]).uid, Head(queue[t]).tok),
         cache' \cup clients' \subseteq cache \cup clients,
         UNCHANGED <<conn, thread, roomThread, orphans, issued>>
  PROVE  NamesInv'
<1>1. TypeOK /\ TasksPlaced BY DEF NamesInv
<1>2. PICK k : k = Head(queue[t]) OBVIOUS
<1>3. queue[t] # <<>> /\ k.kind \in {"join", "update"} BY <1>2 DEF Half
<1>4. k \in Tasks /\ Placed(t, 1, k) BY <1>1, <1>2, <1>3, HeadPlaced
<1>5. ClientsStay BY DEF ClientsStay
<1>6. NobodyNew BY <1>1, <1>3, DoneQueued DEF NobodyNew
<1>7. TasksPlaced' BY <1>1, <1>3, <1>5, DoneAllPlaced
<1>8. OneRoom' BY <1>5, <1>6, OneRoomKept
<1>9. MembersBehind'
  <2>1. members.users \in [Uids -> Tokens \cup {NoToken}] BY <1>1 DEF TypeOK, MemberLists
  <2>2. members'.users = [members.users EXCEPT ![k.uid] = k.tok] BY <1>2 DEF Add
  <2>3. k.tok <= issued BY <1>3, <1>4 DEF Placed
  <2> QED BY <2>1, <2>2, <2>3 DEF MembersBehind, NamesInv
<1>10. HalvesTimely'
  <2> SUFFICES ASSUME orphans' = {}, NEW s \in Threads, Half(s)'
               PROVE  FALSE
    BY DEF HalvesTimely
  <2>1. ~Half(t)' /\ Half(s) BY <1>1, <1>3, DoneHalves
  <2>2. t = roomThread BY <1>2, <1>3, OnRoomThread
  <2>3. s = roomThread BY <2>1, OnRoomThread DEF Half
  <2> QED BY <2>1, <2>2, <2>3
<1> QED BY <1>7, <1>8, <1>9, <1>10 DEF NamesInv

\* A step that looks at no table.
LEMMA UnchangedNames ==
  ASSUME NamesInv, TypeOK', AdmittedOnce',
         UNCHANGED <<conn, thread, queue, members, cache, clients, issued, roomThread, orphans>>
  PROVE  NamesInv'
<1>1. TasksPlaced' BY DEF NamesInv, TasksPlaced, Placed
<1>2. \A c : Held(c)' <=> Held(c) BY DEF Held
<1>3. OneRoom' BY <1>2 DEF NamesInv, OneRoom
<1>4. MembersBehind' /\ HalvesTimely'
  BY DEF NamesInv, MembersBehind, HalvesTimely, Half, Timely
<1> QED BY <1>1, <1>3, <1>4 DEF NamesInv

LEMMA RoomStepNames ==
  ASSUME NamesInv, TypeOK', AdmittedOnce', NEW t \in Threads, RoomStep(t)
  PROVE  NamesInv'
<1> DEFINE task == Head(queue[t])
           c == task.c
<1>1. TypeOK /\ TasksPlaced BY DEF NamesInv
<1>2. queue[t] # <<>>
  BY DEF RoomStep, ErrorIgnored, LeaveBegin, LeaveEnd, LoginAgain, LoginBegin, JoinMember,
         JoinRefused, LogoutDenied, Logout, UpdateDenied, UpdateBegin, UpdateEnd, KickOff,
         LostOnFreedRoom, CrashOnFreedRoom, Runs
<1>3. /\ task \in Tasks /\ Placed(t, 1, task) /\ Queued(task)
      /\ c \in Conns
  <2>1. task \in Tasks /\ Placed(t, 1, task) /\ Queued(task) BY <1>1, <1>2, HeadPlaced
  <2> QED BY <2>1 DEF Tasks
<1>4. members \in MemberLists BY <1>1 DEF TypeOK
<1>5. UNCHANGED <<conn, thread, roomThread, orphans>>
  BY DEF RoomStep, ErrorIgnored, LeaveBegin, LeaveEnd, LoginAgain, LoginBegin, JoinMember,
         JoinRefused, LogoutDenied, Logout, UpdateDenied, UpdateBegin, UpdateEnd, KickOff,
         LostOnFreedRoom, CrashOnFreedRoom
<1>6. \A x : members' = Remove(members, x) => OnlyRemoved
  BY <1>4, RemoveNames DEF OnlyRemoved
<1>7. members' = members => OnlyRemoved BY DEF OnlyRemoved
<1>8. ASSUME queue' = Done(t), OnlyRemoved, issued' = issued,
             cache' \cup clients' \subseteq cache \cup clients
      PROVE  NamesInv'
  <2>1. ClientsStay BY <1>5, <1>8 DEF ClientsStay
  <2> QED BY <1>2, <1>5, <1>8, <2>1, DoneNames
<1>9. CASE \/ ErrorIgnored(t) \/ LoginAgain(t) \/ JoinRefused(t) \/ LogoutDenied(t)
           \/ UpdateDenied(t) \/ LostOnFreedRoom(t)
  <2>1. queue' = Done(t) /\ UNCHANGED <<members, issued, cache, clients>>
    BY <1>9 DEF ErrorIgnored, LoginAgain, JoinRefused, LogoutDenied, UpdateDenied,
                LostOnFreedRoom
  <2> QED BY <1>7, <1>8, <2>1
<1>10. CASE LeaveEnd(t) \/ KickOff(t) \/ Logout(t)
  <2>1. /\ queue' = Done(t) /\ issued' = issued
        /\ cache' \cup clients' \subseteq cache \cup clients
    BY <1>10, LeaveMemberRemoves DEF LeaveEnd, KickOff, Logout
  <2>2. \E x : members' = Remove(members, x)
    BY <1>10, LeaveMemberRemoves DEF LeaveEnd, KickOff, Logout
  <2> QED BY <1>6, <1>8, <2>1, <2>2
<1>11. CASE LeaveBegin(t)
  <2> DEFINE k == [task EXCEPT !.kind = "leave"]
  <2>1. /\ queue' = GoOn(t, k) /\ HasHandler(c)
        /\ UNCHANGED <<members, issued, cache, clients>>
    BY <1>11 DEF LeaveBegin
  <2>2. k \in Tasks /\ k.kind = "leave" /\ k.c = c BY <1>3 DEF Tasks, ClientKinds
  <2>3. Held(k.c) /\ conn[k.c] = "client" BY <2>1, <2>2 DEF HasHandler
  <2>4. PICK j : j = k OBVIOUS
  <2>5. Placed(t, 1, j)' BY <1>5, <2>2, <2>3, <2>4 DEF Placed
  <2>6. ClientsStay BY <1>5, <2>1 DEF ClientsStay
  <2>7. /\ j \in Tasks /\ queue' = GoOn(t, j) /\ Held(j.c)
        /\ j.kind \notin {"join", "update"}
    BY <2>1, <2>2, <2>3, <2>4
  <2> HIDE DEF k
  <2> QED BY <1>2, <1>5, <1>7, <2>1, <2>5, <2>6, <2>7, GoOnNames
<1>12. CASE LoginBegin(t)
  <2> DEFINE k == [task EXCEPT !.kind = "join", !.tok = issued + 1]
  <2>1. /\ queue' = GoOn(t, k) /\ issued' = issued + 1 /\ issued < MaxToken
        /\ LeaveMember(c) /\ cache' = cache /\ task.kind = "handle"
    BY <1>12 DEF LoginBegin, Runs
  <2>2. issued \in Nat /\ issued + 1 \in Tokens
    BY <1>1, <2>1, MaxTokenAssumption DEF TypeOK, Tokens
  <2>3. k \in Tasks /\ k.kind = "join" /\ k.c = c /\ k.tok = issued + 1
    BY <1>3, <2>2 DEF Tasks, ClientKinds
  <2>4. OnlyRemoved /\ clients' \subseteq clients BY <1>6, <2>1, LeaveMemberRemoves
  <2>5. Held(c) BY <1>3, <2>1, QueuedHeld DEF ClientKinds
  <2>6. thread[c] = t /\ conn[c] = "client" BY <1>3, <2>1 DEF Placed
  <2>7. PICK j : j = k OBVIOUS
  <2>8. Placed(t, 1, j)' BY <1>5, <2>1, <2>2, <2>3, <2>6, <2>7 DEF Placed
  <2>9. queue'[t] # <<>> /\ Head(queue'[t]) = j BY <1>1, <2>1, <2>7 DEF GoOn, TypeOK
  <2>10. Timely(t)'
    <3>1. \A u \in Uids : members.users[u] \in Nat /\ members.users[u] <= issued
      BY <1>4 DEF MemberLists, Tokens, NoToken, NamesInv, MembersBehind
    <3>2. \A u \in Uids : members'.users[u] < issued + 1
      BY <2>2, <2>4, <3>1 DEF OnlyRemoved, NoToken
    <3> QED BY <2>3, <2>7, <2>9, <3>2 DEF Timely
  <2>11. ClientsStay BY <1>5, <2>1 DEF ClientsStay
  <2>12. j \in Tasks /\ queue' = GoOn(t, j) /\ Held(j.c) BY <2>1, <2>3, <2>5, <2>7
  <2>13. cache' \cup clients' \subseteq cache \cup clients BY <2>1, <2>4
  <2> HIDE DEF k
  <2> QED BY <1>2, <1>5, <2>4, <2>8, <2>10, <2>11, <2>12, <2>13, GoOnNames
<1>13. CASE UpdateBegin(t)
  <2> DEFINE found == GetMember(members, token[c])
             k == [task EXCEPT !.kind = "update", !.tok = found,
                               !.uid = members.tokens[token[c]]]
  <2>1. /\ task.kind = "handle" /\ UNCHANGED <<members, issued, cache, clients>>
        /\ queue' = IF found = NoToken THEN Done(t) ELSE GoOn(t, k)
    BY <1>13 DEF UpdateBegin, Runs
  <2>2. CASE found = NoToken BY <1>7, <1>8, <2>1, <2>2
  <2>3. CASE found # NoToken
    <3>1. PICK v : v = members.tokens[token[c]] OBVIOUS
    <3>2. v \in Uids /\ found = members.users[v] BY <2>3, <3>1 DEF GetMember
    <3>3. found \in Tokens \cup {NoToken} /\ found <= issued
      BY <1>4, <3>2 DEF MemberLists, NamesInv, MembersBehind
    <3>4. PICK j : j = k OBVIOUS
    <3>5. /\ j \in Tasks /\ j.kind = "update" /\ j.c = c /\ j.tok = found /\ j.uid = v
      BY <1>3, <3>1, <3>2, <3>3, <3>4 DEF Tasks, ClientKinds
    <3>6. Held(c) BY <1>3, <2>1, QueuedHeld DEF ClientKinds
    <3>7. thread[c] = t /\ conn[c] = "client" BY <1>3, <2>1 DEF Placed
    <3>8. Placed(t, 1, j)' BY <1>5, <2>1, <3>3, <3>5, <3>7 DEF Placed
    <3>9. queue' = GoOn(t, j) BY <2>1, <2>3, <3>4
    <3>10. queue'[t] # <<>> /\ Head(queue'[t]) = j BY <1>1, <3>9 DEF GoOn, TypeOK
    <3>11. Timely(t)'
      <4>1. \A u \in Uids : u = j.uid => members'.users[u] = j.tok
        BY <2>1, <3>2, <3>5
      <4> QED BY <3>5, <3>10, <4>1 DEF Timely
    <3>12. ClientsStay BY <1>5, <2>1 DEF ClientsStay
    <3>13. Held(j.c) BY <3>5, <3>6
    <3> HIDE DEF k, found
    <3> QED BY <1>2, <1>5, <1>7, <2>1, <3>5, <3>8, <3>9, <3>11, <3>12, <3>13, GoOnNames
  <2> QED BY <2>2, <2>3
<1>14. CASE JoinMember(t)
  <2>1. /\ task.kind = "join" /\ c \in cache /\ cache' = cache \ {c}
        /\ clients' = clients \cup {c} /\ members' = Add(members, task.uid, task.tok)
        /\ queue' = Done(t) /\ issued' = issued
    BY <1>14 DEF JoinMember, Runs
  <2>2. cache' \cup clients' \subseteq cache \cup clients BY <2>1
  <2>3. Half(t) BY <1>2, <2>1 DEF Half
  <2> QED BY <1>5, <2>1, <2>2, <2>3, AddedNames
<1>15. CASE UpdateEnd(t)
  <2>1. /\ task.kind = "update" /\ members' = Add(members, task.uid, task.tok)
        /\ queue' = Done(t) /\ UNCHANGED <<cache, clients, issued>>
    BY <1>15 DEF UpdateEnd, Runs
  <2>2. cache' \cup clients' \subseteq cache \cup clients BY <2>1
  <2>3. Half(t) BY <1>2, <2>1 DEF Half
  <2> QED BY <1>5, <2>1, <2>2, <2>3, AddedNames
<1>16. CASE CrashOnFreedRoom(t)
  <2>1. UNCHANGED <<queue, members, cache, clients, issued>>
    BY <1>16 DEF CrashOnFreedRoom
  <2> QED BY <1>5, <2>1, UnchangedNames
<1> QED BY <1>9, <1>10, <1>11, <1>12, <1>13, <1>14, <1>15, <1>16 DEF RoomStep

\* A room that is deleted leaves clients behind, unless nobody is alive.
LEMMA CheckRoomNames ==
  ASSUME NamesInv, TypeOK', AdmittedOnce', CheckRoom
  PROVE  NamesInv'
<1>1. TypeOK BY DEF NamesInv
<1>2. /\ members' = NoMembers /\ orphans' = orphans \cup {c \in Conns : Held(c)}
      /\ UNCHANGED <<conn, thread, queue, cache, clients, issued>>
  BY DEF CheckRoom
<1>3. TasksPlaced' BY <1>2 DEF NamesInv, TasksPlaced, Placed
<1>4. \A c : Held(c)' <=> Held(c) BY <1>2 DEF Held
<1>5. OneRoom' BY <1>2, <1>4 DEF OneRoom
<1>6. MembersBehind'
  BY <1>1, <1>2, MaxTokenAssumption DEF MembersBehind, NoMembers, NoToken, TypeOK
<1>7. HalvesTimely'
  <2> SUFFICES ASSUME orphans' = {}, NEW t \in Threads, Half(t)'
               PROVE  FALSE
    BY DEF HalvesTimely
  <2>1. PICK k : k = Head(queue[t]) OBVIOUS
  <2>2. queue[t] # <<>> /\ k.kind \in {"join", "update"} BY <1>2, <2>1 DEF Half
  <2>3. k \in Tasks /\ Queued(k) BY <1>1, <2>1, <2>2, HeadPlaced DEF NamesInv
  <2>4. k.c \in Conns /\ Held(k.c) BY <2>2, <2>3, QueuedHeld DEF Tasks, ClientKinds
  <2> QED BY <1>2, <2>4
<1> QED BY <1>3, <1>5, <1>6, <1>7 DEF NamesInv

LEMMA InitNames == Init => NamesInv
<1> SUFFICES ASSUME Init PROVE NamesInv
  OBVIOUS
<1>1. TypeOK BY InitType
<1>2. /\ \A t \in Threads : queue[t] = <<>>
      /\ clients = {} /\ cache = {} /\ members = NoMembers /\ issued = 0
  BY DEF Init
<1>3. AdmittedOnce BY <1>2 DEF AdmittedOnce
<1>4. TasksPlaced BY <1>2 DEF TasksPlaced
<1>5. OneRoom BY <1>2 DEF OneRoom, Held
<1>6. MembersBehind
  <2> SUFFICES ASSUME NEW u \in Uids PROVE members.users[u] <= issued
    BY DEF MembersBehind
  <2>1. members.users[u] = 0 BY <1>2 DEF NoMembers, NoToken
  <2>2. issued = 0 BY <1>2
  <2> QED BY <2>1, <2>2
<1>7. HalvesTimely BY <1>2 DEF HalvesTimely, Half
<1> QED BY <1>1, <1>3, <1>4, <1>5, <1>6, <1>7 DEF NamesInv

-----------------------------------------------------------------------------
(* The theorems *)

\* NamesInv is inductive beside the types and the two lists of clients.
THEOREM NamesInvariant == Spec => []NamesInv
<1>1. NamesInv /\ TypeOK' /\ AdmittedOnce' /\ [Next]_vars => NamesInv'
  <2> SUFFICES ASSUME NamesInv, TypeOK', AdmittedOnce', [Next]_vars PROVE NamesInv'
    OBVIOUS
  <2>1. CASE Network BY <2>1, NetworkNames
  <2>2. ASSUME NEW t \in Threads, Step(t) PROVE NamesInv'
    BY <2>2, StepCases, ConnThreadNames, RoomStepNames
  <2>3. CASE CheckRoom BY <2>3, CheckRoomNames
  <2>4. CASE UNCHANGED vars BY <2>4, UnchangedNames
  <2> QED BY <2>1, <2>2, <2>3, <2>4 DEF Next
<1> QED BY <1>1, InitNames, TypeCorrect, OneListAtMost, PTL DEF Spec

\* Only the second halves of logins and of updates put a member into the table.
LEMMA OnlyHalvesAdd ==
  ASSUME NamesInv, [Next]_vars, NEW u \in Uids, members'.users[u] # members.users[u]
  PROVE  \/ members'.users[u] = NoToken
         \/ \E t \in Threads : /\ Half(t) /\ Head(queue[t]).uid = u
                               /\ members'.users[u] = Head(queue[t]).tok
<1>1. members \in MemberLists BY DEF NamesInv, TypeOK
<1>2. members' # members OBVIOUS
<1>3. ~Network /\ ~ConnThread /\ ~UNCHANGED vars
  BY <1>2 DEF Network, LoginPackets, OwnTokenPackets, OtherTokenPackets, ReadPacket, ReadError,
              WriteError, ConnThread, DropPacket, RejectFirst, RefuseDuplicate, PassPacket,
              AdmitFirst
<1>4. CASE CheckRoom BY <1>4 DEF CheckRoom, NoMembers
<1>5. ASSUME NEW t \in Threads, RoomStep(t)
      PROVE  \/ members'.users[u] = NoToken
             \/ /\ Half(t) /\ Head(queue[t]).uid = u
                /\ members'.users[u] = Head(queue[t]).tok
  <2>1. CASE JoinMember(t) \/ UpdateEnd(t)
    <3>1. /\ Half(t)
          /\ members' = Add(members, Head(queue[t]).uid, Head(queue[t]).tok)
      BY <2>1 DEF JoinMember, UpdateEnd, Runs, Half
    <3>2. members.users \in [Uids -> Tokens \cup {NoToken}] BY <1>1 DEF MemberLists
    <3> QED BY <3>1, <3>2 DEF Add
  <2>2. CASE \E x : members' = Remove(members, x) BY <1>1, <2>2, RemoveNames
  <2>3. CASE LeaveEnd(t) \/ KickOff(t) \/ Logout(t) \/ LoginBegin(t)
    BY <2>2, <2>3, LeaveMemberRemoves DEF LeaveEnd, KickOff, Logout, LoginBegin
  <2> QED BY <1>2, <1>5, <2>1, <2>3
          DEF RoomStep, ErrorIgnored, LeaveBegin, LoginAgain, JoinRefused, LogoutDenied,
              UpdateDenied, UpdateBegin, LostOnFreedRoom, CrashOnFreedRoom
<1> QED BY <1>3, <1>4, <1>5, StepCases DEF Next

\* A user id never falls back to an older login until a client outlives its room,
\* whatever the clients ask for: an update writes again what it has read, and
\* between the two no login of that user id has come in, because there is one room
\* and the logins and updates of its clients have one thread.
THEOREM NewerLoginWins == Spec => NewerTokenWins
<1> DEFINE A == orphans = {} => \A u \in Uids :
                  members.users[u] # NoToken /\ members'.users[u] # NoToken
                    => members'.users[u] >= members.users[u]
<1>1. NamesInv /\ [Next]_vars => [A]_vars
  <2> SUFFICES ASSUME NamesInv, [Next]_vars, orphans = {}, NEW u \in Uids,
                      members.users[u] # NoToken, members'.users[u] # NoToken
               PROVE  members'.users[u] >= members.users[u]
    OBVIOUS
  <2>1. members.users[u] \in Nat
    BY DEF NamesInv, TypeOK, MemberLists, Tokens, NoToken
  <2>2. CASE members'.users[u] = members.users[u] BY <2>1, <2>2
  <2>3. ASSUME NEW t \in Threads, Half(t), Head(queue[t]).uid = u,
               members'.users[u] = Head(queue[t]).tok
        PROVE  members'.users[u] >= members.users[u]
    <3>1. Timely(t) BY <2>3 DEF NamesInv, HalvesTimely
    <3>2. Head(queue[t]) \in Tasks BY <2>3, QueueType DEF NamesInv, Half
    <3>3. Head(queue[t]).tok \in Nat BY <3>2 DEF Tasks, Tokens, NoToken
    <3>4. CASE Head(queue[t]).kind = "join"
      BY <2>1, <2>3, <3>1, <3>3, <3>4 DEF Timely
    <3>5. CASE Head(queue[t]).kind # "join"
      BY <2>1, <2>3, <3>1, <3>3, <3>5 DEF Timely
    <3> QED BY <3>4, <3>5
  <2> QED BY <2>2, <2>3, OnlyHalvesAdd
<1> QED BY <1>1, NamesInvariant, PTL DEF Spec, NewerTokenWins

-----------------------------------------------------------------------------
(***************************************************************************)
(* Whoever the table shows is in the room, with updates too, as long as no *)
(* connection fails and no client outlives its room.  room_phantom brings  *)
(* a member back that has left; the theorem says that a connection error   *)
(* is what it takes, since nobody but HandleError removes a member while   *)
(* the thread of the room is half-way through an update.                   *)
(***************************************************************************)

\* No connection has failed, so that nobody leaves on another thread.
Unbroken ==
  /\ \A c \in Conns : sock[c] = "open"
  /\ \A t \in Threads : \A i \in 1 .. Len(queue[t]) : queue[t][i].kind \notin {"error", "leave"}

\* What a second half is about to add: the login of its client, or what is there.
HalfSound(k) ==
  IF k.kind = "join"
    THEN token[k.c] = k.tok /\ uid[k.c] = k.uid
    ELSE k.uid \in Uids /\ k.tok # NoToken /\ members.users[k.uid] = k.tok
HalvesSound == \A t \in Threads : Half(t) => HalfSound(Head(queue[t]))

UpdatesSafe == /\ Unbroken /\ HalvesSound
               /\ TokensDistinct /\ TokensFound /\ MemberHasClient

LEMMA OneHalf ==
  ASSUME NamesInv, orphans = {}, NEW t \in Threads, queue[t] # <<>>,
         Head(queue[t]).kind \in {"handle", "join", "update"}, NEW s \in Threads \ {t}
  PROVE  ~Half(s)
<1>1. t = roomThread BY OnRoomThread
<1>2. Half(s) => s = roomThread BY OnRoomThread DEF Half
<1> QED BY <1>1, <1>2

\* After a request or a second half is done, no second half is open.
LEMMA NoHalfLeft ==
  ASSUME NamesInv, orphans = {}, NEW t \in Threads, queue[t] # <<>>,
         Head(queue[t]).kind \in {"handle", "join", "update"}, queue' = Done(t)
  PROVE  HalvesSound'
<1>1. TypeOK /\ TasksPlaced BY DEF NamesInv
<1>2. \A s \in Threads : ~Half(s)'
  BY <1>1, OneHalf, DoneHalves
<1> QED BY <1>2 DEF HalvesSound

LEMMA UnbrokenKept ==
  ASSUME Unbroken, sock' = sock,
         \A s \in Threads : \A i \in 1 .. Len(queue'[s]) :
           Queued(queue'[s][i]) \/ queue'[s][i].kind \notin {"error", "leave"}
  PROVE  Unbroken'
BY DEF Unbroken, Queued

\* A packet or a request is appended.
LEMMA AppendSafe ==
  ASSUME UpdatesSafe, NEW t \in Threads, NEW k \in Tasks, k.kind \in {"packet", "handle"},
         NEW q \in [Threads -> Seq(Tasks)], queue' = [q EXCEPT ![t] = Append(@, k)],
         \A s \in Threads : \A i \in 1 .. Len(q[s]) : Queued(q[s][i]),
         \A s \in Threads : q[s] # <<>> /\ Head(q[s]).kind \in {"join", "update"}
                              => queue[s] # <<>> /\ Head(q[s]) = Head(queue[s]),
         UNCHANGED <<sock, members, clients, token, uid, issued>>
  PROVE  UpdatesSafe'
<1>1. PICK r : r = [q EXCEPT ![t] = Append(@, k)] OBVIOUS
<1>2. \A s \in Threads : \A i \in 1 .. Len(r[s]) : Queued(r[s][i]) \/ r[s][i] = k
  BY <1>1, AppendQueued
<1>3. Unbroken' BY <1>1, <1>2, UnbrokenKept DEF UpdatesSafe
<1>4. \A s \in Threads : Half(s)' => Half(s) /\ Head(queue'[s]) = Head(queue[s])
  BY AppendHalves
<1>5. HalvesSound' BY <1>4 DEF UpdatesSafe, HalvesSound, HalfSound
<1> QED BY <1>3, <1>5 DEF UpdatesSafe, TokensDistinct, TokensFound, MemberHasClient

\* Without a connection that may fail sockets only deliver packets.
LEMMA NetworkSafe ==
  ASSUME MaxBroken = 0, NamesInv, UpdatesSafe, Network
  PROVE  UpdatesSafe'
<1>1. TypeOK BY DEF NamesInv
<1>2. queue \in [Threads -> Seq(Tasks)] /\ "conn" \in Threads
  BY <1>1 DEF TypeOK, Threads
<1>3. ~MayBreak
  <2>1. {c \in Conns : sock[c] # "open"} = {} BY DEF UpdatesSafe, Unbroken
  <2> QED BY <2>1, FS_EmptySet DEF MayBreak
<1>4. \A c \in Conns : ~ReadError(c) /\ ~WriteError(c)
  BY <1>3 DEF ReadError, WriteError, UpdatesSafe, Unbroken
<1>5. ASSUME NEW c \in Conns, NEW req \in AllRequests, NEW u \in Uids \cup {NoUid},
             NEW t \in Tokens \cup {NoToken}, ReadPacket(c, req, u, t)
      PROVE  UpdatesSafe'
  <2> DEFINE k == [kind |-> "packet", c |-> c, req |-> req, uid |-> u, tok |-> t]
  <2>1. k \in Tasks /\ k.kind = "packet" BY DEF Tasks
  <2>2. queue' = [queue EXCEPT !["conn"] = Append(@, k)] BY <1>5 DEF ReadPacket
  <2>3. UNCHANGED <<sock, members, clients, token, uid, issued>> BY <1>5 DEF ReadPacket
  <2>4. \A s \in Threads : \A i \in 1 .. Len(queue[s]) : Queued(queue[s][i]) BY DEF Queued
  <2> HIDE DEF k
  <2> QED BY <1>2, <2>1, <2>2, <2>3, <2>4, AppendSafe
<1>6. \A c \in Conns : token[c] \in Tokens \cup {NoToken} BY <1>1 DEF TypeOK
<1>7. ASSUME NEW c \in Conns, LoginPackets(c) PROVE UpdatesSafe'
  BY <1>5, <1>7, RequestsAssumption DEF LoginPackets
<1>8. ASSUME NEW c \in Conns, OwnTokenPackets(c) PROVE UpdatesSafe'
  BY <1>5, <1>6, <1>8, RequestsAssumption DEF OwnTokenPackets
<1>9. ASSUME NEW c \in Conns, OtherTokenPackets(c) PROVE UpdatesSafe'
  BY <1>5, <1>9, RequestsAssumption DEF OtherTokenPackets
<1> QED BY <1>4, <1>7, <1>8, <1>9 DEF Network

LEMMA ConnThreadSafe ==
  ASSUME NamesInv, UpdatesSafe, ConnThread
  PROVE  UpdatesSafe'
<1> DEFINE task == Head(queue["conn"])
           k == [task EXCEPT !.kind = "handle"]
<1>1. TypeOK /\ TasksPlaced /\ "conn" \in Threads BY DEF NamesInv, Threads
<1>2. queue["conn"] # <<>>
  BY DEF ConnThread, DropPacket, RejectFirst, RefuseDuplicate, PassPacket, AdmitFirst, Runs
<1>3. task \in Tasks /\ Done("conn") \in [Threads -> Seq(Tasks)]
  BY <1>1, <1>2, QueueType
<1>4. k \in Tasks /\ k.kind = "handle" BY <1>3 DEF Tasks, ClientKinds
<1>5. UNCHANGED <<sock, members, clients, token, uid, issued>>
  BY DEF ConnThread, DropPacket, RejectFirst, RefuseDuplicate, PassPacket, AdmitFirst
<1>6. CASE queue' = Done("conn")
  <2>1. Unbroken' BY <1>1, <1>2, <1>5, <1>6, DoneQueued, UnbrokenKept DEF UpdatesSafe
  <2>2. HalvesSound'
    BY <1>1, <1>2, <1>5, <1>6, DoneHalves DEF UpdatesSafe, HalvesSound, HalfSound
  <2> QED BY <1>5, <2>1, <2>2 DEF UpdatesSafe, TokensDistinct, TokensFound, MemberHasClient
<1>7. ASSUME NEW th \in Threads, queue' = [Done("conn") EXCEPT ![th] = Append(@, k)]
      PROVE  UpdatesSafe'
  <2>1. PICK q : q = Done("conn") OBVIOUS
  <2>2. \A s \in Threads : \A i \in 1 .. Len(q[s]) : Queued(q[s][i])
    BY <1>1, <1>2, <2>1, DoneQueued
  <2>3. \A s \in Threads : q[s] # <<>> /\ Head(q[s]).kind \in {"join", "update"}
                             => queue[s] # <<>> /\ Head(q[s]) = Head(queue[s])
    BY <1>1, <1>2, <2>1, DoneFirst
  <2>4. q \in [Threads -> Seq(Tasks)] /\ queue' = [q EXCEPT ![th] = Append(@, k)]
    BY <1>3, <1>7, <2>1
  <2> HIDE DEF k
  <2> QED BY <1>4, <1>5, <2>2, <2>3, <2>4, AppendSafe
<1>8. CASE DropPacket \/ RejectFirst \/ RefuseDuplicate
  BY <1>6, <1>8 DEF DropPacket, RejectFirst, RefuseDuplicate
<1>9. CASE PassPacket
  <2>1. queue' = [Done("conn") EXCEPT ![thread[task.c]] = Append(@, k)]
    BY <1>9 DEF PassPacket
  <2>2. CASE thread[task.c] \in Threads BY <1>7, <2>1, <2>2
  <2>3. CASE thread[task.c] \notin Threads
    <3>1. queue' = Done("conn") BY <1>3, <2>1, <2>3
    <3> QED BY <1>6, <3>1
  <2> QED BY <2>2, <2>3
<1>10. ASSUME NEW th \in PoolThreads, AdmitFirst(th) PROVE UpdatesSafe'
  <2>1. th \in Threads /\ queue' = [Done("conn") EXCEPT ![th] = Append(@, k)]
    BY <1>10 DEF AdmitFirst, PoolThreads, Threads
  <2> QED BY <1>7, <2>1
<1> QED BY <1>8, <1>9, <1>10 DEF ConnThread

\* The threads of the room: every step is the thread's of the one room there is.
LEMMA RoomStepSafe ==
  ASSUME NamesInv, TypeOK', UpdatesSafe, orphans = {}, NEW t \in Threads, RoomStep(t)
  PROVE  UpdatesSafe'
<1> DEFINE task == Head(queue[t])
           c == task.c
<1>1. TypeOK /\ TasksPlaced /\ AdmittedOnce BY DEF NamesInv
<1>2. queue[t] # <<>>
  BY DEF RoomStep, ErrorIgnored, LeaveBegin, LeaveEnd, LoginAgain, LoginBegin, JoinMember,
         JoinRefused, LogoutDenied, Logout, UpdateDenied, UpdateBegin, UpdateEnd, KickOff,
         LostOnFreedRoom, CrashOnFreedRoom, Runs
<1>3. /\ task \in Tasks /\ Placed(t, 1, task) /\ Queued(task)
      /\ c \in Conns /\ task.tok \in Tokens \cup {NoToken} /\ task.uid \in Uids \cup {NoUid}
  <2>1. task \in Tasks /\ Placed(t, 1, task) /\ Queued(task) BY <1>1, <1>2, HeadPlaced
  <2> QED BY <2>1 DEF Tasks
<1>4. task.kind \notin {"error", "leave"} BY <1>3 DEF UpdatesSafe, Unbroken, Queued
<1>5. ~(ErrorIgnored(t) \/ LeaveBegin(t) \/ LeaveEnd(t))
  BY <1>4 DEF ErrorIgnored, LeaveBegin, LeaveEnd, Runs
<1>6. ~(LostOnFreedRoom(t) \/ CrashOnFreedRoom(t))
  BY DEF LostOnFreedRoom, CrashOnFreedRoom, OnFreedRoom
<1>7. task.kind \in {"handle", "join", "update"} /\ sock' = sock
  BY <1>5, <1>6
     DEF RoomStep, LoginAgain, LoginBegin, JoinMember, JoinRefused, LogoutDenied, Logout,
         UpdateDenied, UpdateBegin, UpdateEnd, KickOff, Runs
<1>8. token \in [Conns -> Tokens \cup {NoToken}] /\ clients \subseteq Conns
      /\ uid \in [Conns -> Uids \cup {NoUid}]
  BY <1>1 DEF TypeOK
<1>9. ASSUME queue' = Done(t) PROVE Unbroken' /\ HalvesSound'
  <2>1. Unbroken' BY <1>1, <1>2, <1>7, <1>9, DoneQueued, UnbrokenKept DEF UpdatesSafe
  <2> QED BY <1>2, <1>7, <1>9, <2>1, NoHalfLeft
<1>10. ASSUME NEW k \in Tasks, queue' = GoOn(t, k), k.kind \in {"join", "update"},
              HalfSound(k)'
       PROVE  Unbroken' /\ HalvesSound'
  <2>1. \A s \in Threads : \A i \in 1 .. Len(queue'[s]) :
          Queued(queue'[s][i]) \/ queue'[s][i] = k
    BY <1>1, <1>2, <1>10, GoOnQueued
  <2>2. Unbroken' BY <1>7, <1>10, <2>1, UnbrokenKept DEF UpdatesSafe
  <2>3. \A s \in Threads \ {t} : queue'[s] = queue[s] BY <1>1, <1>10, OthersStay
  <2>4. \A s \in Threads \ {t} : ~Half(s)'
    BY <1>2, <1>7, <2>3, OneHalf DEF Half
  <2>5. Head(queue'[t]) = k BY <1>1, <1>2, <1>10 DEF GoOn, TypeOK
  <2>6. HalvesSound'
    <3> SUFFICES ASSUME NEW s \in Threads, Half(s)' PROVE HalfSound(Head(queue[s]))'
      BY DEF HalvesSound
    <3>1. s = t BY <2>4
    <3> QED BY <1>10, <2>5, <3>1 DEF HalfSound
  <2> QED BY <2>2, <2>6
<1>11. ASSUME Unbroken', HalvesSound', UNCHANGED <<members, clients, token, uid, issued>>
       PROVE  UpdatesSafe'
  BY <1>11 DEF UpdatesSafe, TokensDistinct, TokensFound, MemberHasClient
<1>12. CASE LoginAgain(t) \/ JoinRefused(t) \/ LogoutDenied(t) \/ UpdateDenied(t)
  <2>1. queue' = Done(t) /\ UNCHANGED <<members, clients, token, uid, issued>>
    BY <1>12 DEF LoginAgain, JoinRefused, LogoutDenied, UpdateDenied
  <2> QED BY <1>9, <1>11, <2>1
<1>13. CASE LoginBegin(t)
  <2> DEFINE k == [task EXCEPT !.kind = "join", !.tok = issued + 1]
  <2>1. /\ LeaveMember(c)
        /\ token' = [token EXCEPT ![c] = issued + 1]
        /\ uid' = [uid EXCEPT ![c] = task.uid]
        /\ issued' = issued + 1 /\ issued < MaxToken
        /\ queue' = GoOn(t, k)
    BY <1>13 DEF LoginBegin
  <2>2. /\ issued \in Nat /\ issued + 1 \in Tokens
        /\ \A d \in Conns : token[d] \in Nat
    BY <1>1, <1>8, <2>1, MaxTokenAssumption DEF TypeOK, Tokens, NoToken
  <2>3. PICK j : j = k OBVIOUS
  <2>4. /\ j \in Tasks /\ j.kind = "join" /\ j.c = c /\ j.tok = issued + 1
        /\ j.uid = task.uid
    BY <1>3, <2>2, <2>3 DEF Tasks, ClientKinds
  <2>5. /\ token'[c] = issued + 1 /\ uid'[c] = task.uid
        /\ \A d \in Conns \ {c} : token'[d] = token[d] /\ uid'[d] = uid[d]
    BY <1>3, <1>8, <2>1
  <2>6. HalfSound(j)' BY <2>4, <2>5 DEF HalfSound
  <2>7. Unbroken' /\ HalvesSound' BY <1>10, <2>1, <2>3, <2>4, <2>6
  <2>8. /\ members' = Remove(members, token[c])
        /\ clients \ {c} \subseteq clients'
    BY <2>1, LeaveMemberRemoves
  <2>9. TokensFound' /\ MemberHasClient'
    <3>1. \A d \in clients : token[d] # token[c] =>
             d \in clients' /\ token'[d] = token[d] /\ uid'[d] = uid[d]
      BY <1>8, <2>5, <2>8
    <3>2. token[c] \in Tokens \cup {NoToken} BY <1>3, <1>8
    <3> QED BY <1>1, <2>8, <3>1, <3>2, RemovalKeeps DEF UpdatesSafe
  <2>10. TokensDistinct'
    <3>1. \A d \in Conns : token[d] <= issued BY DEF UpdatesSafe, TokensDistinct
    <3>2. \A d \in Conns : token'[d] <= issued'
      BY <2>1, <2>2, <2>5, <3>1
    <3>3. \A d \in Conns \ {c} : token'[d] # token'[c]
      BY <2>2, <2>5, <3>1
    <3>4. \A d, e \in Conns : token'[d] = token'[e] /\ token'[d] # NoToken => d = e
      BY <2>5, <3>3 DEF UpdatesSafe, TokensDistinct
    <3> QED BY <3>2, <3>4 DEF TokensDistinct
  <2> QED BY <2>7, <2>9, <2>10 DEF UpdatesSafe
<1>14. CASE JoinMember(t)
  <2>1. /\ c \in cache /\ task.kind = "join"
        /\ members' = Add(members, task.uid, task.tok)
        /\ clients' = clients \cup {c}
        /\ queue' = Done(t)
        /\ UNCHANGED <<token, uid, issued>>
    BY <1>14 DEF JoinMember, Runs
  <2>2. token[c] = task.tok /\ uid[c] = task.uid
    BY <1>2, <2>1 DEF UpdatesSafe, HalvesSound, HalfSound, Half
  <2>3. TokensDistinct' BY <2>1 DEF UpdatesSafe, TokensDistinct
  <2>4. /\ members'.users = [members.users EXCEPT ![task.uid] = task.tok]
        /\ members'.tokens = [members.tokens EXCEPT ![task.tok] = task.uid]
        /\ members.users \in [Uids -> Tokens \cup {NoToken}]
        /\ members.tokens \in [Tokens -> Uids \cup {NoUid}]
    BY <1>1, <2>1 DEF Add, TypeOK, MemberLists
  <2>5. ASSUME NEW u \in Uids, members'.users[u] # NoToken
        PROVE  /\ members'.tokens[members'.users[u]] = u
               /\ \E d \in clients' : token'[d] = members'.users[u] /\ uid'[d] = u
    <3>1. CASE u = task.uid
      <4>1. members'.users[u] = task.tok /\ task.tok \in Tokens
        BY <1>3, <2>4, <2>5, <3>1
      <4> QED BY <2>1, <2>2, <2>4, <3>1, <4>1
    <3>2. CASE u # task.uid
      <4>1. members'.users[u] = members.users[u] BY <2>4, <3>2
      <4>2. /\ members.tokens[members.users[u]] = u
            /\ members.users[u] \in Tokens
        BY <2>4, <2>5, <4>1 DEF UpdatesSafe, TokensFound
      <4>3. PICK d \in clients : token[d] = members.users[u] /\ uid[d] = u
        BY <2>5, <4>1 DEF UpdatesSafe, MemberHasClient
      <4>4. d # c BY <1>1, <2>1, <4>3 DEF AdmittedOnce
      <4>5. members.users[u] # task.tok
        BY <1>3, <1>8, <2>2, <2>5, <4>1, <4>3, <4>4 DEF UpdatesSafe, TokensDistinct
      <4>6. members'.tokens[members.users[u]] = u BY <2>4, <4>2, <4>5
      <4> QED BY <2>1, <4>1, <4>3, <4>6
    <3> QED BY <3>1, <3>2
  <2>6. TokensFound' /\ MemberHasClient' BY <2>5 DEF TokensFound, MemberHasClient
  <2> QED BY <1>9, <2>1, <2>3, <2>6 DEF UpdatesSafe
<1>15. CASE Logout(t)
  <2>1. /\ LeaveMember(c) /\ token' = [token EXCEPT ![c] = NoToken]
        /\ queue' = Done(t)
        /\ UNCHANGED <<uid, issued>>
    BY <1>15 DEF Logout
  <2>2. /\ token'[c] = NoToken
        /\ \A d \in Conns \ {c} : token'[d] = token[d]
    BY <1>3, <1>8, <2>1
  <2>3. /\ members' = Remove(members, token[c])
        /\ clients \ {c} \subseteq clients'
    BY <2>1, LeaveMemberRemoves
  <2>4. TokensFound' /\ MemberHasClient'
    <3>1. \A d \in clients : token[d] # token[c] =>
             d \in clients' /\ token'[d] = token[d] /\ uid'[d] = uid[d]
      BY <1>8, <2>1, <2>2, <2>3
    <3>2. token[c] \in Tokens \cup {NoToken} BY <1>3, <1>8
    <3> QED BY <1>1, <2>3, <3>1, <3>2, RemovalKeeps DEF UpdatesSafe
  <2>5. TokensDistinct'
    <3>1. issued \in Nat /\ NoToken = 0 BY <1>1 DEF TypeOK, NoToken
    <3>2. \A d \in Conns : token'[d] <= issued'
      BY <2>1, <2>2, <3>1 DEF UpdatesSafe, TokensDistinct
    <3>3. \A d, e \in Conns : token'[d] = token'[e] /\ token'[d] # NoToken => d = e
      BY <2>2 DEF UpdatesSafe, TokensDistinct
    <3> QED BY <3>2, <3>3 DEF TokensDistinct
  <2> QED BY <1>9, <2>1, <2>4, <2>5 DEF UpdatesSafe
<1>16. CASE UpdateBegin(t)
  <2> DEFINE found == GetMember(members, token[c])
             k == [task EXCEPT !.kind = "update", !.tok = found,
                               !.uid = members.tokens[token[c]]]
  <2>1. /\ UNCHANGED <<members, clients, token, uid, issued>>
        /\ queue' = IF found = NoToken THEN Done(t) ELSE GoOn(t, k)
    BY <1>16 DEF UpdateBegin
  <2>2. CASE found = NoToken BY <1>9, <1>11, <2>1, <2>2
  <2>3. CASE found # NoToken
    <3>1. PICK v : v = members.tokens[token[c]] OBVIOUS
    <3>2. v \in Uids /\ found = members.users[v] BY <2>3, <3>1 DEF GetMember
    <3>3. found \in Tokens BY <1>1, <2>3, <3>2 DEF TypeOK, MemberLists
    <3>4. PICK j : j = k OBVIOUS
    <3>5. j \in Tasks /\ j.kind = "update" /\ j.tok = members.users[v] /\ j.uid = v
      BY <1>3, <3>1, <3>2, <3>3, <3>4 DEF Tasks, ClientKinds
    <3>6. HalfSound(j)' BY <2>1, <2>3, <3>2, <3>5 DEF HalfSound
    <3>7. queue' = GoOn(t, j) BY <2>1, <2>3, <3>4
    <3>8. Unbroken' /\ HalvesSound' BY <1>10, <3>5, <3>6, <3>7
    <3> QED BY <1>11, <2>1, <3>8
  <2> QED BY <2>2, <2>3
<1>17. CASE UpdateEnd(t)
  <2>1. /\ task.kind = "update" /\ members' = Add(members, task.uid, task.tok)
        /\ queue' = Done(t) /\ UNCHANGED <<clients, token, uid, issued>>
    BY <1>17 DEF UpdateEnd, Runs
  <2>2. task.uid \in Uids /\ task.tok # NoToken /\ members.users[task.uid] = task.tok
    BY <1>2, <2>1 DEF UpdatesSafe, HalvesSound, HalfSound, Half
  <2>3. task.tok \in Tokens /\ members.tokens[task.tok] = task.uid
    BY <1>3, <2>2 DEF UpdatesSafe, TokensFound
  <2>4. members' = members
    <3>1. [members.users EXCEPT ![task.uid] = task.tok] = members.users
          /\ [members.tokens EXCEPT ![task.tok] = task.uid] = members.tokens
      BY <1>1, <2>2, <2>3 DEF TypeOK, MemberLists
    <3> QED BY <1>1, <2>1, <3>1 DEF Add, TypeOK, MemberLists
  <2> QED BY <1>9, <1>11, <2>1, <2>4
<1>18. CASE KickOff(t)
  <2>1. /\ members' = Remove(members, task.tok)
        /\ clients' = clients \ {d \in clients : token[d] = task.tok}
        /\ queue' = Done(t)
        /\ UNCHANGED <<token, uid, issued>>
    BY <1>18 DEF KickOff
  <2>2. TokensFound' /\ MemberHasClient'
    BY <1>1, <1>3, <2>1, RemovalKeeps DEF UpdatesSafe
  <2>3. TokensDistinct' BY <2>1 DEF UpdatesSafe, TokensDistinct
  <2> QED BY <1>9, <2>1, <2>2, <2>3 DEF UpdatesSafe
<1> QED BY <1>5, <1>6, <1>12, <1>13, <1>14, <1>15, <1>16, <1>17, <1>18 DEF RoomStep

LEMMA CheckRoomSafe ==
  ASSUME NamesInv, UpdatesSafe, CheckRoom, orphans' = {}
  PROVE  UpdatesSafe'
<1>1. TypeOK BY DEF NamesInv
<1>2. /\ members' = NoMembers /\ orphans' = orphans \cup {c \in Conns : Held(c)}
      /\ UNCHANGED <<sock, queue, clients, token, uid, issued>>
  BY DEF CheckRoom
<1>3. ASSUME NEW t \in Threads, Half(t) PROVE FALSE
  <2>1. PICK k : k = Head(queue[t]) OBVIOUS
  <2>2. queue[t] # <<>> /\ k.kind \in {"join", "update"} BY <1>3, <2>1 DEF Half
  <2>3. k \in Tasks /\ Queued(k) BY <1>1, <2>1, <2>2, HeadPlaced DEF NamesInv
  <2>4. k.c \in Conns /\ Held(k.c) BY <2>2, <2>3, QueuedHeld DEF Tasks, ClientKinds
  <2> QED BY <1>2, <2>4
<1>4. HalvesSound' BY <1>2, <1>3 DEF HalvesSound, Half
<1>5. TokensFound' /\ MemberHasClient'
  BY <1>2 DEF NoMembers, TokensFound, MemberHasClient
<1> QED BY <1>2, <1>4, <1>5 DEF UpdatesSafe, Unbroken, TokensDistinct

LEMMA InitSafe == Init => UpdatesSafe
<1> SUFFICES ASSUME Init PROVE UpdatesSafe
  OBVIOUS
<1>1. \A t \in Threads : queue[t] = <<>> BY DEF Init
<1>2. Unbroken BY <1>1 DEF Init, Unbroken
<1>3. HalvesSound BY <1>1 DEF HalvesSound, Half
<1>4. TokensDistinct /\ TokensFound /\ MemberHasClient BY InitMembers DEF MembersInv
<1> QED BY <1>2, <1>3, <1>4 DEF UpdatesSafe

\* Once a client has outlived its room it stays recorded.
LEMMA OrphansGrow == ASSUME [Next]_vars PROVE orphans \subseteq orphans'
<1>1. CASE Network
  BY <1>1 DEF Network, LoginPackets, OwnTokenPackets, OtherTokenPackets, ReadPacket, ReadError,
              WriteError
<1>2. ASSUME NEW t \in Threads, Step(t) PROVE orphans' = orphans
  <2>1. CASE ConnThread
    BY <2>1 DEF ConnThread, DropPacket, RejectFirst, RefuseDuplicate, PassPacket, AdmitFirst
  <2>2. CASE RoomStep(t)
    BY <2>2 DEF RoomStep, ErrorIgnored, LeaveBegin, LeaveEnd, LoginAgain, LoginBegin,
                JoinMember, JoinRefused, LogoutDenied, Logout, UpdateDenied, UpdateBegin,
                UpdateEnd, KickOff, LostOnFreedRoom, CrashOnFreedRoom
  <2> QED BY <1>2, <2>1, <2>2, StepCases
<1>3. CASE CheckRoom BY <1>3 DEF CheckRoom
<1>4. CASE UNCHANGED vars BY <1>4
<1> QED BY <1>1, <1>2, <1>3, <1>4 DEF Next

\* With every kind of request, updates included, the member under a user id is a
\* client in the room, as long as no connection fails and no client outlives its
\* room: it takes a connection error to make an update bring back who has left.
THEOREM PhantomsNeedErrors ==
  ASSUME MaxBroken = 0
  PROVE  Spec => [](orphans = {} => MemberHasClient)
<1> DEFINE Safe == orphans = {} => UpdatesSafe
<1>1. NamesInv /\ TypeOK' /\ Safe /\ [Next]_vars => Safe'
  <2> SUFFICES ASSUME NamesInv, TypeOK', Safe, [Next]_vars, orphans' = {}
               PROVE  UpdatesSafe'
    OBVIOUS
  <2>1. orphans = {} BY OrphansGrow
  <2>2. UpdatesSafe BY <2>1
  <2>3. CASE Network BY <2>2, <2>3, NetworkSafe
  <2>4. ASSUME NEW t \in Threads, Step(t) PROVE UpdatesSafe'
    BY <2>1, <2>2, <2>4, StepCases, ConnThreadSafe, RoomStepSafe
  <2>5. CASE CheckRoom BY <2>2, <2>5, CheckRoomSafe
  <2>6. CASE UNCHANGED vars
    BY <2>2, <2>6 DEF UpdatesSafe, Unbroken, HalvesSound, Half, HalfSound, TokensDistinct,
                      TokensFound, MemberHasClient
  <2> QED BY <2>3, <2>4, <2>5, <2>6 DEF Next
<1>2. Init => Safe BY InitSafe
<1>3. Safe => (orphans = {} => MemberHasClient) BY DEF UpdatesSafe
<1> QED BY <1>1, <1>2, <1>3, NamesInvariant, TypeCorrect, PTL DEF Spec
=============================================================================

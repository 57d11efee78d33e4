----------------------------- MODULE RoomServer -----------------------------
(***************************************************************************)
(* One room of the voice server (outsource/real_audio_server): the         *)
(* connections that enter it, the threads their work runs on, and the      *)
(* room's own tables.                                                      *)
(*                                                                         *)
(*   UserConnection  conn, sock, reads      one per accepted TCP socket    *)
(*   UserClient      token, uid, thread     created when JoinRoom admits   *)
(*                                          the connection to the room     *)
(*   Room            members, clients,      deleted by MasterControl::     *)
(*                   cache, roomThread      CheckRoom, created by JoinRoom *)
(*   what a client   view                   the member list of the client  *)
(*   has been told                          SDK after all it was sent      *)
(*                                                                         *)
(* Three threads take part.  "io" runs the socket callbacks.  "conn" is    *)
(* the pool thread ClientConnMgr chose at start-up: every connection       *)
(* parses and answers there.  The UserClients of a room run on the pool    *)
(* thread that was the least loaded when the room was created, which may   *)
(* be "conn" itself or another one, "room".  queue[t] holds the tasks of a *)
(* thread; a handler that reads something, lets go of the lock and uses    *)
(* what it read is two steps, the second one being put back at the head of *)
(* the queue of its thread.                                                *)
(*                                                                         *)
(* The model is the release build: assert(false) in HandleLogin does       *)
(* nothing.  Access to one std::list or one MemberList is one step.        *)
(***************************************************************************)
EXTENDS MemberList, Sequences, FiniteSets

CONSTANTS
  Conns,     \* TCP connections the server has accepted
  Requests,  \* the kinds of request the clients send in this instance
  MaxBroken, \* bound: connections whose socket fails
  MaxReads   \* bound: packets read from all connections

AllRequests == {"login", "badlogin", "logout", "extend", "state", "kick"}

ASSUME RequestsAssumption == Requests \subseteq AllRequests
ASSUME MaxBrokenAssumption == MaxBroken \in Nat
ASSUME MaxReadsAssumption == MaxReads \in Nat

VARIABLES
  up,          \* FALSE once a handler crashed on a deleted room
  sock,        \* the peer's end: "open", "broken" (a write failed),
               \* "closed" (a read failed)
  conn,        \* "first" (no packet yet), "rejected", "ignored", "client"
  reads,       \* packets read so far, of all connections
  queue,       \* the tasks of each thread
  thread,      \* thread the UserClient of a connection runs on
  token, uid,  \* UserClient::_token, _uid
  detached,    \* connections on which NotifyKickOff called DettachTcp
  orphans,     \* clients that outlived the Room they point to
  roomThread,  \* thread of the room, "none" when the room does not exist
  members, clients, cache,  \* Room::_members, _clients, _cache_clients
  issued,      \* token_number: the last token handed out
  view         \* member list of each client after the messages sent to it

connVars == <<sock, conn, reads, detached>>
clientVars == <<thread, token, uid>>
roomVars == <<roomThread, members, clients, cache, orphans>>
vars == <<up, connVars, queue, clientVars, roomVars, issued, view>>

Threads == {"conn", "room", "io"}
PoolThreads == {"conn", "room"}

\* A unit of work: a packet to parse, a request a UserClient handles, the
\* second half of a handler, or a socket error to report.
ClientKinds == {"handle", "join", "leave", "update"}
Tasks == [kind : ClientKinds \cup {"packet", "error"},
          c : Conns,
          req : AllRequests \cup {"none"},
          uid : Uids \cup {NoUid},
          tok : Tokens \cup {NoToken}]

ErrorTask(c) == [kind |-> "error", c |-> c, req |-> "none", uid |-> NoUid,
                 tok |-> NoToken]

-----------------------------------------------------------------------------
\* shared_ptr<UserClient>: a client lives while a list or a task refers to it.
Held(c) == \/ c \in cache \cup clients
           \/ \E t \in Threads : \E i \in 1 .. Len(queue[t]) :
                queue[t][i].c = c /\ queue[t][i].kind \in ClientKinds

\* Mutant: DettachTcp forgets to clear _packet_handler.
HasHandler_KeptWhenKicked(c) == conn[c] = "client" /\ Held(c)

\* _packet_handler is set by the UserClient's constructor and cleared by
\* DettachTcp, which NotifyKickOff and the UserClient's destructor call.
HasHandler(c) == conn[c] = "client" /\ Held(c) /\ c \notin detached

\* UserConnection::_stop
Stopped(c) == conn[c] = "rejected" \/ (conn[c] = "client" /\ ~HasHandler(c))

\* The queues after thread t has done its first task, and after that task was
\* replaced by k, the rest of the handler.
Done(t) == [queue EXCEPT ![t] = Tail(@)]
GoOn(t, k) == [queue EXCEPT ![t] = <<k>> \o Tail(@)]

\* The task follows UserClient::_room to a Room that has been deleted.
OnFreedRoom(task) ==
  /\ task.c \in orphans
  /\ task.kind \in ClientKinds \/ (task.kind = "error" /\ HasHandler(task.c))

\* Thread t runs its first task, which is of kind k.  A task on a freed room
\* runs like any other only when a new room has taken the old one's place.
Runs(t, k) ==
  /\ up
  /\ queue[t] # <<>>
  /\ Head(queue[t]).kind = k
  /\ OnFreedRoom(Head(queue[t])) => roomThread # "none"

\* What the clients know once those in `to` were sent a logout or a login.
TellLogout(to, t) ==
  [c \in Conns |-> IF c \in to THEN Remove(view[c], t) ELSE view[c]]
\* Mutant: only clients that do not know the name are told of a login.
TellLogin_NewNames(to, u, t) ==
  [c \in Conns |-> IF c \in to /\ view[c].users[u] = NoToken
                      THEN Add(view[c], u, t) ELSE view[c]]
TellLogin(to, u, t) ==
  [c \in Conns |-> IF c \in to THEN Add(view[c], u, t) ELSE view[c]]

-----------------------------------------------------------------------------
\* HandleAccept has accepted every connection, none has sent anything.
Init ==
  /\ up = TRUE
  /\ sock = [c \in Conns |-> "open"]
  /\ conn = [c \in Conns |-> "first"]
  /\ reads = 0
  /\ queue = [t \in Threads |-> <<>>]
  /\ thread = [c \in Conns |-> "none"]
  /\ token = [c \in Conns |-> NoToken]
  /\ uid = [c \in Conns |-> NoUid]
  /\ detached = {}
  /\ orphans = {}
  /\ roomThread = "none"
  /\ members = NoMembers
  /\ clients = {}
  /\ cache = {}
  /\ issued = 0
  /\ view = [c \in Conns |-> NoMembers]

-----------------------------------------------------------------------------
(* The io thread and the network *)

\* UserConnection::Read, data: the packet is parsed by a task of "conn".  A
\* request carries the sender's token, or none before the login was answered;
\* a kick-off and a state change name a token that has been in the room.
ReadPacket(c, req, u, t) ==
  /\ up /\ sock[c] = "open" /\ ~Stopped(c) /\ reads < MaxReads  \* bound
  /\ queue["io"] = <<>>
  /\ reads' = reads + 1
  /\ queue' = [queue EXCEPT !["conn"] =
       Append(@, [kind |-> "packet", c |-> c, req |-> req, uid |-> u, tok |-> t])]
  /\ UNCHANGED <<up, sock, conn, detached, clientVars, roomVars, issued, view>>

LoginPackets(c) ==
  \E req \in Requests \cap {"login", "badlogin"}, u \in Uids :
    ReadPacket(c, req, u, NoToken)
OwnTokenPackets(c) ==
  \E req \in Requests \cap {"logout", "extend"}, t \in {NoToken, token[c]} :
    ReadPacket(c, req, NoUid, t)
OtherTokenPackets(c) ==
  \E req \in Requests \cap {"kick", "state"} :
    \E t \in {x \in Tokens : members.tokens[x] \in Uids} :
      ReadPacket(c, req, NoUid, t)

\* bound: connections that fail
MayBreak == Cardinality({c \in Conns : sock[c] # "open"}) < MaxBroken

\* UserConnection::Read, error: the peer is gone, or the server has detached
\* the connection.  A task of "conn" reports it.  This was the last read.
ReadError(c) ==
  /\ up /\ queue["io"] = <<>>
  /\ sock[c] = "broken" \/ (sock[c] = "open" /\ MayBreak)
  /\ sock' = [sock EXCEPT ![c] = "closed"]
  /\ queue' = [queue EXCEPT !["conn"] = Append(@, ErrorTask(c))]
  /\ UNCHANGED <<up, conn, reads, detached, clientVars, roomVars, issued, view>>

\* UserConnection::Write, error: a message sent to a client (it has been sent
\* at least the answer to its login) could not be delivered.  HandleError
\* runs on the io thread itself, before or after the read fails.
WriteError(c) ==
  /\ up /\ queue["io"] = <<>>
  /\ HasHandler(c) /\ uid[c] # NoUid
  /\ sock[c] = "open" => MayBreak
  /\ sock' = [sock EXCEPT ![c] = IF @ = "open" THEN "broken" ELSE @]
  /\ queue' = [queue EXCEPT !["io"] = <<ErrorTask(c)>>]
  /\ UNCHANGED <<up, conn, reads, detached, clientVars, roomVars, issued, view>>

-----------------------------------------------------------------------------
(* The thread of the connections *)

\* UserConnection::RecvPacket when nobody takes the packet: the connection
\* is stopped, or JoinRoom refused it earlier and it has no handler.
DropPacket ==
  /\ Runs("conn", "packet")
  /\ LET c == Head(queue["conn"]).c IN
       Stopped(c) \/ conn[c] = "ignored"
  /\ queue' = Done("conn")
  /\ UNCHANGED <<up, connVars, clientVars, roomVars, issued, view>>

\* RecvPacket, first packet: VerifyAccount wants a login that is complete.
\* VerifyFailed sends the reason.
RejectFirst ==
  /\ Runs("conn", "packet")
  /\ LET task == Head(queue["conn"]) IN
       /\ conn[task.c] = "first" /\ task.req # "login"
       /\ conn' = [conn EXCEPT ![task.c] = "rejected"]
  /\ queue' = Done("conn")
  /\ UNCHANGED <<up, sock, reads, detached, clientVars, roomVars, issued, view>>

\* MasterControl::JoinRoom finds the user id in the room.  VerifyAccount
\* ignores the result and returns ERR_OK: nobody answers the login.
RefuseDuplicate ==
  /\ Runs("conn", "packet")
  /\ LET task == Head(queue["conn"]) IN
       /\ conn[task.c] = "first" /\ task.req = "login"
       /\ roomThread # "none" /\ members.users[task.uid] # NoToken
       /\ conn' = [conn EXCEPT ![task.c] = "ignored"]
  /\ queue' = Done("conn")
  /\ UNCHANGED <<up, sock, reads, detached, clientVars, roomVars, issued, view>>

\* Mutant: the first packet only opens the room, the client never gets it.
AdmitFirst_LoginNotPassed(th) ==
  /\ Runs("conn", "packet")
  /\ roomThread # "none" => th = roomThread
  /\ roomThread' = th
  /\ LET task == Head(queue["conn"]) IN
       /\ conn[task.c] = "first" /\ task.req = "login"
       /\ roomThread # "none" => members.users[task.uid] = NoToken
       /\ conn' = [conn EXCEPT ![task.c] = "client"]
       /\ thread' = [thread EXCEPT ![task.c] = th]
       /\ cache' = cache \cup {task.c}
       /\ queue' = Done("conn")
  /\ UNCHANGED <<up, sock, reads, detached, token, uid, members, clients, orphans,
                 issued, view>>

\* JoinRoom admits the connection: the room is created if need be, on the
\* least loaded thread of the pool, HandleConnection puts a new UserClient in
\* _cache_clients, and HandlePacket passes it the login.
AdmitFirst(th) ==
  /\ Runs("conn", "packet")
  /\ roomThread # "none" => th = roomThread
  /\ roomThread' = th
  /\ LET task == Head(queue["conn"]) IN
       /\ conn[task.c] = "first" /\ task.req = "login"
       /\ roomThread # "none" => members.users[task.uid] = NoToken
       /\ conn' = [conn EXCEPT ![task.c] = "client"]
       /\ thread' = [thread EXCEPT ![task.c] = th]
       /\ cache' = cache \cup {task.c}
       /\ queue' = [Done("conn") EXCEPT ![th] = Append(@, [task EXCEPT !.kind = "handle"])]
  /\ UNCHANGED <<up, sock, reads, detached, token, uid, members, clients, orphans,
                 issued, view>>

\* RecvPacket, later packets: UserClient::HandlePacket posts the request to
\* the thread of the room.
PassPacket ==
  /\ Runs("conn", "packet")
  /\ LET task == Head(queue["conn"]) IN
       /\ HasHandler(task.c)
       /\ queue' = [Done("conn") EXCEPT ![thread[task.c]] =
                      Append(@, [task EXCEPT !.kind = "handle"])]
  /\ UNCHANGED <<up, connVars, clientVars, roomVars, issued, view>>

-----------------------------------------------------------------------------
(* Leaving: Room::LeaveMember, called by HandleError on "conn" or "io" and by
   HandleLogin and HandleLogout on the room's thread *)

\* HandleError with nobody to tell, or for a token no member answers to.
ErrorIgnored(t) ==
  /\ Runs(t, "error")
  /\ LET c == Head(queue[t]).c IN
       ~HasHandler(c) \/ GetMember(members, token[c]) = NoToken
  /\ queue' = Done(t)
  /\ UNCHANGED <<up, connVars, clientVars, roomVars, issued, view>>

\* HandleError: LeaveMember finds the member and tells the others.
LeaveBegin(t) ==
  /\ Runs(t, "error")
  /\ LET task == Head(queue[t]) IN
       /\ HasHandler(task.c)
       /\ GetMember(members, token[task.c]) # NoToken
       /\ view' = TellLogout(clients \ {task.c}, token[task.c])
       /\ queue' = GoOn(t, [task EXCEPT !.kind = "leave"])
  /\ UNCHANGED <<up, connVars, clientVars, roomVars, issued>>

\* The rest of LeaveMember: the client and its member are removed.
LeaveEnd(t) ==
  /\ Runs(t, "leave")
  /\ LET c == Head(queue[t]).c IN
       /\ clients' = clients \ {c}
       /\ members' = Remove(members, token[c])
  /\ queue' = Done(t)
  /\ UNCHANGED <<up, connVars, clientVars, roomThread, cache, orphans, issued, view>>

\* LeaveMember in one step, for callers on the room's own thread.
LeaveMember(c) ==
  IF GetMember(members, token[c]) = NoToken
    THEN UNCHANGED <<clients, members>>
    ELSE /\ clients' = clients \ {c}
         /\ members' = Remove(members, token[c])

-----------------------------------------------------------------------------
(* The requests, on the room's thread: UserClient::Handle... *)

\* The list a client shows after the answer to its login: the members of the
\* room, then the client itself (the SDK appends it).
Snapshot(users, u, t) == Add(UpdateList(users), u, t)

\* HandleLogin of a client that is logged in as the same user: it is only
\* sent its token and the list again.
LoginAgain(t) ==
  /\ Runs(t, "handle")
  /\ LET task == Head(queue[t]) IN
       /\ task.req \in {"login", "badlogin"}
       /\ token[task.c] # NoToken /\ uid[task.c] = task.uid
       /\ view' = [view EXCEPT ![task.c] = Snapshot(members.users, task.uid, token[task.c])]
  /\ queue' = Done(t)
  /\ UNCHANGED <<up, connVars, clientVars, roomVars, issued>>

\* HandleLogin otherwise: a client that was another user leaves first; then
\* it gets a new token, the answer and the list of the members as of now.
\* The client enters the room in a second step, JoinMember.
LoginBegin(t) ==
  /\ Runs(t, "handle")
  /\ LET task == Head(queue[t])
         c == task.c
     IN
       /\ task.req \in {"login", "badlogin"}
       /\ token[c] = NoToken \/ uid[c] # task.uid
       /\ issued < MaxToken  \* bound
       /\ issued' = issued + 1
       /\ token' = [token EXCEPT ![c] = issued + 1]
       /\ uid' = [uid EXCEPT ![c] = task.uid]
       /\ LeaveMember(c)
       /\ LET told == IF GetMember(members, token[c]) = NoToken
                        THEN view ELSE TellLogout(clients \ {c}, token[c])
          IN view' = [told EXCEPT ![c] = Snapshot(members'.users, task.uid, issued + 1)]
       /\ queue' = GoOn(t, [task EXCEPT !.kind = "join", !.tok = issued + 1])
  /\ UNCHANGED <<up, connVars, thread, roomThread, cache, orphans>>

\* Mutant: the client is not erased from _cache_clients.
JoinMember_StaysCached(t) ==
  /\ Runs(t, "join")
  /\ LET task == Head(queue[t])
         c == task.c
     IN
       /\ c \in cache
       /\ members' = Add(members, task.uid, task.tok)
       /\ clients' = clients \cup {c}
       /\ cache' = cache
       /\ view' = TellLogin(clients \ {c}, task.uid, task.tok)
  /\ queue' = Done(t)
  /\ UNCHANGED <<up, connVars, clientVars, roomThread, orphans, issued>>

\* Mutant: whoever logs in enters, found in _cache_clients or not.
JoinMember_AnyClient(t) ==
  /\ Runs(t, "join")
  /\ LET task == Head(queue[t])
         c == task.c
     IN
       /\ members' = Add(members, task.uid, task.tok)
       /\ clients' = clients \cup {c}
       /\ cache' = cache \ {c}
       /\ view' = TellLogin(clients \ {c}, task.uid, task.tok)
  /\ queue' = Done(t)
  /\ UNCHANGED <<up, connVars, clientVars, roomThread, orphans, issued>>

\* Room::JoinMember: the client moves from _cache_clients to _clients, its
\* member is added, and the others are told.
JoinMember(t) ==
  /\ Runs(t, "join")
  /\ LET task == Head(queue[t])
         c == task.c
     IN
       /\ c \in cache
       /\ members' = Add(members, task.uid, task.tok)
       /\ clients' = clients \cup {c}
       /\ cache' = cache \ {c}
       /\ view' = TellLogin(clients \ {c}, task.uid, task.tok)
  /\ queue' = Done(t)
  /\ UNCHANGED <<up, connVars, clientVars, roomThread, orphans, issued>>

\* JoinMember does not find the client: assert(false), and the client goes on
\* with a token but without a place in the room.
JoinRefused(t) ==
  /\ Runs(t, "join")
  /\ Head(queue[t]).c \notin cache
  /\ queue' = Done(t)
  /\ UNCHANGED <<up, connVars, clientVars, roomVars, issued, view>>

\* HandleLogout, HandleUpdateExtend, HandleUpdateState with a token that is
\* not the client's: an error is sent, nothing else happens.
WrongToken(c, t) == token[c] # t /\ token[c] # NoToken

LogoutDenied(t) ==
  /\ Runs(t, "handle")
  /\ LET task == Head(queue[t]) IN
       task.req = "logout" /\ WrongToken(task.c, task.tok)
  /\ queue' = Done(t)
  /\ UNCHANGED <<up, connVars, clientVars, roomVars, issued, view>>

Logout(t) ==
  /\ Runs(t, "handle")
  /\ LET task == Head(queue[t])
         c == task.c
     IN
       /\ task.req = "logout" /\ ~WrongToken(c, task.tok)
       /\ LeaveMember(c)
       /\ token' = [token EXCEPT ![c] = NoToken]
       /\ view' = IF GetMember(members, token[c]) = NoToken
                    THEN view ELSE TellLogout(clients \ {c}, token[c])
  /\ queue' = Done(t)
  /\ UNCHANGED <<up, connVars, thread, uid, roomThread, cache, orphans, issued>>

\* HandleUpdateExtend with a wrong token; HandleUpdateState for a target that
\* is in the room (the test is inverted in the code) or with a wrong token.
UpdateDenied(t) ==
  /\ Runs(t, "handle")
  /\ LET task == Head(queue[t]) IN
       \/ task.req = "extend" /\ WrongToken(task.c, task.tok)
       \/ task.req = "state" /\ GetMember(members, task.tok) # NoToken
  /\ queue' = Done(t)
  /\ UNCHANGED <<up, connVars, clientVars, roomVars, issued, view>>

\* Mutant: the changed member is added by a task of its own, posted last.
UpdateBegin_AddPosted(t) ==
  /\ Runs(t, "handle")
  /\ LET task == Head(queue[t])
         found == GetMember(members, token[task.c])
     IN
       /\ \/ task.req = "extend" /\ ~WrongToken(task.c, task.tok)
          \/ task.req = "state" /\ GetMember(members, task.tok) = NoToken
       /\ queue' = IF found = NoToken
                     THEN Done(t)
                     ELSE [queue EXCEPT ![t] =
                             Append(Tail(@), [task EXCEPT !.kind = "update", !.tok = found,
                                                !.uid = members.tokens[token[task.c]]])]
  /\ UNCHANGED <<up, connVars, clientVars, roomVars, issued, view>>

\* Both end in MemberList::Update, which looks the member up, lets go of the
\* lock, and adds the changed member in a second step.
UpdateBegin(t) ==
  /\ Runs(t, "handle")
  /\ LET task == Head(queue[t])
         found == GetMember(members, token[task.c])
     IN
       /\ \/ task.req = "extend" /\ ~WrongToken(task.c, task.tok)
          \/ task.req = "state" /\ GetMember(members, task.tok) = NoToken
       /\ queue' = IF found = NoToken
                     THEN Done(t)
                     ELSE GoOn(t, [task EXCEPT !.kind = "update", !.tok = found,
                                     !.uid = members.tokens[token[task.c]]])
  /\ UNCHANGED <<up, connVars, clientVars, roomVars, issued, view>>

\* The second step: Add of what was found before.
UpdateEnd(t) ==
  /\ Runs(t, "update")
  /\ LET task == Head(queue[t]) IN members' = Add(members, task.uid, task.tok)
  /\ queue' = Done(t)
  /\ UNCHANGED <<up, connVars, clientVars, roomThread, clients, cache, orphans,
                 issued, view>>

\* Mutant: the client is dropped, its member stays.
KickOff_KeepsMember(t) ==
  /\ Runs(t, "handle")
  /\ LET task == Head(queue[t])
         kicked == {c \in clients : token[c] = task.tok}
     IN
       /\ task.req = "kick"
       /\ clients' = clients \ kicked
       /\ detached' = detached \cup kicked
       /\ members' = members
       /\ view' = TellLogout(clients \cup {task.c}, task.tok)
  /\ queue' = Done(t)
  /\ UNCHANGED <<up, sock, conn, reads, clientVars, roomThread, cache, orphans, issued>>

\* HandleKickOff: whatever the answer to the sender says, Room::HandleKickOff
\* tells the others, drops the clients that have the token, cuts their
\* connections and removes the member.  The sender's SDK drops the member
\* when it reads the answer.
KickOff(t) ==
  /\ Runs(t, "handle")
  /\ LET task == Head(queue[t])
         kicked == {c \in clients : token[c] = task.tok}
     IN
       /\ task.req = "kick"
       /\ clients' = clients \ kicked
       /\ detached' = detached \cup kicked
       /\ members' = Remove(members, task.tok)
       /\ view' = TellLogout(clients \cup {task.c}, task.tok)
  /\ queue' = Done(t)
  /\ UNCHANGED <<up, sock, conn, reads, clientVars, roomThread, cache, orphans, issued>>

-----------------------------------------------------------------------------
(* The life of the room *)

\* Mutant: only the waiting clients keep a room alive.
CheckRoom_ClientsIgnored ==
  /\ up /\ roomThread # "none"
  /\ cache = {}
  /\ roomThread' = "none"
  /\ members' = NoMembers
  /\ orphans' = orphans \cup {c \in Conns : Held(c)}
  /\ UNCHANGED <<up, connVars, queue, clientVars, clients, cache, issued, view>>

\* MasterControl::CheckRoom, on the timer thread: a room is deleted when both
\* its lists are empty, whatever tasks of its clients are still queued.
CheckRoom ==
  /\ up /\ roomThread # "none"
  /\ clients = {} /\ cache = {}
  /\ roomThread' = "none"
  /\ members' = NoMembers
  /\ orphans' = orphans \cup {c \in Conns : Held(c)}
  /\ UNCHANGED <<up, connVars, queue, clientVars, clients, cache, issued, view>>

\* A task on a freed room is undefined behaviour: it may run on the room that
\* has taken its place (the actions above), it may have no effect, or the
\* process may die.
LostOnFreedRoom(t) ==
  /\ up /\ queue[t] # <<>> /\ OnFreedRoom(Head(queue[t]))
  /\ queue' = Done(t)
  /\ UNCHANGED <<up, connVars, clientVars, roomVars, issued, view>>
CrashOnFreedRoom(t) ==
  /\ up /\ queue[t] # <<>> /\ OnFreedRoom(Head(queue[t]))
  /\ up' = FALSE
  /\ UNCHANGED <<connVars, queue, clientVars, roomVars, issued, view>>

-----------------------------------------------------------------------------
ConnThread == \/ DropPacket \/ RejectFirst \/ RefuseDuplicate \/ PassPacket
              \/ \E th \in PoolThreads : AdmitFirst(th)

\* One step of the loop of thread t.
Step(t) ==
  \/ t = "conn" /\ ConnThread
  \/ ErrorIgnored(t) \/ LeaveBegin(t) \/ LeaveEnd(t)
  \/ LoginAgain(t) \/ LoginBegin(t) \/ JoinMember(t) \/ JoinRefused(t)
  \/ LogoutDenied(t) \/ Logout(t)
  \/ UpdateDenied(t) \/ UpdateBegin(t) \/ UpdateEnd(t)
  \/ KickOff(t)
  \/ LostOnFreedRoom(t) \/ CrashOnFreedRoom(t)

Network == \E c \in Conns :
  \/ ReadError(c) \/ WriteError(c)
  \/ LoginPackets(c) \/ OwnTokenPackets(c) \/ OtherTokenPackets(c)

Next == \/ Network
        \/ \E t \in Threads : Step(t)
        \/ CheckRoom

Spec == Init /\ [][Next]_vars

\* A worker takes the next task as long as there is one (TaskThread's loop,
\* io_context::run): each thread gets its turn.
FairSpec == Spec /\ \A t \in Threads : WF_vars(Step(t))

-----------------------------------------------------------------------------
(* Properties *)

\* The variables have the types the code declares.
TypeOK ==
  /\ up \in BOOLEAN
  /\ sock \in [Conns -> {"open", "broken", "closed"}]
  /\ conn \in [Conns -> {"first", "rejected", "ignored", "client"}]
  /\ reads \in 0 .. MaxReads
  /\ queue \in [Threads -> Seq(Tasks)]
  /\ thread \in [Conns -> PoolThreads \cup {"none"}]
  /\ token \in [Conns -> Tokens \cup {NoToken}]
  /\ uid \in [Conns -> Uids \cup {NoUid}]
  /\ detached \subseteq Conns
  /\ orphans \subseteq Conns
  /\ roomThread \in PoolThreads \cup {"none"}
  /\ members \in MemberLists
  /\ clients \subseteq Conns
  /\ cache \subseteq Conns
  /\ issued \in 0 .. MaxToken
  /\ view \in [Conns -> MemberLists]

\* Whoever the room's table shows is there: the member under a user id is a
\* client of the room that was given that token under that user id.  JoinRoom
\* takes a name it finds in the table for a user who is in the room and turns
\* the newcomer away.
MemberHasClient ==
  \A u \in Uids : members.users[u] # NoToken =>
    \E c \in clients : token[c] = members.users[u] /\ uid[c] = u

\* A half-done LeaveMember.
Leaving == \E t \in Threads : queue[t] # <<>> /\ Head(queue[t]).kind = "leave"

\* No client misses a member: while nobody is half-way out, every client in
\* the room has been told of every member with another name.  The list sent
\* with the answer to a login and the notifications after it leave no gap.
NoMissedMember ==
  ~Leaving => \A c \in clients, u \in Uids :
                u # uid[c] => members.users[u] \in {NoToken, view[c].users[u]}

\* A client is in the room at most once in its life: it is never in both lists,
\* and once it has left them it does not come back.
AdmittedOnce ==
  /\ cache \cap clients = {}
  /\ \A c \in Conns : conn[c] # "client" => c \notin cache \cup clients

NeverBack ==
  [][\A c \in Conns : conn[c] = "client" /\ c \notin cache \cup clients
                         => c \notin cache' \cup clients']_vars

\* When a user id changes hands without a gap, the later login has it, also
\* while the member is being updated (unless a client has outlived its room).
NewerTokenWins ==
  [][orphans = {} => \A u \in Uids : members.users[u] # NoToken /\ members'.users[u] # NoToken
                                       => members'.users[u] >= members.users[u]]_vars

\* CheckRoom deletes no room whose table still shows a member.
DeletedRoomHadNoMember ==
  [][roomThread # "none" /\ roomThread' = "none"
       => \A u \in Uids : members.users[u] = NoToken]_vars

\* The logins whose second half, JoinMember, is still to come.
Answered ==
  {[uid |-> Head(queue[t]).uid, tok |-> Head(queue[t]).tok] :
     t \in {x \in Threads : queue[x] # <<>> /\ Head(queue[x]).kind = "join"}}

\* The threads of a room, of its connections and of clients that have outlived an
\* earlier room keep one list of members between them: each login enters once, in
\* the place of older ones only, and nothing but a login makes a name appear.
Directory == INSTANCE RoomDirectory WITH
  last <- issued, answered <- Answered, present <- members.users
ImplementsDirectory == Directory!Spec

\* After it was kicked a client asks nothing more of the room: the requests
\* that are still queued are the last.
HasPending(c) ==
  \E t \in Threads : \E i \in 1 .. Len(queue[t]) :
    queue[t][i].c = c /\ queue[t][i].kind = "handle"
KickedIsSilent ==
  [][\A c \in detached : HasPending(c)' => HasPending(c)]_vars

\* No client waits for ever to be let in: unless the process dies, a client in
\* _cache_clients, which keeps its room from being deleted, enters the room.
EventuallyAdmitted ==
  \A c \in Conns : (c \in cache) ~> (c \notin cache \/ ~up)

\* The assertion after JoinMember in HandleLogin: "this should not happen,
\* surely there is an error in the code".
JoinMemberFinds ==
  \A t \in Threads : queue[t] # <<>> /\ Head(queue[t]).kind = "join"
                        => Head(queue[t]).c \in cache

\* master_control.cpp:35: "there is already a user of the same name inside; a
\* user who comes later may not squeeze out the one before".
NoSqueeze ==
  [][\A u \in Uids : members.users[u] # NoToken
                        => members'.users[u] \in {NoToken, members.users[u]}]_vars

\* user_service.proto:49: a logout may have an error, the user is forced to
\* leave all the same.
LogoutLeaves ==
  [][\A t \in Threads :
       LET task == Head(queue[t]) IN
         queue[t] # <<>> /\ queue'[t] = Done(t)[t] /\ task.kind = "handle"
           /\ task.req = "logout" => task.c \notin clients']_vars
=============================================================================

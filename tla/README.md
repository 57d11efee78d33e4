# Verification of audioengine

TLA+ models of the voice engine in this repository, the TLC runs that check them
on small instances, and proofs that hold for every instance.

## 1. Inventory

The repository is a voice chat system: a **room server** that keeps who is in
which room, a **client SDK** that logs in to it, and an **audio engine** that
records, processes, mixes and plays sound. Most of the 2600 files are vendored
(codecs, WebRTC processing, head-related transfer tables, generated protobuf).
The system's own logic is in `outsource/`, `base/`, `protocol/`, and the mixer in
`processing/src/audio_mixer`.

| part | state it keeps | operations | what is hard | what makes it correct |
|---|---|---|---|---|
| `UserConnection`, `ClientConnMgr` (server) | first packet seen, stopped, packet handler | accept, read, parse, verify the first packet, report an error, detach | io thread and connection thread; errors from reads and writes | a connection is verified once; nothing is passed on after it was detached |
| `MasterControl` (server) | rooms by key | `JoinRoom`, `CheckRoom` every 60 s | runs on another thread than the rooms; deletes rooms | a name in the room is refused; only empty rooms are deleted |
| `Room`, `UserClient` (server) | `_members`, `_clients`, `_cache_clients`, token, user id | login, logout, update extension or state, kick off, leave on error | two to three threads on the same tables, each locked on its own | table and client lists agree; everybody is told of everybody; nobody enters twice |
| `MemberList` (both sides) | user id -> member, token -> user id | add, remove, update, find | get and add are two critical sections; tokens are never erased | a name leads to the member who has it |
| `TokenGenerater` | a counter | `NewToken` | not atomic, several room threads | tokens are unique |
| `TaskThread`, `ThreadPool`, `STask` | task queue, stop flag | add, run, stop | stop races with execution | tasks in order, none after stop |
| `TimerThread`, `STimer` | heap of due times | add, run, clear, stop | waking, executing under a lock | a task runs once, not before its time |
| `TcpSocketImpl` | write queue, writing flag | async read, write, connect | queue and flag under a mutex, callbacks outside | each buffer written once, in order |
| `ProtoPacket` | receive buffer | build, parse | packets cut anywhere by TCP | each message delivered once, in order |
| `UserService` (client) | requests waiting by serial number | connect, send with time-out, expire, receive | answer against time-out, wrap-around of the number | one callback per request |
| `UserManager` (client) | current state, wanted state, tries, token | login, logout, kick off, connect, verify | three threads, timers, retries | the current state reaches the wanted one, or the failure is reported |
| `CircularBuffer` | storage, two indices, size | write, read, clear | wrap-around | a bounded FIFO |
| `Mixer3D` | two circular buffers | add a recorded chunk, get a processed one | chunks and blocks of different sizes | all samples come out, once and in order |
| `AudioMixerImpl` | participants, frame pool | add, remove, limit, mix | limit, fading, null frames | the loudest are heard, nobody is cut off, frames return to the pool |
| `SilentVoiceFilter` | two lists, two counters | process, reset | thresholds | drops silence only |
| `AudioEngineCore`, channels, devices, codecs, files, effects | buffers, device handles | start, stop, callbacks | operating-system callbacks | mostly signal processing, not modelled |

How they interact: a socket callback of the server's io thread posts a task to
the thread of the connections ("conn"); that task parses packets, lets
`MasterControl::JoinRoom` place the connection in a room, and passes later
requests to the `UserClient`, which posts them to the thread of its room.
Handlers on the room's thread change the room's tables and send to the other
clients; write errors come back on the io thread, read errors through "conn".
`CheckRoom` runs on the timer thread. On the client `UserService` matches answers
to requests by serial number or time-out and `UserManager` turns them into state
changes and a member list.

`PROJECT.json` lists every component with its status, and under "hazards" the
places where tests hardly reach.

## 2. Plan

1. `MemberList` (operators) and `RoomServer` with their proofs: the heart of the
   system, where three threads meet. **Done.** `RoomDirectory`, what a room promises, is
   implemented by it: model-checked and proved.
2. `LoginClient`: `UserManager` and `UserService`: wanted and current state,
   replaced sockets, time-outs, retries. **Done**, with liveness, its safety properties proved.
3. `CircularBuffer` and `Mixer3D` implementing an abstract `BoundedFifo`. **Done**:
   model-checked and proved.
4. `TimerThread`. **Done**, its safety properties proved. `TaskQueue`, the stop of an `AsyncTask` against the
   execution of its tasks, is left.
5. `TcpWriteQueue`. **Done.** `ProtoFraming`, lost messages, is left.
6. `AudioMixer`. **Done**, its properties proved. `SilentVoiceFilter` and the race of `TokenGenerater`
   between rooms are left.
7. `VoiceSession`: one `LoginClient` against the room server's answers. Left.

Every safety property of a passing run is now a theorem as well. Theorems worth proving
next: `NoMissedMember` and `DeletedRoomHadNoMember` with updates, on the condition under which
`PhantomsNeedErrors` proves `MemberHasClient` (no connection fails), then which members an
update may bring back when one does, and the same for the modules still to be written.

## 3. Modules

### MemberList
The two maps of the class as a record of two total functions. A member is its
token, because the properties never look at the rest. `Remove` by token erases the
member of the token's user id and *keeps the token*, as the code does: a stale
token finds whoever has the user id now.

### RoomServer
One room with its connections. State and code:

| variable | code |
|---|---|
| `sock`, `reads` | the peer and the network; how many packets were read |
| `conn` | `UserConnection::_first_packet` and what `VerifyAccount` made of it |
| `queue` | `TaskThread::tasks` of the connections' thread, the room's thread, and the io thread |
| `thread`, `token`, `uid` | `UserClient::_task`, `_token`, `_uid` |
| `detached` | connections `NotifyKickOff` has cut |
| `roomThread`, `members`, `clients`, `cache` | the `Room`: its thread, `_members`, `_clients`, `_cache_clients` |
| `orphans` | clients whose `_room` points to a deleted `Room` |
| `issued` | `token_number` |
| `view` | the client's member list after the messages sent to it |
| `up` | false once a task crashed on a deleted room |

| action | code |
|---|---|
| `ReadPacket` (`LoginPackets`, `OwnTokenPackets`, `OtherTokenPackets`), `ReadError`, `WriteError` | callbacks of `UserConnection::Read` and `Write` |
| `DropPacket`, `RejectFirst`, `RefuseDuplicate`, `AdmitFirst`, `PassPacket` | the branches of `UserConnection::RecvPacket` with `VerifyAccount`, `JoinRoom`, `HandleConnection`, `HandlePacket` |
| `ErrorIgnored`, `LeaveBegin`, `LeaveEnd` | `UserConnection::HandleError`, `Room::LeaveMember` |
| `LoginAgain`, `LoginBegin`, `JoinMember`, `JoinRefused` | `UserClient::HandleLogin`, `Room::JoinMember` |
| `LogoutDenied`, `Logout` | `UserClient::HandleLogout` |
| `UpdateDenied`, `UpdateBegin`, `UpdateEnd` | `HandleUpdateExtend`, `HandleUpdateState`, `MemberList::Update` |
| `KickOff` | `UserClient::HandleKickOff`, `Room::HandleKickOff` |
| `CheckRoom`, `LostOnFreedRoom`, `CrashOnFreedRoom` | `MasterControl::CheckRoom` and what a task on a deleted `Room` may do |

Atomicity. A task is split where it lets go of a lock and another thread can act
on what it has read: between the list sent to a new client and its entry in the
room, between the lookup and the removal in `LeaveMember`, and between the lookup
and the addition in `MemberList::Update`. A handler's second half is put back at the
head of its thread's queue, so the thread does nothing else in between while the
other threads run on. On the room's own thread the call of `LeaveMember` (from a
login or logout) and the notification inside `JoinMember` are one step with the rest
of the handler.

Abstractions. One room; the user id, not the room key, is what logins differ in.
"badlogin" stands for a first login with an old version, an empty user id or an
empty room key; all requests but a complete login are rejected as the first packet.
Messages are delivered in the order they are sent, and `view` changes when the
server sends. A write that fails is `WriteError`; it can happen at any moment after
the client was sent its first message. Access to a `std::list` is one step, so the
corruption of the list itself by a data race is outside the model; so are the race on
the raw `_packet_handler` between its test and its call, and the framing of packets.
The write queue is a module of its own. `assert(false)` does nothing: the release build.
A task on a deleted room is undefined behaviour: it may be lost, may crash the
process, or may run on the room that was created since, in the same place.

### RoomDirectory
What a room promises to those who look at its member list, without threads, queues or
connections: the last token handed out (`last`), the logins that were answered and have
not entered (`answered`), and the token under each name (`present`). `Answer` hands out a
token, `Enter` puts a login in the place of older ones only, `Forget` and `Leave` are what a
refused or lost login and a departure look like from outside. In `RoomServer`,
`Directory` maps `last` to `issued`, `present` to the members by user id, and `answered` to
the second halves of logins that are at the head of a queue (`Answered`).

What could break it: tokens are handed out in one step and used in a later one, and a
client that has outlived a deleted room still runs its requests on its old thread, perhaps
while a login of the new room is half-done on another. It gets newer tokens than that
login, but it is not in `_cache_clients` any more, so that `JoinMember` refuses it.
With updates the promise is not kept (`room_phantom`), so the refinement is
stated and proved for rooms whose clients do not update.

### MCRoomServer
Model values and the symmetry set. Connections and user ids are interchangeable in
`RoomServer`; the one CHOOSE, in `UpdateList`, has a unique witness because a token
is given to one user. Symmetry is not used in the run with liveness.

### LoginClient
`UserManager` on top of `UserService`, for one client, with the server and the network
around it. One record `c` holds the fields of both classes, so that `Transform` and
everything it calls under its mutex is one operator on records and one step:

| field of `c`, variable | code |
|---|---|
| `cur`, `want`, `target`, `tries` | `_cur_state`, `_target_state`, `_target_state_internel`, `_try_login_count` |
| `failed` | `_error_code` is not 0 |
| `timer` | the newest connect timer has noted the present `_cur_state_time` |
| `sock`, `aborted` | `_tcp_socket`; handlers still due of sockets that were destroyed and of failed writes |
| `waiting` | `_req_packet_list`, by the kind of request |
| `session` | what the server has made of this connection |
| `said` | the last `_RespondLogin` or `_RespondLogout` since the last call |
| `tasks` | the queue of the service's task thread |
| `api`, `fired` | the user's thread inside `Login` or `Logout`; the timer thread inside the connect timer |

`Login` and `Logout` set the goal and read the state without the mutex, and
`CallTransforms` is the `Transform` that follows; `TimerCheck` and `ConnectTimeout` are the
test and the act of the connect timer. `Expire` is `TimerLoop`, `LoginAnswer` and
`LogoutAnswer` are `UserService::RecvPacket`, `RunTask` runs one callback, `Kicked` is
the kick branch of `UserManager::RecvPacket`.

Abstractions. Parsing is merged with the arrival of a packet, a login answer and the
user list that follows it are one message, and the serial numbers do not wrap. What a
socket that is replaced had already put on the task thread is modelled for errors only.
The race on the pointer `_tcp_socket` itself is left out. `tries` stops one above the
limit. The server's address is always valid.

What the model shows beside its properties. Replacing the socket aborts the operation
pending on the old one, whose error counts as another failed try and replaces the socket
again: after one connect time-out the tries burn down in a row. Giving up leaves the
connection open, and perhaps the session alive at the server; a login answer that comes
after it reports success and is followed by the logout. Logging out while connecting
may be reported twice, and a kick is not reported at all.

### TimerThread, MCTimerThread
The worker's loop as the steps between which it lets go of the queue's mutex, the tasks
with the time they still have to wait, and the timers that are gone. `AddTask` is both
`TimerThread::AddTask` and the check of `STimer`; `DestroyTimer` is `~Timer` with
`STimer::Stop`; `StartTask` and `FinishTask` are the lambda of `STimer::AddTask`, with the
periodic tasks of the code (`TimerLoop`, `CheckRoom`), which end with adding themselves; when
their timer was destroyed that does nothing, since `STimer::AddTask` looks at its flag.
Times are relative, so the clock is not bounded. A task takes no time. `StopAtStart` is what
the uninitialised `_stop` holds; the run takes FALSE, the only value with which a timer works.
The instance is the client's: the time-out loop (100 ms, here 3), two connect timers (5 s,
here 7), `max_sleepMs` 100 (here 3).

The worker's wait is not ended by a new task, and it waits for the earliest task also
when that is longer than `max_sleepMs`: hence the bound of `NeverLate`, which is the
longest delay and not `max_sleepMs`.

### CircularBuffer, Mixer3D, BoundedFifo
The buffer is a record with its storage and indices, its methods are operators.
`Mixer3D` holds two of them; its caller, the recording callback of
`unittest/audio_device_example.cpp`, adds a chunk (`AddProcessData`) and then gets chunks of
that size until there is none (`GetProcessData`, `GetNothing`). A chunk is at most a block
here: a block is 1024 samples (mixer3d.h:26), and the 10 ms the devices record are at most
960 samples, at 48 kHz in stereo. With longer chunks or a caller that does not take all there is,
the assertion at mixer3d.cpp:88 can fail. A sample is its number in the recording.
Assertions are evaluated, as in a debug build: the read of `GetProcessData` is inside one.
`BoundedFifo` says what the caller may rely on: `queue` maps to what both buffers hold,
`got` to what the last call delivered.

### AudioMixer, MCAudioMixer
`GetMixerAudio` is one step (the class has no lock and one caller at a time), with the
answer of every participant as its input. What it does is written as recursive functions
over the list, one step of a loop to an operator (`AskedFor`, `Asked`, `Weighted`), so that
it can be proved about. Frames are counted, not named; a weight is the
number of times it was halved (whether it began at 1 or at 0.7 is left out); an energy is
the computed one, so "the loudest" means those with the largest computed energy (the code's
uint32 sum of squares can wrap); a limit is a natural number; `needMixCount`
stops at -1, from where the code decrements it on without effect until it overflows.
The code mixes one participant more than `LimitParticipantCount` asks for
(`m_limitCount >= nMixframeCounter`), and goes on mixing faded ones at 1/32 for ever.

### TcpWriteQueue
`AsyncWrite` up to the end of its critical section, the start of the write after it
(`DoAsyncWrite`), and the completion handler up to the end of its own. The bytes and the
lifetimes of buffers are left out.

## 4. Runs

| run | instance | checks |
|---|---|---|
| `room_core` | 3 connections, 2 user ids, 4 packets, 4 tokens, 1 failing connection; login, logout, kick | `TypeOK`, `MemberHasClient`, `NoMissedMember`, `AdmittedOnce`, `NeverBack`, `DeletedRoomHadNoMember`, `KickedIsSilent`, `ImplementsDirectory` |
| `room_updates` | 2 connections, 3 packets, 3 tokens; login, incomplete login, update of extension and state; fair threads | `AdmittedOnce`, `NewerTokenWins`, `EventuallyAdmitted` |
| `room_assert` | 2 connections, 4 packets | `JoinMemberFinds`: violated |
| `room_squeeze` | 2 connections, 4 packets | `NoSqueeze`: violated |
| `room_logout` | 2 connections, 4 packets | `LogoutLeaves`: violated |
| `room_phantom` | 2 connections, 3 packets, with updates | `MemberHasClient`: violated |
| `client_login` | 3 calls, 1 retry, 1 lost connection; prompt threads; fair | `TypeOK`, `TemporaryStateHasTimer`, `NothingWantedAtRest`, `RetriesEnd`, `LogoutPrevails`, `LoginAnswered` |
| `client_stuck` | the same, threads may be held up | `TemporaryStatesEnd`: violated |
| `timer` | 2 timers, 1 periodic and 2 single tasks; fair | `TypeOK`, `NoTaskAfterDestroy`, `NeverThrows`, `NeverLate`, `TasksRun`, `JoinReturns` |
| `mixer3d` | blocks of 4, chunks of 1 to 4, samples numbered modulo 20; fair | `TypeOK`, `RoomForNext`, `NothingLost`, `ImplementsFifo`, `SoundFlows` |
| `audio_mixer` | 3 participants, 3 energies, limits 0, 1 and 3 | `TypeOK`, `NoNullFrame`, `FramesComeBack`, `LoudestHeard`, `NobodyCutOff` |
| `tcp_write` | 2 writers, 3 buffers | `ClearMeansIdle`: violated |

What the passing runs show:

* `MemberHasClient`: whoever the table shows is a client of the room with that token
  and that user id. It survives stale tokens, two logins under one name, kicks and
  overlapping errors, and fails only with the two-step update (`room_phantom`).
* `NoMissedMember`: the list sent with the login answer, taken before the client is in
  the room, and the notifications after it leave no gap, except under the client's
  own name and while somebody is half-way out.
* `AdmittedOnce`, `NeverBack`: a client is in at most one list and enters the room once.
* `DeletedRoomHadNoMember`: `CheckRoom` looks at the client lists only, and still never
  throws away a member.
* `KickedIsSilent`: a kicked client adds no request.
* `ImplementsDirectory`: the room, the clients that have outlived it and the rooms created
  after it together keep the one list that `RoomDirectory` describes.
* `NewerTokenWins`: a user id never falls back to an older login, also not by an update
  that was begun before the newer login, until a client has outlived its room.
* `EventuallyAdmitted`: a client in `_cache_clients`, which keeps its room alive,
  is let in, or the process has died.

* `TemporaryStateHasTimer`: a client that waits for a connect, for a login or for a logout
  can always be moved on by a timer, a waiting request or a callback already queued.
* `NothingWantedAtRest`: no client rests at `LS_NONE` with a login still wanted.
* `RetriesEnd`, `LogoutPrevails`, `LoginAnswered`: the retries come to an end, a logout in
  the middle of a login wins, and a login is reported as success or failure.
* `NoTaskAfterDestroy`, `NeverThrows`: `~Timer` keeps its promise against the worker, and
  with the timers destroyed first nothing is added to a stopped thread.
* `NeverLate`, `TasksRun`, `JoinReturns`: the order of the heap and the waits of the worker
  neither starve a task nor keep the join waiting.
* `RoomForNext`, `NothingLost`, `ImplementsFifo`, `SoundFlows`: whatever the sizes of the
  chunks, the two buffers are one FIFO that never overflows and never stops.
* `NoNullFrame`, `FramesComeBack`, `LoudestHeard`, `NobodyCutOff`: what the mixer remembers
  of a participant from frame to frame never leads to a missing frame, a lost one, a
  louder voice left out, or a voice that stops at once.

What the violations show: a login under another user id reaches the
`assert(false)` of `HandleLogin`; two logins under one name pass the check of
`JoinRoom` while they wait and the later takes the earlier's place; a logout with a
wrong token leaves the client in the room, against `user_service.proto:49`; an
update that crosses a connection error brings the member of a client that has left
back into the table, where it blocks its user id; a thread that is held up between its
read of the login state and `Transform` leaves the client connecting for ever; a
buffer written during a write is written twice and `_writing` is cleared too early. "findings" in `PROJECT.json` quotes
the lines.

Bounds. `MaxReads`, `MaxToken` and `MaxBroken` cap packets, tokens and failing
connections. Four packets are enough for two logins under one name, a second login of
a client, and a kick with a stale token; one failing connection gives two errors (write
and read), handled on two threads. `MaxToken` is at least `MaxReads` in every run, so
`LoginBegin` is never held back by its bound. The room can be created on the
connections' own thread or on another, be deleted and created again in all runs.
In `client_login` one retry (`MaxTry` 1, the code has 5) lets every kind of failure happen
once more after a retry, three calls allow a login, a logout and a login again, and
`MaxLate` 0 lets the user and the timers, which take seconds, act only when no callback
is due. `Prompt` says that no thread is held up for that long between a read outside the
mutex and its use, which `client_stuck` gives up. In `mixer3d` 20 numbers are more than the 12
samples that fit inside, and the chunk sizes 1 to 4 put the indices at every place. The
`timer` instance has two tasks that may be due together and a wait longer than
`max_sleepMs`. The limits of `audio_mixer` allow one participant too few, two, and all.
Deadlock is not checked in the runs of rooms, logins, timers and writes because the system is quiescent once all packets are read, calls made or threads ended.

Fairness. `FairSpec` asks weak fairness of each thread: `TaskThread`'s loop takes the
next task as long as there is one and `io_context::run` the next callback. Nothing is
asked of clients, of the network or of `CheckRoom`. In `LoginClient` the threads go on, the
timers and time-outs fire, and the operating system ends every connect and every
operation of a closed socket; the user, the server's answers and failures owe nothing.
In `TimerThread` the worker is scheduled and time passes. In `Mixer3D` the device goes on
recording.

## 5. Proofs

Four modules build on one another for the room; the other components have one each.

| module | theorems that state a property of a run |
|---|---|
| `RoomServerProofs` | `TypeCorrect`, `OneListAtMost`, `ClientsStayOut`, `MembersArePresent`*, `DeletedRoomsAreEmpty`*, `KickedAreSilent` |
| `RoomDirectoryProofs` | `RoomImplementsDirectory`* |
| `RoomViewsProofs` | `NobodyIsMissed`* |
| `RoomUpdatesProofs` | `NewerLoginWins`, `PhantomsNeedErrors` (if `MaxBroken = 0`) |
| `LoginClientProofs` | `ClientTypes`, `AtRest`, `TimersWait` (if `Prompt`) |
| `TimerThreadProofs` | `TimerTypes`, `NoneAfterDestroy`, `NothingThrows`, `LateByOneWait` |
| `Mixer3DProofs` | `MixerTypes`, `AlwaysRoom`, `MixerIsFifo`, `NoSampleLost` |
| `AudioMixerProofs` | `MixerTypes`, `PoolComplete`, `FramesForAll`, `LoudestFirst`, `FadedNotCut` |

The theorems with a star assume that no client updates its extension or its state
(`Requests \cap {"extend", "state"} = {}`). An update that crosses a connection error brings
back the member of a client that has left: `MemberHasClient` is then false, as `room_phantom`
shows, and with it what the others rest on. `PhantomsNeedErrors` says what of it
remains with updates. The theorems without a star are about every set of
requests.

**`RoomServerProofs`**, for any set of connections and user ids and any bounds:

* `TypeCorrect`: `Spec => []TypeOK`. The lemmas give the type
  of each operation of `MemberList` and of the queues, then each action has a step.
* `OneListAtMost`, `ClientsStayOut`: `AdmittedOnce` and `NeverBack`.
  Both follow from what a step may do to the two lists (`ListsStep`): a new
  client enters `_cache_clients`, a client moves from there to `_clients`, or clients leave.
* `MembersInvariant`: `MembersInv` is inductive. `MemberHasClient` alone is not: a
  `Remove` by a stale token could hit another user. The strengthening says that no two
  clients share a token and none is ahead of the counter (`TokensDistinct`), that a
  half-done login is at the head of the queue of its client's thread with the client's
  present token and user id (`TasksSound`), that the token of a member leads back to
  its user id (`TokensFound`), and `AdmittedOnce`.
* `MembersArePresent`, `DeletedRoomsAreEmpty`: `MemberHasClient` and
  `DeletedRoomHadNoMember` as theorems.
* `KickedAreSilent`: `KickedIsSilent`. Who is detached was a client (`DetachedAdmitted`), so
  that it cannot be admitted again, and `PassPacket` is the only other step that posts a
  request: each of the others takes tasks away or replaces them by what is no request.

**`RoomDirectoryProofs`** proves the refinement on top of it:

* `DirectoryInvariant`: beside `MembersInv`, the clients in `_cache_clients` run on the
  thread of the room there is (`CacheSound`), the token of a half-done login of such a
  client is newer than every member's (`JoinsNewer`), and queued logins have a name
  (`TasksNamed`). `JoinsNewer` is what `Enter` asks for; it is kept because all waiting clients
  share one thread, which does one login at a time, and nobody else can enter.
* `RoomImplementsDirectory`: each action is one of `RoomDirectory` or stutters.
* `NamesGoForward`: from the same steps, names go forward also when clients have outlived
  their room, which `NewerTokenWins` leaves out.

**`RoomViewsProofs`**: every client knows the others.

* `ViewsInvariant`: `ViewsInv` is inductive. `NoMissedMember` speaks of the states in which
  nobody is half-way out and of the clients in the room; an inductive invariant has to speak of
  all of them. `IsTold` lets a client miss a member whom a half-done `LeaveMember` is about to
  remove (`GoingName`: its token leads to that name), and holds for the clients that are
  half-way in as well (`Entering`), who have their list but are not told anything yet.
  Since the SDK removes by token what the room removes by token, the two must agree on where a
  token leads: `Agrees`, for all names but the client's own, which the SDK appends
  itself. New tokens lead nowhere before they enter (`TokensIssued`, `JoinsUnknown`), and the
  tokens of clients of an earlier room lead nowhere in the present one (`OrphansUnknown`), so
  that their errors announce nobody.
* `NobodyIsMissed`: `NoMissedMember`.

**`RoomUpdatesProofs`**: names go forward with updates too.

* `NamesInvariant`: `NamesInv` is inductive. An update looks a member up and writes it back
  later, by when it may be gone. What it must not do is overwrite a newer login. Until
  a client outlives its room, all clients that are alive are on the thread of the one
  room there is (`OneRoom`), the requests and second halves in the queues are on the thread of
  their client (`TasksPlaced`), so one half at most is open; a half-done login is
  newer than every member, and a half-done update carries what its name still shows, or
  the name shows nothing (`HalvesTimely`). TLC has checked `NamesInv` and `ViewsInv` on instances
  with two and three connections before they were proved.
* `NewerLoginWins`: `NewerTokenWins`, because only second halves add a member (`OnlyHalvesAdd`).
  The property is limited to the time before a client outlives its room: after that two
  threads may write to the same table.
* `PhantomsNeedErrors`: `MemberHasClient` for every set of requests, updates included, if no
  connection fails (`MaxBroken = 0`) and until a client outlives its room. Without
  errors only the room's thread removes members, so that the member a half-done update has
  looked up is still there when the second half writes it back (`HalfSound`, a part of the
  invariant `UpdatesSafe`). The phantom of `room_phantom` therefore takes a connection error,
  or a client on a deleted room.

**`LoginClientProofs`**, for any number of calls, retries, late callbacks and lost connections:

* `ClientTypes`: `TypeOK`.
* `AtRest`: `NothingWantedAtRest`, also when threads are held up. Whatever `Transform` ends in
  from one of the states callbacks and timers use, it is settled (`Settled`): a temporary state
  has something to end it, and a client at rest wants nothing.
* `TimersWait`: `TemporaryStateHasTimer`, on the condition `Prompt` under which the run checks it: no
  thread is held up between reading `_cur_state` and its `Transform`. The invariant needs to know
  that what a call has read is still so (`ReadIsFresh`). Without `Prompt` the client can be left
  connecting for ever, as `client_stuck` shows, so the condition cannot be dropped.

**`TimerThreadProofs`**, for any timers, tasks, delays and waits, and whatever the
uninitialised `_stop` holds:

* `TimerTypes`, `NoneAfterDestroy`: `TypeOK` and `NoTaskAfterDestroy`.
* `NothingThrows`: `NeverThrows`, from `StopsLast`: once the thread is stopped all timers are
  gone, or no task was ever added.
* `LateByOneWait`: `NeverLate`. It is not inductive, because tasks come nearer while the worker
  waits. `OnTime` speaks of the difference between when a task is due and how long the wait
  still lasts, which does not change while time passes; a wait begins with the earliest task,
  so the difference is not negative, and a task added later finds a wait no longer than the
  longest delay (`SleepBounded`, `NotEarly`).

**`Mixer3DProofs`**, for every block size and all sequences of chunks of up to a block:

* The lemmas `WriteAppends` and `ReadRemoves` say what `write` and `read` do to the contents of a
  circular buffer of any capacity, wherever its indices are. They rest on four facts
  about going on by some places around the end of the storage (`OnInside`, `OnAndOn`,
  `HeldPlaces`, `FreePlaces`) and on `Sound`: the end index is `size` places on from the
  begin index.
* `MixerInvariant`: both buffers are sound, less than a block is left in the first, and when
  the callback has returned no more than a block in the second (`RestsAreSmall`).
* `MixerTypes`, `AlwaysRoom`, `MixerIsFifo`: `TypeOK`, `RoomForNext` and the refinement of
  `BoundedFifo`.
* `NoSampleLost`: `NothingLost`. Appending the next `n` numbers to the latest ones gives the
  latest ones again, whatever they are counted modulo (`LatestGrows`, `AddMod`).

**`AudioMixerProofs`**, for any participants, energies, limits and length of the tail:

* `GetMixerAudio` is followed in the order of its loops: asking (`AskedTyped`,
  `FramesAskedCount`), sorting (`ByEnergySorts`: the sorted list is a permutation of the list
  by falling energy), and the loop over the sorted list (`WeightedTyped`, `LouderIsPicked`).
* `MixerInvariant`: the types, all frames back in the pool, the halvings of a weight and
  the rest of its tail add up to no more than the tail (`Fades`), and the participants remember who was
  heard and how loud (`Remembered`). From it follow `MixerTypes`, `PoolComplete`, `FramesForAll`,
  `LoudestFirst` (`LoudestHeard`) and, with the next step, `FadedNotCut` (`NobodyCutOff`).
* The provers cannot instantiate an induction theorem that takes a predicate. The loops and the
  sort need induction over the places of a list, so `IntervalInduction` states it
  with a set in the place of the predicate, and `RecursionExists` that a function
  defined by recursion over an interval exists; both follow from the well-foundedness of the natural numbers.

All theorems assume the named assumptions on the constants and, where it says so above, what
the clients ask for, `MaxBroken = 0` or `Prompt`: in
`RoomServer`, `NoUid` is no user id, `MaxToken`, `MaxReads` and `MaxBroken` are natural numbers,
and `Requests` are known ones; in `LoginClient`, the bounds are natural numbers and there is a call; in
`TimerThread`, delays are at least `Slack`, which is positive;
in `Mixer3D`, a block has a sample; in `AudioMixer`, there are finitely many participants,
energies and limits are natural numbers, among them the 0 and the 3 the code starts with, and
the tail has a frame.

Only model-checked: the liveness properties (`EventuallyAdmitted`, `RetriesEnd`, `LogoutPrevails`,
`LoginAnswered`, `TasksRun`, `JoinReturns`, `SoundFlows`). They hold under fairness, which is out of
the prover's reach, and stay with TLC. So do the properties expected to be violated, whose
counterexamples TLC finds.

## 6. Not modelled

* Several rooms in one server: rooms share the room map (under one mutex), threads and
  the token counter. The race on the counter is planned.
* What a dead connection leaves behind: when the error of a connection is handled before
  its login, the login still puts it in the room, and nothing removes it until a write
  fails. The model contains this behaviour; no document says what should happen.
* Refused duplicates get no answer (`VerifyAccount` ignores the result of `JoinRoom`), in
  the model the connection is "ignored". `user_service.proto:27` speaks of the old user
  being kicked instead.
* Packets cut by TCP (`ProtoPacket::Parse`), the stop of an `AsyncTask` while its task runs,
  and the silent voice filter: next in the plan.
* Lifetimes of heap objects: the members of `UserService` that its timer still uses while it
  is destroyed, the buffer and the socket object under a pending write (see "hazards").
* Audio processing, codecs, devices, files: signal processing and operating-system
  interfaces, see the components in `PROJECT.json`.

----------------------------- MODULE LoginClient -----------------------------
(***************************************************************************)
(* The login of one client: UserManager, a state machine that is driven    *)
(* from the user's thread (Login, Logout), from the timer thread (connect  *)
(* timer, expiry of requests) and from the service's task thread (results  *)
(* of connects, answers, errors), on top of UserService, which replaces    *)
(* sockets and matches answers with the requests that wait for them.       *)
(*                                                                         *)
(* UserManager::Transform holds a mutex and is one step, with everything   *)
(* it calls.  What Login, Logout and the connect timer read before they    *)
(* call it is read in a step of its own.                                   *)
(***************************************************************************)
EXTENDS Naturals, Sequences

CONSTANTS
    MaxTry,      \* MAX_TRY_LOGIN
    MaxCalls,    \* bound on the calls of Login and Logout
    MaxLate,     \* bound on the callbacks still due when the user calls or time runs out
    Drops,       \* bound on the open connections that fail
    Prompt       \* no thread is held up between a read outside the mutex and the
                 \* Transform that uses what it has read

ASSUME ClientAssumption ==
    /\ MaxTry \in Nat
    /\ MaxCalls \in Nat \ {0}
    /\ MaxLate \in Nat
    /\ Drops \in Nat
    /\ Prompt \in BOOLEAN

VARIABLES
    c,      \* the fields of UserManager and UserService
    tasks,  \* UserService::_task: what its thread still has to run, in order
    api,    \* the user's thread: where it is, and the state it has read
    fired,  \* the connect timer has found its state unchanged and will now act
    calls,  \* calls made by the user
    drops   \* open connections that failed

vars == <<c, tasks, api, fired, calls, drops>>

LoginState == {"NONE", "INIT", "CONNECTING", "CONNECTED", "VERIFY", "LOGINED", "LOGOUT"}
Temporary == {"CONNECTING", "VERIFY", "LOGOUT"}
Goals == {"NONE", "LOGINED"}
Requests == {"login", "logout"}
Callbacks == {"connectOk", "error", "loginOk", "loginRejected", "loginTimeout",
              "logoutDone", "logoutTimeout"}

\* sock is _tcp_socket: it has one operation pending, the connect or a read, while
\* it is "connecting" or "open".  aborted counts the operations of sockets that
\* were destroyed and the failed writes, whose handlers still have to run;
\* timer says that the state is the one the newest connect timer has noted;
\* session is what the server has made of this connection; said is the last
\* report to the user since the last call.
ClientFields ==
    [cur : LoginState, want : Goals, target : Goals, tries : 0 .. MaxTry + 1,
     failed : BOOLEAN, timer : BOOLEAN,
     sock : {"none", "connecting", "open", "closed"}, aborted : Nat,
     waiting : [Requests -> Nat],
     session : {"none", "admitted", "known"},
     said : {"nothing", "success", "failure", "logout"}]

TypeOK ==
    /\ c \in ClientFields
    /\ tasks \in Seq(Callbacks)
    /\ api \in [at : {"idle", "transform", "reset"}, call : {"Login", "Logout"}, read : LoginState]
    /\ fired \in BOOLEAN
    /\ calls \in 0 .. MaxCalls
    /\ drops \in 0 .. Drops

Init ==
    /\ c = [cur |-> "NONE", want |-> "NONE", target |-> "NONE", tries |-> 0,
            failed |-> FALSE, timer |-> FALSE, sock |-> "none", aborted |-> 0,
            waiting |-> [r \in Requests |-> 0],
            session |-> "none", said |-> "nothing"]
    /\ tasks = <<>>
    /\ api = [at |-> "idle", call |-> "Logout", read |-> "NONE"]
    /\ fired = FALSE
    /\ calls = 0
    /\ drops = 0

-----------------------------------------------------------------------------
(* UserService *)

\* The socket is destroyed: its pending operation is aborted.
SocketGone(d) ==
    [d EXCEPT !.sock = "none", !.session = "none",
              !.aborted = IF d.sock \in {"connecting", "open"} THEN @ + 1 ELSE @]

NoRequests(d) == [d EXCEPT !.waiting = [r \in Requests |-> 0]]

OpenSocket(d) == [NoRequests(SocketGone(d)) EXCEPT !.sock = "connecting"]

DisconnectServer(d) == IF d.sock = "none" THEN d ELSE NoRequests(SocketGone(d))

\* A request waits for its answer also when there is no socket to write it to;
\* a write to a socket that is not connected ends in an error.
SendPacket(d, r) ==
    [d EXCEPT !.waiting[r] = @ + 1,
              !.aborted = IF d.sock \in {"connecting", "closed"} THEN @ + 1 ELSE @]

-----------------------------------------------------------------------------
(* UserManager::Transform *)

\* Mutant: a login that has failed is not reported.
Report_SuccessOnly(d, s) ==
    CASE d.want = "LOGINED" /\ s = "LOGINED" -> [d EXCEPT !.said = "success"]
      [] d.want = "NONE" /\ s = "NONE" -> [d EXCEPT !.said = "logout"]
      [] OTHER -> d

\* MasterControl::UpdateLoginState: success and failure of a login are one
\* callback, the error code tells them apart.
Report(d, s) ==
    CASE d.want = "LOGINED" /\ s \in {"LOGINED", "NONE"} ->
             [d EXCEPT !.said = IF d.failed THEN "failure" ELSE "success"]
      [] d.want = "NONE" /\ s = "NONE" -> [d EXCEPT !.said = "logout"]
      [] OTHER -> d

Update(d, s) ==
    IF d.cur = s THEN d ELSE Report([d EXCEPT !.cur = s, !.timer = FALSE], s)

\* Mutant: the connect timer is forgotten.
ConnectServer_NoTimer(d) == Update(OpenSocket(d), "CONNECTING")

ConnectServer(d) == [Update(OpenSocket(d), "CONNECTING") EXCEPT !.timer = TRUE]

VerifyAccount(d) == Update(SendPacket(d, "login"), "VERIFY")

DoLogout(d) == Update(SendPacket(d, "logout"), "LOGOUT")

ToInit(d) ==
    IF d.target = "LOGINED" THEN ConnectServer(Update(d, "INIT"))
                            ELSE Update(Update(d, "INIT"), "NONE")

ToNone(d) ==
    IF d.target = "LOGINED" THEN ConnectServer(Update(d, "NONE")) ELSE Update(d, "NONE")

ToConnected(d) ==
    LET e == Update(d, "CONNECTED")
    IN  IF d.target = "LOGINED" THEN VerifyAccount(e) ELSE ToInit(DisconnectServer(e))

\* Mutant: a login that succeeds after a logout stays.
ToLogined_Stays(d) == Update(d, "LOGINED")

ToLogined(d) ==
    LET e == Update(d, "LOGINED")
    IN  IF d.target = "NONE" THEN DoLogout(e) ELSE e

Transform(d, s) ==
    CASE s = "INIT" -> ToInit(d)
      [] s = "NONE" -> ToNone(d)
      [] s = "CONNECTED" -> ToConnected(d)
      [] s = "LOGINED" -> ToLogined(d)
      [] OTHER -> Update(d, s)

\* The user and the timers take seconds, what is due runs at once: at most a few
\* callbacks are still on their way when one of them acts.
FewLate == Len(tasks) + c.aborted <= MaxLate

-----------------------------------------------------------------------------
(* The user's thread *)

\* The wanted state is set and the current state is read outside the mutex.
Call(name, goal) ==
    /\ FewLate
    /\ api.at = "idle"
    /\ calls < MaxCalls
    /\ c' = [c EXCEPT !.want = goal, !.target = goal, !.said = "nothing"]
    /\ api' = [at |-> "transform", call |-> name,
               read |-> IF name = "Login" /\ c.cur = "NONE" THEN "INIT" ELSE c.cur]
    /\ calls' = calls + 1
    /\ UNCHANGED <<tasks, fired, drops>>

Login == Call("Login", "LOGINED")
Logout == Call("Logout", "NONE")

\* The state is the one read before, whatever happened in between.
CallTransforms ==
    /\ api.at = "transform"
    /\ c' = Transform(c, api.read)
    /\ api' = [api EXCEPT !.at = IF api.call = "Login" THEN "reset" ELSE "idle"]
    /\ UNCHANGED <<tasks, fired, calls, drops>>

LoginResetsTries ==
    /\ api.at = "reset"
    /\ c' = [c EXCEPT !.tries = 0]
    /\ api' = [api EXCEPT !.at = "idle"]
    /\ UNCHANGED <<tasks, fired, calls, drops>>

-----------------------------------------------------------------------------
(* The timer thread *)

TimerCheck ==
    /\ FewLate
    /\ c.timer /\ ~fired
    /\ fired' = TRUE
    /\ c' = [c EXCEPT !.timer = FALSE]
    /\ UNCHANGED <<tasks, api, calls, drops>>

ConnectTimeout ==
    /\ fired
    /\ fired' = FALSE
    /\ c' = Transform(c, "INIT")
    /\ UNCHANGED <<tasks, api, calls, drops>>

\* TimerLoop takes an overdue request from the list and posts its callback.
Expire(r) ==
    /\ FewLate
    /\ c.waiting[r] > 0
    /\ c' = [c EXCEPT !.waiting[r] = @ - 1]
    /\ tasks' = Append(tasks, IF r = "login" THEN "loginTimeout" ELSE "logoutTimeout")
    /\ UNCHANGED <<api, fired, calls, drops>>

-----------------------------------------------------------------------------
(* The io thread and the server *)

Connected ==
    /\ c.sock = "connecting"
    /\ c' = [c EXCEPT !.sock = "open"]
    /\ tasks' = Append(tasks, "connectOk")
    /\ UNCHANGED <<api, fired, calls, drops>>

ConnectFails ==
    /\ c.sock = "connecting"
    /\ c' = [c EXCEPT !.sock = "closed"]
    /\ tasks' = Append(tasks, "error")
    /\ UNCHANGED <<api, fired, calls, drops>>

\* The peer or the network ends the connection: the pending read fails, and the
\* write of a request may fail too.
ConnectionFails ==
    /\ c.sock = "open" /\ drops < Drops
    /\ \E failedWrites \in {0, 1} :
          /\ failedWrites = 1 => \E r \in Requests : c.waiting[r] > 0
          /\ c' = [c EXCEPT !.sock = "closed", !.session = "none",
                            !.aborted = @ + 1 + failedWrites]
    /\ drops' = drops + 1
    /\ UNCHANGED <<tasks, api, fired, calls>>

AbortedOperation ==
    /\ c.aborted > 0
    /\ c' = [c EXCEPT !.aborted = @ - 1]
    /\ tasks' = Append(tasks, "error")
    /\ UNCHANGED <<api, fired, calls, drops>>

\* Mutant: an answer is taken without looking for the request.
LoginAnswer_NotWaited(result) ==
    /\ c.sock = "open"
    /\ c' = [c EXCEPT !.waiting["login"] = @ - 1]
    /\ tasks' = Append(tasks, result)
    /\ UNCHANGED <<api, fired, calls, drops>>

\* The server answers: the request leaves the list, its callback is posted.
LoginAnswer(result) ==
    /\ c.sock = "open" /\ c.waiting["login"] > 0
    /\ c' = [c EXCEPT !.waiting["login"] = @ - 1,
                      !.session = IF result = "loginOk" /\ @ = "none" THEN "admitted" ELSE @]
    /\ tasks' = Append(tasks, result)
    /\ UNCHANGED <<api, fired, calls, drops>>

LogoutAnswer ==
    /\ c.sock = "open" /\ c.waiting["logout"] > 0
    /\ c' = [c EXCEPT !.waiting["logout"] = @ - 1, !.session = "none"]
    /\ tasks' = Append(tasks, "logoutDone")
    /\ UNCHANGED <<api, fired, calls, drops>>

-----------------------------------------------------------------------------
(* The service's task thread *)

\* ++_try_login_count > MAX_TRY_LOGIN, saturated above the limit
CountTry(d) == [d EXCEPT !.tries = IF @ > MaxTry THEN @ ELSE @ + 1]

GiveUp(d) == Transform([d EXCEPT !.target = "NONE", !.failed = TRUE], "NONE")

\* Mutant: an error is not counted as a try.
HandleError_NotCounted(d) == IF d.target = "NONE" THEN d ELSE Transform(d, "INIT")

HandleError(d) ==
    IF d.target = "NONE" THEN d
    ELSE LET e == CountTry(d)
         IN  IF e.tries > MaxTry THEN GiveUp(e) ELSE Transform(e, "INIT")

LoginTimedOut(d) ==
    LET e == CountTry([d EXCEPT !.failed = TRUE])
    IN  IF e.tries > MaxTry THEN GiveUp(e) ELSE Transform(e, "CONNECTED")

LoginSucceeds(d) ==
    Transform([d EXCEPT !.failed = FALSE,
                        !.session = IF @ = "admitted" THEN "known" ELSE @], "LOGINED")

RunCallback(d, t) ==
    CASE t = "connectOk" -> Transform(d, "CONNECTED")
      [] t = "error" -> HandleError(d)
      [] t = "loginOk" -> LoginSucceeds(d)
      [] t = "loginRejected" -> GiveUp(d)
      [] t = "loginTimeout" -> LoginTimedOut(d)
      [] t = "logoutDone" -> Transform([d EXCEPT !.failed = FALSE], "CONNECTED")
      [] t = "logoutTimeout" -> Transform(d, "CONNECTED")

RunTask ==
    /\ tasks # <<>>
    /\ c' = RunCallback(c, Head(tasks))
    /\ tasks' = Tail(tasks)
    /\ UNCHANGED <<api, fired, calls, drops>>

\* Mutant: the internal target is left as it was.
Kicked_KeepsTarget ==
    /\ c.session = "known" /\ c.sock = "open"
    /\ c' = DisconnectServer([c EXCEPT !.want = "NONE", !.cur = "NONE"])
    /\ UNCHANGED <<tasks, api, fired, calls, drops>>

\* A kick of the own token ends the session without a report.
Kicked ==
    /\ c.session = "known" /\ c.sock = "open"
    /\ c' = DisconnectServer([c EXCEPT !.want = "NONE", !.target = "NONE", !.cur = "NONE"])
    /\ UNCHANGED <<tasks, api, fired, calls, drops>>

-----------------------------------------------------------------------------
HeldUp == api.at = "transform" \/ fired

OtherSteps ==
    \/ Login
    \/ Logout
    \/ LoginResetsTries
    \/ TimerCheck
    \/ \E r \in Requests : Expire(r)
    \/ Connected
    \/ ConnectFails
    \/ ConnectionFails
    \/ AbortedOperation
    \/ \E result \in {"loginOk", "loginRejected"} : LoginAnswer(result)
    \/ LogoutAnswer
    \/ RunTask
    \/ Kicked

Next ==
    \/ CallTransforms
    \/ ConnectTimeout
    \/ (Prompt => ~HeldUp) /\ OtherSteps

\* Threads go on, timers fire, and the operating system ends every operation of
\* a socket sooner or later.  The user, the server and failures owe nothing.
Fairness ==
    /\ WF_vars(CallTransforms)
    /\ WF_vars(LoginResetsTries)
    /\ WF_vars(TimerCheck)
    /\ WF_vars(ConnectTimeout)
    /\ \A r \in Requests : WF_vars(Expire(r))
    /\ WF_vars(Connected \/ ConnectFails)
    /\ WF_vars(AbortedOperation)
    /\ WF_vars(RunTask)

Spec == Init /\ [][Next]_vars

FairSpec == Spec /\ Fairness

-----------------------------------------------------------------------------
(* Properties *)

Pending(S) == \E i \in DOMAIN tasks : tasks[i] \in S

\* user_manager.h says that every temporary state has a timer: a client that is
\* connecting has a connect timer that will act, and one that waits for an
\* answer has a request that can be answered or expire, or the callback of it.
TemporaryStateHasTimer ==
    /\ c.cur = "CONNECTING" => c.timer \/ fired
    /\ c.cur = "VERIFY" =>
          c.waiting["login"] > 0 \/ Pending({"loginOk", "loginRejected", "loginTimeout"})
    /\ c.cur = "LOGOUT" =>
          c.waiting["logout"] > 0 \/ Pending({"logoutDone", "logoutTimeout"})

\* A client at NONE wants nothing more: it never waits there for a login that
\* nobody will start, although goal and state are written by different threads.
NothingWantedAtRest ==
    c.cur = "NONE" /\ api.at # "transform" => c.target = "NONE"

\* What the timers of the temporary states are for: each of them is left again.
TemporaryStatesEnd == \A s \in Temporary : c.cur = s ~> c.cur # s

\* The retries end: however connects, errors of replaced sockets, time-outs and
\* answers interleave, the client stops reconnecting, logged in or out.
RetriesEnd == <>[](c.cur \in Goals)

\* The last word of the user, or of a kick, being to log out, the client ends
\* logged out, also when that word came in the middle of a login.
LogoutPrevails == <>[](c.want = "NONE") => <>[](c.cur = "NONE")

\* A call of Login on a client that is not logged in is answered by a report.
LoginAnswered ==
    api.at = "transform" /\ api.call = "Login" /\ api.read # "LOGINED"
        ~> c.said # "nothing" \/ c.want = "NONE"
=============================================================================

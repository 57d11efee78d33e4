--------------------------- MODULE LoginClientProofs ---------------------------
(***************************************************************************)
(* Proofs about the login of a client, for any number of tries, of calls   *)
(* of the user, of late callbacks and of connections that fail.            *)
(*                                                                         *)
(* Everything rests on what one Transform leaves behind (Settled): whether *)
(* the state it ends in is temporary, and then waited out by something, or *)
(* at rest, and then wanted.  The rest of the argument is about what may   *)
(* happen between two Transforms, and about the one Transform that does    *)
(* not settle anything: that of a call whose state is a temporary one.     *)
(***************************************************************************)
EXTENDS LoginClient, TLAPS

\* The states to which callbacks and timers transform.
Settling == {"INIT", "NONE", "CONNECTED", "LOGINED"}

\* What Transform leaves behind when it comes from one of them.
Settled(d) ==
    /\ d.cur = "CONNECTING" => d.timer
    /\ d.cur = "VERIFY" => d.waiting["login"] > 0
    /\ d.cur = "LOGOUT" => d.waiting["logout"] > 0
    /\ d.cur = "NONE" => d.target = "NONE"

\* What a call has read is still so when it transforms, if no thread is held up:
\* neither the callbacks nor the connect timer have come between.
ReadIsFresh ==
    api.at = "transform" =>
        /\ api.read = c.cur \/ (api.read = "INIT" /\ c.cur = "NONE")
        /\ ~fired

ClientInv == TypeOK /\ TemporaryStateHasTimer /\ ReadIsFresh

USE ClientAssumption DEF vars

-----------------------------------------------------------------------------
(* UserService *)

LEMMA NoRequestsTyped ==
  ASSUME NEW d \in ClientFields
  PROVE  /\ NoRequests(d) \in ClientFields
         /\ NoRequests(d).target = d.target
BY DEF NoRequests, ClientFields

LEMMA SocketGoneTyped ==
  ASSUME NEW d \in ClientFields
  PROVE  /\ SocketGone(d) \in ClientFields
         /\ SocketGone(d).target = d.target
<1>1. d.aborted + 1 \in Nat /\ d.aborted \in Nat BY DEF ClientFields
<1>2. CASE d.sock \in {"connecting", "open"} BY <1>1, <1>2 DEF SocketGone, ClientFields
<1>3. CASE d.sock \notin {"connecting", "open"} BY <1>1, <1>3 DEF SocketGone, ClientFields
<1> QED BY <1>2, <1>3

LEMMA OpenSocketTyped ==
  ASSUME NEW d \in ClientFields
  PROVE  /\ OpenSocket(d) \in ClientFields
         /\ OpenSocket(d).target = d.target
<1> DEFINE e == NoRequests(SocketGone(d))
<1>1. e \in ClientFields /\ e.target = d.target BY NoRequestsTyped, SocketGoneTyped
<1> HIDE DEF e
<1>2. OpenSocket(d) = [e EXCEPT !.sock = "connecting"] BY DEF OpenSocket, e
<1> QED BY <1>1, <1>2 DEF ClientFields

LEMMA DisconnectServerTyped ==
  ASSUME NEW d \in ClientFields
  PROVE  /\ DisconnectServer(d) \in ClientFields
         /\ DisconnectServer(d).target = d.target
BY NoRequestsTyped, SocketGoneTyped DEF DisconnectServer

LEMMA SendPacketTyped ==
  ASSUME NEW d \in ClientFields, NEW r \in Requests
  PROVE  /\ SendPacket(d, r) \in ClientFields
         /\ SendPacket(d, r).target = d.target
         /\ SendPacket(d, r).waiting[r] > 0
<1> DEFINE w == [d.waiting EXCEPT ![r] = @ + 1]
           a == IF d.sock \in {"connecting", "closed"} THEN d.aborted + 1 ELSE d.aborted
<1>1. w \in [Requests -> Nat] /\ w[r] > 0 /\ a \in Nat BY DEF ClientFields
<1>2. SendPacket(d, r) = [d EXCEPT !.waiting = w, !.aborted = a]
  BY DEF SendPacket, ClientFields
<1> HIDE DEF w, a
<1> QED BY <1>1, <1>2 DEF ClientFields

-----------------------------------------------------------------------------
(* UserManager::Transform *)

LEMMA ReportTyped ==
  ASSUME NEW d \in ClientFields, NEW s \in LoginState
  PROVE  /\ Report(d, s) \in ClientFields
         /\ Report(d, s).cur = d.cur
         /\ Report(d, s).target = d.target
         /\ Report(d, s).timer = d.timer
         /\ Report(d, s).waiting = d.waiting
BY DEF Report, ClientFields

LEMMA UpdateTyped ==
  ASSUME NEW d \in ClientFields, NEW s \in LoginState
  PROVE  /\ Update(d, s) \in ClientFields
         /\ Update(d, s).cur = s
         /\ Update(d, s).target = d.target
         /\ Update(d, s).waiting = d.waiting
<1> DEFINE e == [d EXCEPT !.cur = s, !.timer = FALSE]
<1>1. /\ e \in ClientFields
      /\ e.cur = s /\ e.target = d.target /\ e.waiting = d.waiting
  BY DEF ClientFields
<1> HIDE DEF e
<1>2. Update(d, s) = IF d.cur = s THEN d ELSE Report(e, s) BY DEF Update, e
<1> QED BY <1>1, <1>2, ReportTyped

LEMMA ConnectServerSettles ==
  ASSUME NEW d \in ClientFields
  PROVE  /\ ConnectServer(d) \in ClientFields
         /\ ConnectServer(d).target = d.target
         /\ Settled(ConnectServer(d))
<1> DEFINE e == Update(OpenSocket(d), "CONNECTING")
<1>1. e \in ClientFields /\ e.cur = "CONNECTING" /\ e.target = d.target
  BY OpenSocketTyped, UpdateTyped DEF LoginState
<1> HIDE DEF e
<1>2. ConnectServer(d) = [e EXCEPT !.timer = TRUE] BY DEF ConnectServer, e
<1> QED BY <1>1, <1>2 DEF ClientFields, Settled

LEMMA VerifyAccountSettles ==
  ASSUME NEW d \in ClientFields
  PROVE  /\ VerifyAccount(d) \in ClientFields
         /\ VerifyAccount(d).target = d.target
         /\ Settled(VerifyAccount(d))
<1>1. "VERIFY" \in LoginState /\ "login" \in Requests BY DEF LoginState, Requests
<1> QED BY <1>1, SendPacketTyped, UpdateTyped DEF VerifyAccount, Settled

LEMMA DoLogoutSettles ==
  ASSUME NEW d \in ClientFields
  PROVE  /\ DoLogout(d) \in ClientFields
         /\ DoLogout(d).target = d.target
         /\ Settled(DoLogout(d))
<1>1. "LOGOUT" \in LoginState /\ "logout" \in Requests BY DEF LoginState, Requests
<1> QED BY <1>1, SendPacketTyped, UpdateTyped DEF DoLogout, Settled

LEMMA ToInitSettles ==
  ASSUME NEW d \in ClientFields
  PROVE  /\ ToInit(d) \in ClientFields
         /\ ToInit(d).target = d.target
         /\ Settled(ToInit(d))
<1>1. {"INIT", "NONE"} \subseteq LoginState BY DEF LoginState
<1>2. d.target \in {"NONE", "LOGINED"} BY DEF ClientFields, Goals
<1> QED BY <1>1, <1>2, UpdateTyped, ConnectServerSettles DEF ToInit, Settled

LEMMA ToNoneSettles ==
  ASSUME NEW d \in ClientFields
  PROVE  /\ ToNone(d) \in ClientFields
         /\ ToNone(d).target = d.target
         /\ Settled(ToNone(d))
<1>1. "NONE" \in LoginState BY DEF LoginState
<1>2. d.target \in {"NONE", "LOGINED"} BY DEF ClientFields, Goals
<1> QED BY <1>1, <1>2, UpdateTyped, ConnectServerSettles DEF ToNone, Settled

LEMMA ToConnectedSettles ==
  ASSUME NEW d \in ClientFields
  PROVE  /\ ToConnected(d) \in ClientFields
         /\ ToConnected(d).target = d.target
         /\ Settled(ToConnected(d))
<1>1. "CONNECTED" \in LoginState BY DEF LoginState
<1> QED BY <1>1, UpdateTyped, VerifyAccountSettles, DisconnectServerTyped, ToInitSettles
        DEF ToConnected

LEMMA ToLoginedSettles ==
  ASSUME NEW d \in ClientFields
  PROVE  /\ ToLogined(d) \in ClientFields
         /\ ToLogined(d).target = d.target
         /\ Settled(ToLogined(d))
<1>1. "LOGINED" \in LoginState BY DEF LoginState
<1> QED BY <1>1, UpdateTyped, DoLogoutSettles DEF ToLogined, Settled

\* A Transform to a state that is not temporary ends in a state that something
\* will end, or that is wanted, whatever state it starts from.
LEMMA TransformSettles ==
  ASSUME NEW d \in ClientFields, NEW s \in Settling
  PROVE  /\ Transform(d, s) \in ClientFields
         /\ Transform(d, s).target = d.target
         /\ Settled(Transform(d, s))
<1>1. CASE s = "INIT" BY <1>1, ToInitSettles DEF Transform
<1>2. CASE s = "NONE" BY <1>2, ToNoneSettles DEF Transform
<1>3. CASE s = "CONNECTED" BY <1>3, ToConnectedSettles DEF Transform
<1>4. CASE s = "LOGINED" BY <1>4, ToLoginedSettles DEF Transform
<1> QED BY <1>1, <1>2, <1>3, <1>4 DEF Settling

\* A Transform to a temporary state only sets it.
LEMMA TransformToTemporary ==
  ASSUME NEW d \in ClientFields, NEW s \in Temporary
  PROVE  Transform(d, s) = Update(d, s) /\ s \in LoginState
BY DEF Transform, Temporary, LoginState

LEMMA StatesSplit == LoginState = Settling \cup Temporary
BY DEF LoginState, Settling, Temporary

LEMMA TransformTyped ==
  ASSUME NEW d \in ClientFields, NEW s \in LoginState
  PROVE  Transform(d, s) \in ClientFields
BY StatesSplit, TransformSettles, TransformToTemporary, UpdateTyped

-----------------------------------------------------------------------------
(* The callbacks *)

LEMMA CountTryTyped ==
  ASSUME NEW d \in ClientFields
  PROVE  CountTry(d) \in ClientFields /\ CountTry(d).target = d.target
BY DEF CountTry, ClientFields

LEMMA GiveUpSettles ==
  ASSUME NEW d \in ClientFields
  PROVE  GiveUp(d) \in ClientFields /\ Settled(GiveUp(d))
<1> DEFINE e == [d EXCEPT !.target = "NONE", !.failed = TRUE]
<1>1. e \in ClientFields BY DEF ClientFields, Goals
<1> HIDE DEF e
<1>2. GiveUp(d) = Transform(e, "NONE") BY DEF GiveUp, e
<1> QED BY <1>1, <1>2, TransformSettles DEF Settling

\* Every callback settles the client, except an error that comes when no login is
\* wanted, which changes nothing.
LEMMA CallbackSettles ==
  ASSUME NEW d \in ClientFields, NEW t \in Callbacks
  PROVE  /\ RunCallback(d, t) \in ClientFields
         /\ \/ Settled(RunCallback(d, t))
            \/ t = "error" /\ RunCallback(d, t) = d
<1> USE DEF Settling
<1>1. CASE t = "connectOk" BY <1>1, TransformSettles DEF RunCallback
<1>2. CASE t = "error"
  <2>1. RunCallback(d, t) = HandleError(d) BY <1>2 DEF RunCallback
  <2>2. CASE d.target = "NONE" BY <1>2, <2>1, <2>2 DEF HandleError
  <2>3. CASE d.target # "NONE"
    BY <2>1, <2>3, CountTryTyped, GiveUpSettles, TransformSettles DEF HandleError
  <2> QED BY <2>2, <2>3
<1>3. CASE t = "loginOk"
  <2> DEFINE e == [d EXCEPT !.failed = FALSE,
                            !.session = IF @ = "admitted" THEN "known" ELSE @]
  <2>1. e \in ClientFields BY DEF ClientFields
  <2> HIDE DEF e
  <2>2. RunCallback(d, t) = Transform(e, "LOGINED") BY <1>3 DEF RunCallback, LoginSucceeds, e
  <2> QED BY <2>1, <2>2, TransformSettles
<1>4. CASE t = "loginRejected" BY <1>4, GiveUpSettles DEF RunCallback
<1>5. CASE t = "loginTimeout"
  <2> DEFINE b == [d EXCEPT !.failed = TRUE]
             e == CountTry(b)
  <2>1. b \in ClientFields BY DEF ClientFields
  <2> HIDE DEF b
  <2>2. e \in ClientFields BY <2>1, CountTryTyped
  <2> HIDE DEF e
  <2>3. RunCallback(d, t) = IF e.tries > MaxTry THEN GiveUp(e) ELSE Transform(e, "CONNECTED")
    BY <1>5 DEF RunCallback, LoginTimedOut, e, b
  <2> QED BY <2>2, <2>3, GiveUpSettles, TransformSettles
<1>6. CASE t = "logoutDone"
  <2> DEFINE e == [d EXCEPT !.failed = FALSE]
  <2>1. e \in ClientFields BY DEF ClientFields
  <2> HIDE DEF e
  <2>2. RunCallback(d, t) = Transform(e, "CONNECTED") BY <1>6 DEF RunCallback, e
  <2> QED BY <2>1, <2>2, TransformSettles
<1>7. CASE t = "logoutTimeout" BY <1>7, TransformSettles DEF RunCallback
<1> QED BY <1>1, <1>2, <1>3, <1>4, <1>5, <1>6, <1>7 DEF Callbacks

-----------------------------------------------------------------------------
(* The steps *)

LEMMA PendingAppended ==
  ASSUME tasks \in Seq(Callbacks), NEW t \in Callbacks, tasks' = Append(tasks, t), NEW S
  PROVE  Pending(S) \/ t \in S => Pending(S)'
<1>1. /\ \A i \in DOMAIN tasks : i \in DOMAIN tasks' /\ tasks'[i] = tasks[i]
      /\ Len(tasks) + 1 \in DOMAIN tasks' /\ tasks'[Len(tasks) + 1] = t
  OBVIOUS
<1> QED BY <1>1 DEF Pending

LEMMA PendingRun ==
  ASSUME tasks \in Seq(Callbacks), tasks # <<>>, tasks' = Tail(tasks), NEW S
  PROVE  Pending(S) => Head(tasks) \in S \/ Pending(S)'
<1> SUFFICES ASSUME Pending(S), Head(tasks) \notin S PROVE Pending(S)'
  OBVIOUS
<1>1. PICK i \in DOMAIN tasks : tasks[i] \in S BY DEF Pending
<1>2. i # 1 BY <1>1
<1>3. i - 1 \in DOMAIN tasks' /\ tasks'[i - 1] = tasks[i] BY <1>2
<1> QED BY <1>1, <1>3 DEF Pending

LEMMA PostedTyped ==
  ASSUME tasks \in Seq(Callbacks)
  PROVE  \A t \in {"connectOk", "error", "loginOk", "loginRejected", "loginTimeout",
                   "logoutDone", "logoutTimeout"} : Append(tasks, t) \in Seq(Callbacks)
<1>1. \A t \in Callbacks : Append(tasks, t) \in Seq(Callbacks) OBVIOUS
<1> QED BY <1>1 DEF Callbacks

\* What happens at the socket and to the requests leaves the states alone.
SocketStep ==
    \/ \E r \in Requests : Expire(r)
    \/ Connected
    \/ ConnectFails
    \/ ConnectionFails
    \/ AbortedOperation
    \/ \E result \in {"loginOk", "loginRejected"} : LoginAnswer(result)
    \/ LogoutAnswer

LEMMA SocketStepKeeps ==
  ASSUME TypeOK, SocketStep
  PROVE  /\ c' \in ClientFields
         /\ c'.cur = c.cur /\ c'.target = c.target /\ c'.timer = c.timer
         /\ tasks' \in Seq(Callbacks)
         /\ drops' \in 0 .. Drops
         /\ UNCHANGED <<api, fired, calls>>
<1> USE DEF TypeOK
<1>1. ASSUME NEW r \in Requests, Expire(r)
      PROVE  /\ c' \in ClientFields
             /\ c'.cur = c.cur /\ c'.target = c.target /\ c'.timer = c.timer
             /\ tasks' \in Seq(Callbacks)
  <2>1. [c.waiting EXCEPT ![r] = @ - 1] \in [Requests -> Nat]
    BY <1>1 DEF Expire, ClientFields
  <2> QED BY <1>1, <2>1, PostedTyped DEF Expire, ClientFields
<1>2. CASE Connected BY <1>2, PostedTyped DEF Connected, ClientFields
<1>3. CASE ConnectFails BY <1>3, PostedTyped DEF ConnectFails, ClientFields
<1>4. CASE ConnectionFails
  <2>1. PICK n \in {0, 1} : c' = [c EXCEPT !.sock = "closed", !.session = "none",
                                           !.aborted = @ + 1 + n]
    BY <1>4 DEF ConnectionFails
  <2>2. c.aborted + 1 + n \in Nat BY DEF ClientFields
  <2>3. drops' \in 0 .. Drops BY <1>4 DEF ConnectionFails
  <2> QED BY <1>4, <2>1, <2>2, <2>3 DEF ConnectionFails, ClientFields
<1>5. CASE AbortedOperation
  <2>1. c.aborted - 1 \in Nat BY <1>5 DEF AbortedOperation, ClientFields
  <2> QED BY <1>5, <2>1, PostedTyped DEF AbortedOperation, ClientFields
<1>6. ASSUME NEW result \in {"loginOk", "loginRejected"}, LoginAnswer(result)
      PROVE  /\ c' \in ClientFields
             /\ c'.cur = c.cur /\ c'.target = c.target /\ c'.timer = c.timer
             /\ tasks' \in Seq(Callbacks)
  <2> DEFINE w == [c.waiting EXCEPT !["login"] = @ - 1]
             s == IF result = "loginOk" /\ c.session = "none" THEN "admitted" ELSE c.session
  <2>1. w \in [Requests -> Nat] BY <1>6 DEF LoginAnswer, ClientFields, Requests
  <2>2. s \in {"none", "admitted", "known"} BY DEF ClientFields
  <2>3. c' = [c EXCEPT !.waiting = w, !.session = s]
    BY <1>6 DEF LoginAnswer, ClientFields
  <2> HIDE DEF w, s
  <2> QED BY <1>6, <2>1, <2>2, <2>3, PostedTyped DEF LoginAnswer, ClientFields
<1>7. CASE LogoutAnswer
  <2>1. [c.waiting EXCEPT !["logout"] = @ - 1] \in [Requests -> Nat]
    BY <1>7 DEF LogoutAnswer, ClientFields, Requests
  <2> QED BY <1>7, <2>1, PostedTyped DEF LogoutAnswer, ClientFields
<1>8. UNCHANGED <<api, fired, calls>> /\ drops' \in 0 .. Drops
  BY DEF SocketStep, Expire, Connected, ConnectFails, ConnectionFails, AbortedOperation,
         LoginAnswer, LogoutAnswer
<1> QED BY <1>1, <1>2, <1>3, <1>4, <1>5, <1>6, <1>7, <1>8 DEF SocketStep

LEMMA KickedKeeps ==
  ASSUME TypeOK, Kicked
  PROVE  /\ c' \in ClientFields
         /\ c'.cur = "NONE" /\ c'.target = "NONE"
         /\ UNCHANGED <<tasks, api, fired, calls, drops>>
<1> DEFINE e == [c EXCEPT !.want = "NONE", !.target = "NONE", !.cur = "NONE"]
<1>1. e \in ClientFields BY DEF TypeOK, ClientFields, Goals, LoginState
<1>2. e.sock # "none" /\ e.cur = "NONE" BY DEF TypeOK, Kicked, ClientFields
<1>3. e.target = "NONE" BY DEF TypeOK, ClientFields
<1> HIDE DEF e
<1>4. c' = DisconnectServer(e) BY DEF Kicked, e
<1>5. DisconnectServer(e).cur = e.cur
  BY <1>1, <1>2 DEF DisconnectServer, NoRequests, SocketGone, ClientFields
<1> QED BY <1>1, <1>2, <1>3, <1>4, <1>5, DisconnectServerTyped DEF Kicked

LEMMA CallTyped ==
  ASSUME TypeOK, NEW name \in {"Login", "Logout"}, NEW goal \in Goals, Call(name, goal)
  PROVE  TypeOK'
<1>1. c' \in ClientFields BY DEF TypeOK, Call, ClientFields
<1>2. c.cur \in LoginState /\ "INIT" \in LoginState BY DEF TypeOK, ClientFields, LoginState
<1>3. calls' \in 0 .. MaxCalls BY DEF TypeOK, Call
<1> QED BY <1>1, <1>2, <1>3 DEF TypeOK, Call

LEMMA TypeStep == TypeOK /\ [Next]_vars => TypeOK'
<1> SUFFICES ASSUME TypeOK, [Next]_vars PROVE TypeOK'
  OBVIOUS
<1> USE DEF TypeOK
<1>1. CASE CallTransforms BY <1>1, TransformTyped DEF CallTransforms
<1>2. CASE ConnectTimeout
  <2>1. "INIT" \in LoginState BY DEF LoginState
  <2> QED BY <1>2, <2>1, TransformTyped DEF ConnectTimeout
<1>3. CASE Login BY <1>3, CallTyped DEF Login, Goals
<1>4. CASE Logout BY <1>4, CallTyped DEF Logout, Goals
<1>5. CASE LoginResetsTries
  <2>1. 0 \in 0 .. MaxTry + 1 OBVIOUS
  <2>2. c' \in ClientFields BY <1>5, <2>1 DEF LoginResetsTries, ClientFields
  <2> QED BY <1>5, <2>2 DEF LoginResetsTries
<1>6. CASE TimerCheck BY <1>6 DEF TimerCheck, ClientFields
<1>7. CASE SocketStep BY <1>7, SocketStepKeeps
<1>8. CASE RunTask
  <2>1. Head(tasks) \in Callbacks /\ Tail(tasks) \in Seq(Callbacks) BY <1>8 DEF RunTask
  <2> QED BY <1>8, <2>1, CallbackSettles DEF RunTask
<1>9. CASE Kicked BY <1>9, KickedKeeps
<1>10. CASE UNCHANGED vars BY <1>10
<1> QED BY <1>1, <1>2, <1>3, <1>4, <1>5, <1>6, <1>7, <1>8, <1>9, <1>10
        DEF Next, OtherSteps, SocketStep

LEMMA InitTyped == Init => TypeOK
<1> SUFFICES ASSUME Init PROVE TypeOK
  OBVIOUS
<1>1. 0 \in 0 .. MaxTry + 1 OBVIOUS
<1>2. c \in ClientFields BY <1>1 DEF Init, ClientFields, LoginState, Goals
<1>3. tasks \in Seq(Callbacks) BY DEF Init
<1>4. calls \in 0 .. MaxCalls /\ drops \in 0 .. Drops BY DEF Init
<1>5. /\ api \in [at : {"idle", "transform", "reset"}, call : {"Login", "Logout"},
                  read : LoginState]
      /\ fired \in BOOLEAN
  BY DEF Init, LoginState
<1> QED BY <1>2, <1>3, <1>4, <1>5 DEF TypeOK

\* Every field keeps its type, whatever threads are held up: the tries are not
\* counted beyond the limit, and no request is taken off the list twice.
THEOREM ClientTypes == Spec => []TypeOK
BY InitTyped, TypeStep, PTL DEF Spec

-----------------------------------------------------------------------------

\* A client at rest wants nothing more, also when a call or the connect timer is
\* held up with a state that it has read long ago: a login is given up in the same
\* step in which the client comes to rest.
THEOREM AtRest == Spec => []NothingWantedAtRest
<1>1. Init => NothingWantedAtRest BY DEF Init, NothingWantedAtRest
<1>2. TypeOK /\ NothingWantedAtRest /\ [Next]_vars => NothingWantedAtRest'
  <2> SUFFICES ASSUME TypeOK, NothingWantedAtRest, [Next]_vars PROVE NothingWantedAtRest'
    OBVIOUS
  <2> USE DEF TypeOK, NothingWantedAtRest
  <2>1. CASE CallTransforms
    <3>1. CASE api.read \in Settling
      BY <2>1, <3>1, TransformSettles DEF CallTransforms, Settled
    <3>2. CASE api.read \in Temporary
      <4>1. c'.cur = api.read
        BY <2>1, <3>2, TransformToTemporary, UpdateTyped DEF CallTransforms
      <4> QED BY <3>2, <4>1 DEF Temporary
    <3> QED BY <3>1, <3>2, StatesSplit
  <2>2. CASE ConnectTimeout
    BY <2>2, TransformSettles DEF ConnectTimeout, Settled, Settling
  <2>3. CASE Login \/ Logout BY <2>3 DEF Login, Logout, Call
  <2>4. CASE LoginResetsTries BY <2>4 DEF LoginResetsTries, ClientFields
  <2>5. CASE TimerCheck BY <2>5 DEF TimerCheck, ClientFields
  <2>6. CASE SocketStep BY <2>6, SocketStepKeeps
  <2>7. CASE RunTask
    <3>1. Head(tasks) \in Callbacks BY <2>7 DEF RunTask
    <3> QED BY <2>7, <3>1, CallbackSettles DEF RunTask, Settled
  <2>8. CASE Kicked BY <2>8, KickedKeeps
  <2>9. CASE UNCHANGED vars BY <2>9
  <2> QED BY <2>1, <2>2, <2>3, <2>4, <2>5, <2>6, <2>7, <2>8, <2>9
          DEF Next, OtherSteps, SocketStep
<1> QED BY <1>1, <1>2, ClientTypes, PTL DEF Spec

-----------------------------------------------------------------------------

\* What waits for a temporary state to end stays until the state is left: a request
\* that is taken off the list leaves its callback behind.
LEMMA SocketStepWaits ==
  ASSUME TypeOK, TemporaryStateHasTimer, SocketStep
  PROVE  TemporaryStateHasTimer'
<1> DEFINE InTime == {"loginOk", "loginRejected", "loginTimeout"}
           Out == {"logoutDone", "logoutTimeout"}
           Waits(d, r, S) == d.waiting[r] > 0 \/ Pending(S)
<1>1. c'.cur = c.cur /\ c'.timer = c.timer /\ fired' = fired
  BY SocketStepKeeps
<1>2. tasks \in Seq(Callbacks) /\ c \in ClientFields BY DEF TypeOK
<1>3. ASSUME NEW t \in Callbacks, tasks' = Append(tasks, t), c'.waiting = c.waiting
      PROVE  TemporaryStateHasTimer'
  BY <1>1, <1>2, <1>3, PendingAppended DEF TemporaryStateHasTimer
<1>4. ASSUME NEW t \in Callbacks, tasks' = Append(tasks, t),
             c'.waiting = [c.waiting EXCEPT !["login"] = @ - 1], t \in InTime
      PROVE  TemporaryStateHasTimer'
  <2>1. c'.waiting["logout"] = c.waiting["logout"] BY <1>2, <1>4 DEF ClientFields, Requests
  <2>2. Pending(InTime)' BY <1>2, <1>4, PendingAppended
  <2>3. Pending(Out) => Pending(Out)' BY <1>2, <1>4, PendingAppended
  <2> QED BY <1>1, <2>1, <2>2, <2>3 DEF TemporaryStateHasTimer
<1>5. ASSUME NEW t \in Callbacks, tasks' = Append(tasks, t),
             c'.waiting = [c.waiting EXCEPT !["logout"] = @ - 1], t \in Out
      PROVE  TemporaryStateHasTimer'
  <2>1. c'.waiting["login"] = c.waiting["login"] BY <1>2, <1>5 DEF ClientFields, Requests
  <2>2. Pending(Out)' BY <1>2, <1>5, PendingAppended
  <2>3. Pending(InTime) => Pending(InTime)' BY <1>2, <1>5, PendingAppended
  <2> QED BY <1>1, <2>1, <2>2, <2>3 DEF TemporaryStateHasTimer
<1>6. InTime \subseteq Callbacks /\ Out \subseteq Callbacks /\ {"connectOk", "error"} \subseteq Callbacks
  BY DEF Callbacks
<1>7. ASSUME NEW r \in Requests, Expire(r) PROVE TemporaryStateHasTimer'
  <2>1. c'.waiting = [c.waiting EXCEPT ![r] = @ - 1] BY <1>2, <1>7 DEF Expire, ClientFields
  <2>2. CASE r = "login" BY <1>4, <1>6, <1>7, <2>1, <2>2 DEF Expire
  <2>3. CASE r = "logout" BY <1>5, <1>6, <1>7, <2>1, <2>3 DEF Expire
  <2> QED BY <2>2, <2>3 DEF Requests
<1>8. CASE Connected \/ ConnectFails \/ AbortedOperation
  BY <1>2, <1>3, <1>6, <1>8 DEF Connected, ConnectFails, AbortedOperation, ClientFields
<1>9. CASE ConnectionFails
  <2>1. c'.waiting = c.waiting /\ tasks' = tasks
    BY <1>2, <1>9 DEF ConnectionFails, ClientFields
  <2> QED BY <1>1, <2>1 DEF TemporaryStateHasTimer, Pending
<1>10. ASSUME NEW result \in {"loginOk", "loginRejected"}, LoginAnswer(result)
       PROVE  TemporaryStateHasTimer'
  <2>1. c'.waiting = [c.waiting EXCEPT !["login"] = @ - 1]
    BY <1>2, <1>10 DEF LoginAnswer, ClientFields
  <2> QED BY <1>4, <1>6, <1>10, <2>1 DEF LoginAnswer
<1>11. CASE LogoutAnswer
  <2>1. c'.waiting = [c.waiting EXCEPT !["logout"] = @ - 1]
    BY <1>2, <1>11 DEF LogoutAnswer, ClientFields
  <2> QED BY <1>5, <1>6, <1>11, <2>1 DEF LogoutAnswer
<1> QED BY <1>7, <1>8, <1>9, <1>10, <1>11 DEF SocketStep

LEMMA SettledHasTimer == Settled(c) => TemporaryStateHasTimer
BY DEF Settled, TemporaryStateHasTimer

LEMMA RunTaskWaits ==
  ASSUME TypeOK, TemporaryStateHasTimer, RunTask
  PROVE  TemporaryStateHasTimer'
<1>1. Head(tasks) \in Callbacks /\ tasks \in Seq(Callbacks) /\ c \in ClientFields
  BY DEF RunTask, TypeOK
<1>2. CASE Settled(c') BY <1>2 DEF Settled, TemporaryStateHasTimer
<1>3. CASE Head(tasks) = "error" /\ c' = c
  <2>1. \A S : Pending(S) => "error" \in S \/ Pending(S)'
    BY <1>1, <1>3, PendingRun DEF RunTask
  <2>2. /\ Pending({"loginOk", "loginRejected", "loginTimeout"})
            => Pending({"loginOk", "loginRejected", "loginTimeout"})'
        /\ Pending({"logoutDone", "logoutTimeout"})
            => Pending({"logoutDone", "logoutTimeout"})'
    BY <2>1
  <2>3. fired' = fired BY DEF RunTask
  <2> QED BY <1>3, <2>2, <2>3 DEF TemporaryStateHasTimer
<1> QED BY <1>1, <1>2, <1>3, CallbackSettles DEF RunTask

LEMMA TimerStep ==
  ASSUME Prompt, ClientInv, [Next]_vars
  PROVE  TemporaryStateHasTimer' /\ ReadIsFresh'
<1> USE DEF ClientInv
<1>1. c \in ClientFields BY DEF TypeOK
<1>2. CASE CallTransforms
  <2>1. ReadIsFresh' BY <1>2 DEF CallTransforms, ReadIsFresh, TypeOK
  <2>2. CASE api.read \in Settling
    <3>1. Settled(c') BY <1>1, <1>2, <2>2, TransformSettles DEF CallTransforms
    <3> QED BY <2>1, <3>1 DEF Settled, TemporaryStateHasTimer
  <2>3. CASE api.read \in Temporary
    <3>1. api.read = c.cur BY <1>2, <2>3 DEF CallTransforms, ReadIsFresh, Temporary
    <3>2. c' = c BY <1>1, <1>2, <2>3, <3>1, TransformToTemporary DEF CallTransforms, Update
    <3>3. UNCHANGED <<c, tasks, fired>> BY <1>2, <3>2 DEF CallTransforms
    <3> QED BY <2>1, <3>3 DEF TemporaryStateHasTimer, Pending
  <2> QED BY <2>1, <2>2, <2>3, StatesSplit DEF TypeOK
<1>3. CASE ConnectTimeout
  <2>1. Settled(c')
    BY <1>1, <1>3, TransformSettles DEF ConnectTimeout, Settling
  <2>2. ReadIsFresh' BY <1>3 DEF ConnectTimeout, ReadIsFresh
  <2> QED BY <2>1, <2>2 DEF Settled, TemporaryStateHasTimer
<1>4. ASSUME ~HeldUp, OtherSteps PROVE TemporaryStateHasTimer' /\ ReadIsFresh'
  <2>1. api.at # "transform" /\ ~fired BY <1>4 DEF HeldUp
  <2>2. CASE Login \/ Logout
    <3>1. /\ c'.cur = c.cur /\ c'.timer = c.timer /\ c'.waiting = c.waiting
          /\ UNCHANGED <<tasks, fired>>
      BY <1>1, <2>2 DEF Login, Logout, Call, ClientFields
    <3>2. ASSUME Login PROVE ReadIsFresh'
      <4>1. api'.read = IF c.cur = "NONE" THEN "INIT" ELSE c.cur BY <3>2 DEF Login, Call
      <4> QED BY <2>1, <3>1, <4>1 DEF ReadIsFresh
    <3>3. ASSUME Logout PROVE ReadIsFresh'
      <4>1. api'.read = c.cur BY <3>3 DEF Logout, Call
      <4> QED BY <2>1, <3>1, <4>1 DEF ReadIsFresh
    <3>4. ReadIsFresh' BY <2>2, <3>2, <3>3
    <3> QED BY <3>1, <3>4 DEF TemporaryStateHasTimer, Pending
  <2>3. CASE LoginResetsTries
    <3>1. /\ c'.cur = c.cur /\ c'.timer = c.timer /\ c'.waiting = c.waiting
          /\ UNCHANGED <<tasks, fired>> /\ api'.at # "transform"
      BY <1>1, <2>3 DEF LoginResetsTries, ClientFields, TypeOK
    <3> QED BY <3>1 DEF TemporaryStateHasTimer, Pending, ReadIsFresh
  <2>4. CASE TimerCheck
    <3>1. /\ c'.cur = c.cur /\ c'.waiting = c.waiting
          /\ UNCHANGED <<tasks, api>> /\ fired'
      BY <1>1, <2>4 DEF TimerCheck, ClientFields
    <3> QED BY <2>1, <3>1 DEF TemporaryStateHasTimer, Pending, ReadIsFresh
  <2>5. CASE SocketStep
    BY <2>1, <2>5, SocketStepKeeps, SocketStepWaits DEF ReadIsFresh
  <2>6. CASE RunTask BY <2>1, <2>6, RunTaskWaits DEF RunTask, ReadIsFresh
  <2>7. CASE Kicked
    BY <2>1, <2>7, KickedKeeps DEF TemporaryStateHasTimer, ReadIsFresh
  <2> QED BY <1>4, <2>2, <2>3, <2>4, <2>5, <2>6, <2>7 DEF OtherSteps, SocketStep
<1>5. CASE UNCHANGED vars BY <1>5 DEF TemporaryStateHasTimer, Pending, ReadIsFresh
<1> QED BY <1>2, <1>3, <1>4, <1>5 DEF Next

\* Every temporary state has a timer, as user_manager.h says, as long as no thread
\* is held up between reading the state and the Transform: then the state a call
\* has read is still the state it transforms.
THEOREM TimersWait == Prompt => (Spec => []TemporaryStateHasTimer)
<1> SUFFICES ASSUME Prompt PROVE Spec => []TemporaryStateHasTimer
  OBVIOUS
<1>1. Init => TemporaryStateHasTimer /\ ReadIsFresh
  BY DEF Init, TemporaryStateHasTimer, ReadIsFresh
<1>2. ClientInv /\ [Next]_vars => ClientInv'
  BY TypeStep, TimerStep DEF ClientInv
<1>3. Init => ClientInv
  <2>1. Init => TypeOK BY InitTyped
  <2> QED BY <1>1, <2>1 DEF ClientInv
<1>4. ClientInv => TemporaryStateHasTimer BY DEF ClientInv
<1> QED BY <1>2, <1>3, <1>4, PTL DEF Spec
=============================================================================

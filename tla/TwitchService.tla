--------------------------- MODULE TwitchService ---------------------------
(***************************************************************************)
(* A chat session from login to disconnect: TwitchService and the EventSub *)
(* object it owns (twitch_service.cpp, eventsub.cpp, chat/read.cpp,        *)
(* chat/send.cpp), the coroutines it spawns on the io_context's threads,   *)
(* the frames of the UI thread that drive it (manageAuth, manageChat and   *)
(* their view models) and the AppState queue between the two.              *)
(*                                                                         *)
(* A step is what a coroutine does between two suspensions, or one stage   *)
(* of a UI frame; connectToChat's test of m_state and its setState are two *)
(* steps, because another thread can come in between.  Nothing here is     *)
(* locked except the queue.                                                *)
(*                                                                         *)
(* The k-th call of connectToChat and the EventSub it creates are both     *)
(* called k.  m_chat_read and m_chat_send are created and reset together   *)
(* with m_eventsub, and no one else owns the object: EventSub e exists     *)
(* exactly while m_eventsub = e.  A coroutine that uses an object that is  *)
(* gone either crashes the process or carries on with the stale memory     *)
(* (Touch); one that goes through a null pointer crashes it.               *)
(***************************************************************************)
EXTENDS Integers, Sequences

CONSTANTS
    Accounts,     \* Twitch accounts the user can log in as
    NoAccount,    \* empty credentials, no current user
    SubTypes,     \* subscriptions connectToChat spawns and does not await
    MaxLogins, MaxConnects, MaxWire, MaxSends  \* bounds

ASSUME ServiceAssumption ==
    /\ NoAccount \notin Accounts
    /\ {MaxLogins, MaxConnects, MaxWire, MaxSends} \subseteq Nat

None == 0
Conns == 1..MaxConnects
States == {"Disconnected", "LoggingIn", "LoggedIn", "ConnectingToChat",
           "ChatConnected", "Error"}

VARIABLES
    m_state,        \* TwitchService::m_state
    m_eventsub,     \* the EventSub the service owns, or None
    m_config,       \* account whose credentials m_config holds
    m_current_user, \* account shown to the user
    ui, vm_state,   \* stage of the UI frame; AuthVM::state
    logins, logged, \* login coroutines in flight; logins started so far
    conn,           \* connectToChat calls: stage, EventSub awaited
    reader,         \* doRead coroutines: stage, EventSub, message in hand
    starter,        \* EventSub::start coroutines: stage, EventSub
    subs,           \* detached EventSub::subscribe coroutines: stage, EventSub
    obj,            \* the EventSubs and their websockets
    pending,        \* AppState::m_pending_messages
    chat_log,       \* AppState::chat_log
    sends, sent,    \* sendMessage coroutines not yet started; how many so far
    posted,         \* history: messages posted to Helix
    dangling,       \* history: coroutines that used a destroyed EventSub
    crashed,        \* the process is gone
    overtaken       \* history: m_state was changed under a connectToChat call

session == <<m_state, m_eventsub, m_config, m_current_user>>
frame == <<ui, vm_state>>
login == <<logins, logged>>
spawned == <<reader, starter, subs>>
feed == <<pending, chat_log>>
outbox == <<sends, sent, posted>>
fate == <<dangling, crashed>>
service == <<session, frame, login, conn, spawned, obj, feed, outbox, fate>>
vars == <<service, overtaken>>

Init ==
    /\ m_state = "Disconnected" /\ m_eventsub = None
    /\ m_config = NoAccount /\ m_current_user = NoAccount
    /\ ui = "sync" /\ vm_state = "Disconnected"
    /\ logins = 0 /\ logged = 0
    /\ conn = [i \in Conns |-> [pc |-> "unused", es |-> None]]
    /\ reader = [i \in Conns |-> [pc |-> "unused", es |-> None, msg |-> 0]]
    /\ starter = [i \in Conns |-> [pc |-> "unused", es |-> None]]
    /\ subs = [it \in Conns \X SubTypes |-> [pc |-> "unused", es |-> None]]
    /\ obj = [e \in Conns |->
                 [m_cfg |-> NoAccount, ws |-> "none", m_callback |-> FALSE,
                  subscribed |-> FALSE, wire |-> << >>, last |-> 0]]
    /\ pending = << >> /\ chat_log = << >>
    /\ sends = {} /\ sent = 0 /\ posted = {}
    /\ dangling = {} /\ crashed = FALSE /\ overtaken = FALSE

-----------------------------------------------------------------------------
\* A coroutine of the given kind uses EventSub e.
Touch(kind, e) ==
    /\ dangling' = IF m_eventsub = e THEN dangling ELSE dangling \cup {kind}
    /\ crashed' \in IF m_eventsub = e THEN {FALSE} ELSE BOOLEAN

\* A null pointer is dereferenced.
Crash ==
    /\ crashed' = TRUE
    /\ UNCHANGED <<session, frame, login, conn, spawned, obj, feed, outbox,
                   dangling>>

\* Faulty variant of LoginSucceeds: credentials are only filled in when empty.
LoginKeepsConfig(a) ==
    /\ logins > 0
    /\ logins' = logins - 1
    /\ m_current_user' = a
    /\ m_config' = IF m_config = NoAccount THEN a ELSE m_config
    /\ m_state' = "LoggedIn"
    /\ UNCHANGED <<m_eventsub, frame, logged, conn, spawned, obj, feed,
                   outbox, fate>>

(***************************************************************************)
(* The login coroutine of startLogin ends.  loginAsync and                 *)
(* fetchUserInfoAsync are one exchange here; what it yields is written to  *)
(* the user, the configuration and the state.                              *)
(***************************************************************************)
LoginSucceeds(a) ==
    /\ logins > 0
    /\ logins' = logins - 1
    /\ m_current_user' = a
    /\ m_config' = a
    /\ m_state' = "LoggedIn"
    /\ UNCHANGED <<m_eventsub, frame, logged, conn, spawned, obj, feed,
                   outbox, fate>>

LoginFails ==
    /\ logins > 0
    /\ logins' = logins - 1
    /\ m_state' = "Error"
    /\ UNCHANGED <<m_eventsub, m_config, m_current_user, frame, logged, conn,
                   spawned, obj, feed, outbox, fate>>

-----------------------------------------------------------------------------
(* connectToChat, call i.                                                  *)

ConnectCheck(i) ==
    /\ conn[i].pc = "ready"
    /\ conn' = [conn EXCEPT ![i].pc = IF m_state = "LoggedIn" THEN "checked"
                                      ELSE "done"]
    /\ UNCHANGED <<session, frame, login, spawned, obj, feed, outbox, fate>>

\* setState and setupChatServices: a new EventSub replaces the old one.
ConnectSetup(i) ==
    /\ conn[i].pc = "checked"
    /\ m_state' = "ConnectingToChat"
    /\ m_eventsub' = i
    /\ obj' = [obj EXCEPT ![i].m_cfg = m_config]
    /\ conn' = [conn EXCEPT ![i] = [pc |-> "connecting", es |-> i]]
    /\ UNCHANGED <<m_config, m_current_user, frame, login, spawned, feed,
                   outbox, fate>>

\* EventSub::connect has its session id; the read loop and start are spawned,
\* the latter on whatever m_eventsub is now; then 500 ms go by.
ConnectOpened(i) ==
    /\ conn[i].pc = "connecting"
    /\ Touch("connect", conn[i].es)
    /\ obj' = [obj EXCEPT ![conn[i].es].ws = "open"]
    /\ reader' = [reader EXCEPT ![i].pc = "ready"]
    /\ starter' = [starter EXCEPT ![i] = [pc |-> "ready", es |-> m_eventsub]]
    /\ conn' = [conn EXCEPT ![i].pc = "waiting"]
    /\ UNCHANGED <<session, frame, login, subs, feed, outbox>>

\* Faulty variant of ConnectWaited: no wait for the spawned coroutines.
ConnectDoesNotWait(i) ==
    /\ conn[i].pc = "waiting"
    /\ IF m_eventsub = None
       THEN Crash
       ELSE /\ conn' = [conn EXCEPT ![i] = [pc |-> "subscribing",
                                            es |-> m_eventsub]]
            /\ UNCHANGED <<session, frame, login, spawned, obj, feed, outbox,
                           fate>>

\* The wait is over: Read::requestSubscription on the current EventSub.  Half
\* a second is taken to be enough for the two coroutines spawned before it to
\* have had a thread; nothing else in the model waits for a coroutine to start.
ConnectWaited(i) ==
    /\ conn[i].pc = "waiting"
    /\ reader[i].pc # "ready" /\ starter[i].pc # "ready"
    /\ IF m_eventsub = None
       THEN Crash
       ELSE /\ conn' = [conn EXCEPT ![i] = [pc |-> "subscribing",
                                            es |-> m_eventsub]]
            /\ UNCHANGED <<session, frame, login, spawned, obj, feed, outbox,
                           fate>>

\* The subscription is answered and the 300 ms after it have passed.  The
\* other subscriptions are spawned and the session is declared connected.
ConnectSubscribed(i) ==
    /\ conn[i].pc = "subscribing"
    /\ obj[conn[i].es].subscribed
    /\ Touch("connect", conn[i].es)
    /\ subs' = [it \in Conns \X SubTypes |->
                  IF it[1] = i THEN [pc |-> "ready", es |-> m_eventsub]
                  ELSE subs[it]]
    /\ m_state' = "ChatConnected"
    /\ conn' = [conn EXCEPT ![i].pc = "done"]
    /\ UNCHANGED <<m_eventsub, m_config, m_current_user, frame, login, reader,
                   starter, obj, feed, outbox>>

\* Faulty variant of ConnectFails: the exception is logged and that is all.
ConnectFailsSilently(i) ==
    /\ conn[i].pc \in {"connecting", "subscribing"}
    /\ IF conn[i].pc = "connecting" THEN Touch("connect", conn[i].es)
       ELSE UNCHANGED fate
    /\ conn' = [conn EXCEPT ![i].pc = "done"]
    /\ UNCHANGED <<session, frame, login, spawned, obj, feed, outbox>>

\* connect or the first subscribe throws (the request can have been accepted).
\* A failed connect has used the object's stream, a failed subscribe has not.
ConnectFails(i) ==
    /\ conn[i].pc \in {"connecting", "subscribing"}
    /\ IF conn[i].pc = "connecting" THEN Touch("connect", conn[i].es)
       ELSE UNCHANGED fate
    /\ m_state' = "Error"
    /\ conn' = [conn EXCEPT ![i].pc = "done"]
    /\ UNCHANGED <<m_eventsub, m_config, m_current_user, frame, login,
                   spawned, obj, feed, outbox>>

-----------------------------------------------------------------------------
\* EventSub::start installs the callback.
StartReading(i) ==
    /\ starter[i].pc = "ready"
    /\ IF starter[i].es = None
       THEN Crash
       ELSE /\ Touch("start", starter[i].es)
            /\ obj' = [obj EXCEPT ![starter[i].es].m_callback = TRUE]
            /\ starter' = [starter EXCEPT ![i].pc = "done"]
            /\ UNCHANGED <<session, frame, login, conn, reader, subs, feed,
                           outbox>>

\* A detached EventSub::subscribe: the request is built from the object, and
\* the object is used again when the request has been accepted; a failure
\* ends the coroutine, whose exception `detached' drops.
SubscribeStep(it) ==
    /\ subs[it].pc \in {"ready", "posted"}
    /\ IF subs[it].es = None
       THEN Crash
       ELSE /\ \/ /\ Touch("subscribe", subs[it].es)
                  /\ subs' = [subs EXCEPT ![it].pc =
                                 IF @ = "ready" THEN "posted" ELSE "done"]
               \/ /\ subs[it].pc = "posted"
                  /\ subs' = [subs EXCEPT ![it].pc = "failed"]
                  /\ UNCHANGED fate
            /\ UNCHANGED <<session, frame, login, conn, reader, starter, obj,
                           feed, outbox>>

-----------------------------------------------------------------------------
(* EventSub::doRead, spawned by call i of connectToChat.                   *)

\* The loop goes on as long as the websocket is open.
NextRead(e) == IF obj[e].ws = "open" THEN "reading" ELSE "done"

ReadStart(i) ==
    /\ reader[i].pc = "ready"
    /\ IF m_eventsub = None
       THEN Crash
       ELSE /\ reader' = [reader EXCEPT ![i].pc = NextRead(m_eventsub),
                                        ![i].es = m_eventsub]
            /\ UNCHANGED <<session, frame, login, conn, starter, subs, obj,
                           feed, outbox, fate>>

\* async_read completes with a message, possibly just before the object goes.
ReadMessage(i) ==
    LET e == reader[i].es IN
    /\ reader[i].pc = "reading"
    /\ obj[e].wire # << >>
    /\ Touch("read", e)
    /\ obj' = [obj EXCEPT ![e].wire = Tail(@)]
    /\ reader' = IF obj[e].m_callback
                 THEN [reader EXCEPT ![i].pc = "handling",
                                     ![i].msg = Head(obj[e].wire)]
                 ELSE [reader EXCEPT ![i].pc = NextRead(e)]
    /\ UNCHANGED <<session, frame, login, conn, starter, subs, feed, outbox>>

\* async_read fails: closed by the server, or cancelled with the object.
ReadFails(i) ==
    /\ reader[i].pc = "reading"
    /\ \/ m_eventsub # reader[i].es
       \/ obj[reader[i].es].ws = "closed" /\ obj[reader[i].es].wire = << >>
    /\ reader' = [reader EXCEPT ![i].pc = "done"]
    /\ UNCHANGED <<session, frame, login, conn, starter, subs, obj, feed,
                   outbox, fate>>

\* TwitchService::sendMessage, in the name of a user and for the session on
\* EventSub e.  The coroutine is not told either of them.
sendMessage(user, e) ==
    IF m_state = "ChatConnected"
    THEN /\ sends' = sends \cup {[n |-> sent, user |-> user, for |-> e]}
         /\ sent' = sent + 1
         /\ UNCHANGED posted
    ELSE UNCHANGED outbox

pushChatMessage(msg) == pending' = Append(pending, msg)

\* handleEventSubMessage: a chat message goes to the queue, and a command in
\* it may reply; everything else (message 0) is ignored.
HandleMessage(i) ==
    /\ reader[i].pc = "handling"
    /\ IF reader[i].msg = 0
       THEN UNCHANGED <<pending, outbox>>
       ELSE /\ pushChatMessage(<<reader[i].es, reader[i].msg>>)
            /\ \/ UNCHANGED outbox
               \/ /\ sent < MaxSends
                  /\ sendMessage(obj[reader[i].es].m_cfg, reader[i].es)
    /\ reader' = [reader EXCEPT ![i].pc = "handled", ![i].msg = 0]
    /\ UNCHANGED <<session, frame, login, conn, starter, subs, obj, chat_log,
                   fate>>

ReadAgain(i) ==
    /\ reader[i].pc = "handled"
    /\ Touch("read", reader[i].es)
    /\ reader' = [reader EXCEPT ![i].pc = NextRead(reader[i].es)]
    /\ UNCHANGED <<session, frame, login, conn, starter, subs, obj, feed,
                   outbox>>

\* A request is posted or fails on the way; the answer's status is not looked
\* at.
httpsPostAsync(request) == posted' \in {posted, posted \cup {request}}

\* The coroutine of sendMessage: the request is built from m_chat_send's copy
\* of the configuration and from m_config.
SendStarts(m) ==
    /\ m \in sends
    /\ IF m_eventsub = None
       THEN Crash
       ELSE /\ sends' = sends \ {m}
            /\ httpsPostAsync([user |-> m.user, for |-> m.for,
                               channel |-> obj[m_eventsub].m_cfg,
                               sender |-> m_config, session |-> m_eventsub])
            /\ UNCHANGED <<session, frame, login, conn, spawned, obj, feed,
                           sent, fate>>

-----------------------------------------------------------------------------
(* Twitch: it accepts subscriptions, sends messages and closes sessions.   *)

ServerSubscribes(e) ==
    /\ \E i \in Conns : conn[i].pc = "subscribing" /\ conn[i].es = e
    /\ ~ obj[e].subscribed
    /\ obj' = [obj EXCEPT ![e].subscribed = TRUE]
    /\ UNCHANGED <<session, frame, login, conn, spawned, feed, outbox, fate>>

\* A chat message (numbered from 1 in each session) or something else (0).
ServerSends(e) ==
    /\ m_eventsub = e
    /\ obj[e].ws = "open"
    /\ Len(obj[e].wire) < MaxWire /\ obj[e].last < MaxWire
    /\ \/ obj' = [obj EXCEPT ![e].wire = Append(@, 0)]
       \/ /\ obj[e].subscribed
          /\ obj' = [obj EXCEPT ![e].wire = Append(@, obj[e].last + 1),
                                ![e].last = @ + 1]
    /\ UNCHANGED <<session, frame, login, conn, spawned, feed, outbox, fate>>

ServerCloses(e) ==
    /\ obj[e].ws = "open"
    /\ obj' = [obj EXCEPT ![e].ws = "closed"]
    /\ UNCHANGED <<session, frame, login, conn, spawned, feed, outbox, fate>>

-----------------------------------------------------------------------------
(* The UI thread: manageAuth and manageChat, once per frame.               *)

SyncFrom ==
    /\ ui = "sync"
    /\ vm_state' = m_state
    /\ ui' = "auth"
    /\ UNCHANGED <<session, login, conn, spawned, obj, feed, outbox, fate>>

NoClick ==
    /\ ui = "auth"
    /\ ui' = "chat"
    /\ UNCHANGED <<session, vm_state, login, conn, spawned, obj, feed, outbox,
                   fate>>

ClickLogin ==
    /\ ui = "auth" /\ vm_state = "Disconnected"
    /\ logged < MaxLogins
    /\ ui' = "chat"
    /\ IF m_state = "Disconnected"
       THEN /\ m_state' = "LoggingIn"
            /\ logins' = logins + 1
            /\ logged' = logged + 1
       ELSE UNCHANGED <<m_state, login>>
    /\ UNCHANGED <<m_eventsub, m_config, m_current_user, vm_state, conn,
                   spawned, obj, feed, outbox, fate>>

ClickConnect ==
    /\ ui = "auth" /\ vm_state = "LoggedIn"
    /\ ui' = "chat"
    /\ \E i \in Conns :
          /\ conn[i].pc = "unused"
          /\ \A j \in 1..(i - 1) : conn[j].pc # "unused"
          /\ conn' = [conn EXCEPT ![i].pc = "ready"]
    /\ UNCHANGED <<session, vm_state, login, spawned, obj, feed, outbox, fate>>

\* Faulty variant of ClickDisconnect: a connection attempt can be given up.
ClickCancel ==
    /\ ui = "auth" /\ vm_state \notin {"Disconnected", "LoggingIn"}
    /\ ui' = "resetting"
    /\ m_state' = "Disconnected"
    /\ UNCHANGED <<m_eventsub, m_config, m_current_user, vm_state, login,
                   conn, spawned, obj, feed, outbox, fate>>

\* Logout, Disconnect or Reset: disconnect() sets the state ...
ClickDisconnect ==
    /\ ui = "auth" /\ vm_state \in {"LoggedIn", "ChatConnected", "Error"}
    /\ ui' = "resetting"
    /\ m_state' = "Disconnected"
    /\ UNCHANGED <<m_eventsub, m_config, m_current_user, vm_state, login,
                   conn, spawned, obj, feed, outbox, fate>>

\* ... and then drops the chat services and the user.
DropServices ==
    /\ ui = "resetting"
    /\ ui' = "chat"
    /\ m_eventsub' = None
    /\ m_current_user' = NoAccount
    /\ UNCHANGED <<m_state, m_config, vm_state, login, conn, spawned, obj,
                   feed, outbox, fate>>

\* Faulty variants of processPendingMessages: what is shown stays queued; the
\* last message is left for the next time.
processPendingMessagesCopies ==
    chat_log' = chat_log \o pending /\ UNCHANGED pending
processPendingMessagesButOne ==
    IF pending = << >> THEN UNCHANGED feed
    ELSE /\ chat_log' = chat_log \o SubSeq(pending, 1, Len(pending) - 1)
         /\ pending' = <<pending[Len(pending)]>>

processPendingMessages ==
    chat_log' = chat_log \o pending /\ pending' = << >>

\* Faulty variant of ManageChat: Enter and the button both send.
ManageChatSendsTwice ==
    /\ ui = "chat"
    /\ ui' = "sync"
    /\ IF m_state = "ChatConnected"
       THEN /\ processPendingMessages
            /\ \/ UNCHANGED outbox
               \/ /\ sent < MaxSends
                  /\ sent' = sent + 2
                  /\ sends' = sends \cup {[n |-> k, user |-> m_current_user,
                        for |-> m_eventsub] : k \in sent..(sent + 1)}
                  /\ UNCHANGED posted
       ELSE UNCHANGED <<feed, outbox>>
    /\ UNCHANGED <<session, vm_state, login, conn, spawned, obj, fate>>

\* manageChat: processPendingMessages, and perhaps a message typed by the user.
ManageChat ==
    /\ ui = "chat"
    /\ ui' = "sync"
    /\ IF m_state = "ChatConnected"
       THEN /\ processPendingMessages
            /\ \/ UNCHANGED outbox
               \/ /\ sent < MaxSends
                  /\ sendMessage(m_current_user, m_eventsub)
       ELSE UNCHANGED <<feed, outbox>>
    /\ UNCHANGED <<session, vm_state, login, conn, spawned, obj, fate>>

-----------------------------------------------------------------------------
LoginEnds == LoginFails \/ \E a \in Accounts : LoginSucceeds(a)

Connect(i) ==
    \/ ConnectCheck(i) \/ ConnectSetup(i) \/ ConnectOpened(i)
    \/ ConnectWaited(i) \/ ConnectSubscribed(i) \/ ConnectFails(i)

Read(i) ==
    \/ ReadStart(i) \/ ReadMessage(i) \/ ReadFails(i) \/ HandleMessage(i)
    \/ ReadAgain(i)

Frame ==
    \/ SyncFrom \/ NoClick \/ ClickLogin \/ ClickConnect \/ ClickDisconnect
    \/ DropServices \/ ManageChat

Server(e) == ServerSubscribes(e) \/ ServerSends(e) \/ ServerCloses(e)

Running ==
    \/ LoginEnds
    \/ \E i \in Conns : Connect(i) \/ StartReading(i) \/ Read(i) \/ Server(i)
    \/ \E it \in Conns \X SubTypes : SubscribeStep(it)
    \/ \E m \in sends : SendStarts(m)
    \/ Frame

\* connectToChat takes the state to be its own from its test to its end.
Working(i) ==
    conn[i].pc \in {"checked", "connecting", "waiting", "subscribing"}

\* Somebody else changes the state under a call of connectToChat.
Overtaking ==
    m_state' # m_state /\ \E i \in Conns : Working(i) /\ conn'[i] = conn[i]

Next == \/ /\ ~ crashed /\ Running
           /\ overtaken' = (overtaken \/ Overtaking)
        \/ crashed /\ UNCHANGED vars

(***************************************************************************)
(* Coroutines that can go on are resumed by the io_context's threads, and  *)
(* frames follow one another.  Neither the user nor Twitch owes anything:  *)
(* no request has a timeout, so one that is never answered never ends.     *)
(***************************************************************************)
Fairness ==
    /\ WF_service(~ crashed /\ Frame)
    /\ \A i \in Conns :
          /\ WF_service(~ crashed /\ (\/ ConnectCheck(i) \/ ConnectSetup(i)
                                  \/ ConnectWaited(i)))
          /\ WF_service(~ crashed /\ StartReading(i))
          /\ WF_service(~ crashed /\ Read(i))
    /\ \A it \in Conns \X SubTypes :
          WF_service(~ crashed /\ subs[it].pc = "ready" /\ SubscribeStep(it))
    /\ WF_service(~ crashed /\ \E m \in sends : SendStarts(m))

Spec == Init /\ [][Next]_vars /\ Fairness

-----------------------------------------------------------------------------
Stage(pcs) == [pc : pcs, es : Conns \cup {None}]

TypeOK ==
    /\ m_state \in States /\ vm_state \in States
    /\ m_eventsub \in Conns \cup {None}
    /\ {m_config, m_current_user} \subseteq Accounts \cup {NoAccount}
    /\ ui \in {"sync", "auth", "resetting", "chat"}
    /\ logged \in 0..MaxLogins /\ logins \in 0..logged
    /\ conn \in [Conns -> Stage({"unused", "ready", "checked", "connecting",
                                 "waiting", "subscribing", "done"})]
    /\ reader \in [Conns ->
          [pc : {"unused", "ready", "reading", "handling", "handled", "done"},
           es : Conns \cup {None}, msg : Nat]]
    /\ starter \in [Conns -> Stage({"unused", "ready", "done"})]
    /\ subs \in [Conns \X SubTypes ->
                    Stage({"unused", "ready", "posted", "done", "failed"})]
    /\ obj \in [Conns -> [m_cfg : Accounts \cup {NoAccount},
                          ws : {"none", "open", "closed"},
                          m_callback : BOOLEAN, subscribed : BOOLEAN,
                          wire : Seq(Nat), last : Nat]]
    /\ pending \in Seq(Conns \X Nat) /\ chat_log \in Seq(Conns \X Nat)
    /\ sent \in 0..MaxSends
    /\ dangling \subseteq {"connect", "start", "subscribe", "read"}
    /\ {crashed, overtaken} \subseteq BOOLEAN

(***************************************************************************)
(* "Connected!" means something: in ChatConnected the service owns an      *)
(* EventSub for which Twitch has accepted channel.chat.message, whose      *)
(* callback is installed and on which a read loop has been started, and    *)
(* its credentials, those of m_config and the user shown are of one login; *)
(* unless a call of connectToChat was overtaken (see StateFollowsEdges).   *)
(***************************************************************************)
ConnectedSessionIsComplete ==
    m_state = "ChatConnected" /\ ~ overtaken =>
        /\ m_eventsub # None
        /\ obj[m_eventsub].subscribed
        /\ obj[m_eventsub].m_callback
        /\ \E i \in Conns : reader[i].es = m_eventsub
        /\ obj[m_eventsub].m_cfg = m_config
        /\ m_current_user = m_config

(***************************************************************************)
(* The chat window shows what was said: of each session, the messages in   *)
(* the log and the queue are the first ones Twitch sent, each once and in  *)
(* order, across the read loop, the queue and the UI thread.               *)
(***************************************************************************)
Shown == chat_log \o pending
ChatInOrder ==
    \A q \in DOMAIN Shown :
        /\ Shown[q][2] > 1 =>
              \E p \in 1..(q - 1) : Shown[p] = <<Shown[q][1], Shown[q][2] - 1>>
        /\ \A p \in 1..(q - 1) : Shown[p] # Shown[q]

(***************************************************************************)
(* sendMessage checks the state and leaves the rest to a coroutine, which  *)
(* builds the request from two copies of the configuration when it gets a  *)
(* thread; the session can have ended by then and another account's begun. *)
(* Even so the sender and the channel are of one account, and as long as   *)
(* the session the message was meant for is there, the account is the one  *)
(* the user was shown, or for a reply the one it was asked for on.  (Until *)
(* a call of connectToChat is overtaken, see StateFollowsEdges.)           *)
(***************************************************************************)
PostedAsTyped ==
    ~ overtaken =>
        \A p \in posted :
            /\ p.channel = p.sender
            /\ p.for = p.session => p.sender = p.user

(***************************************************************************)
(* The state only moves along these edges, in particular no coroutine      *)
(* brings back a session the user has ended, until a call of connectToChat *)
(* is overtaken.  That takes either of two races: a Logout clicked in a    *)
(* frame that read LoggedIn before the call set the state, or a second     *)
(* call whose test the state passed too.  Neither a login coroutine nor a  *)
(* Login, Disconnect or Reset button ever overtakes a call.                *)
(***************************************************************************)
Edges == {<<"Disconnected", "LoggingIn">>, <<"LoggingIn", "LoggedIn">>,
          <<"LoggingIn", "Error">>, <<"LoggedIn", "ConnectingToChat">>,
          <<"LoggedIn", "Disconnected">>,
          <<"ConnectingToChat", "ChatConnected">>,
          <<"ConnectingToChat", "Error">>, <<"ChatConnected", "Disconnected">>,
          <<"Error", "Disconnected">>}

LogoutOvertakes ==
    ui = "auth" /\ vm_state = "LoggedIn" /\ m_state' = "Disconnected"
SecondCallOvertakes ==
    /\ m_state = "LoggedIn" /\ m_state' = "ConnectingToChat"
    /\ \E i, j \in Conns : i # j /\ conn[i].pc = "checked" /\ conn[j].pc = "checked"

StateFollowsEdges ==
    [][m_state' # m_state /\ ~ overtaken =>
          IF overtaken' THEN LogoutOvertakes \/ SecondCallOvertakes
          ELSE <<m_state, m_state'>> \in Edges]_vars

(***************************************************************************)
(* Logins as TwitchService has them, one step each, are logins as Auth     *)
(* implements them, until a call of connectToChat is overtaken.  In        *)
(* particular two never overlap: the state is not back at Disconnected     *)
(* before the login coroutine has ended, whatever the coroutines of        *)
(* connectToChat write to it.                                              *)
(***************************************************************************)
AbstractLogin == INSTANCE Login WITH
    in_flight <- logins > 0, credentials <- m_config, user <- m_current_user

ImplementsLogin ==
    /\ AbstractLogin!Init
    /\ [][AbstractLogin!Next \/ overtaken']_(AbstractLogin!vars)

(***************************************************************************)
(* The two states in which the UI offers no button are left again if every *)
(* exchange with Twitch ends, well or badly: no path of startLogin's or    *)
(* connectToChat's coroutine forgets to set the state.                     *)
(***************************************************************************)
TwitchAnswers ==
    /\ WF_service(~ crashed /\ LoginEnds)
    /\ \A i \in Conns :
          WF_service(~ crashed /\ (\/ ConnectOpened(i) \/ ConnectSubscribed(i)
                               \/ ConnectFails(i)))

BusyStatesEnd ==
    TwitchAnswers =>
        \A s \in {"LoggingIn", "ConnectingToChat"} :
            m_state = s ~> (m_state # s \/ crashed)

\* Queued messages reach the chat window while the session lasts.
QueueIsDrained ==
    (m_state = "ChatConnected" /\ pending # << >>) ~>
        (pending = << >> \/ m_state # "ChatConnected" \/ crashed)

-----------------------------------------------------------------------------
(* What the documentation says and the code does not do.                   *)

\* RAII cleanup: no coroutine outlives the EventSub it works on.  Disconnect
\* destroys the object under subscribe and doRead coroutines.
NoDangling == dangling = {}

\* A subscription that fails is noticed: the session is not left as it is.
\* The code logs the failure; neither the state nor the window shows it.
FailedSubscriptionIsNoticed ==
    \A it \in Conns \X SubTypes :
        subs[it].pc = "failed" ~> (m_state # "ChatConnected" \/ crashed)
=============================================================================
